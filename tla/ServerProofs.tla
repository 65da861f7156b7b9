---------------------------- MODULE ServerProofs ----------------------------
(***************************************************************************)
(* Proofs about parts of the server that keep to themselves: the console   *)
(* variables of Cvars, the requests from outside of Queries, what          *)
(* CommandBuffer does with the lines, the moves of clients, what the       *)
(* commands of a client and of the operator come to, and what the server   *)
(* makes of names and of the operator's checks.                            *)
(***************************************************************************)
EXTENDS Cvars, Queries, CommandBuffer, UserMoves, Commands, UserChecks, FiniteSetTheorems, SequenceTheorems, WellFoundedInduction, TLAPS

AString == [v : CvarValues \cup {Invalid}, live : BOOLEAN]
Variable == [string : AString, latched : AString \cup {NoString}, flags : SUBSET Flags]
(* The flags a variable can have: those it is declared with, and what "set ... s" gives. *)
Given(n, flags) == flags \subseteq DefaultFlags[n] \cup {"SERVERINFO"}
(* What the next level gives the variable. *)
Next_(n) == Applied(cvars[n]).string
(* Only a latched variable waits for a level, unless its flags were replaced while it waited, and
   the next level gives it what was asked for last, unless that was freed. *)
Waits(n) ==
  n \notin mixed => /\ cvars[n].latched # NoString => Has(n, "LATCH")
                    /\ Next_(n).live => Next_(n).v = wanted[n] /\ Corrected(n, wanted[n]) = wanted[n]
CvInv ==
  /\ cvars \in [CvarNames -> Variable] /\ wanted \in [CvarNames -> CvarValues \cup {Invalid}]
  /\ running \in BOOLEAN /\ sets \in 0 .. MaxSets
  /\ InRange /\ \A n \in CvarNames : Given(n, cvars[n].flags) /\ Waits(n)

LEMMA CorrectedIs ==
  ASSUME NEW n \in CvarNames, NEW v \in CvarValues \cup {Invalid}
  PROVE  /\ Corrected(n, v) \in CvarValues \cup {Invalid} /\ Corrected(n, Corrected(n, v)) = Corrected(n, v)
         /\ n \in Clamped => Corrected(n, v) \in Floor .. Ceiling
         /\ n \notin Clamped => Corrected(n, v) = v
         /\ v \in Floor .. Ceiling => Corrected(n, v) = v
BY CvarConstants DEF Corrected, Invalid
(* The text of a variable, as the functions of cvar.c make it. *)
LEMMA StringIs ==
  /\ NoString.live = FALSE /\ NoString.v = -2
  /\ \A v \in CvarValues \cup {Invalid} : Copy(v) \in AString /\ Copy(v).v = v /\ Copy(v) # NoString
  /\ \A s \in AString : s # NoString /\ Freed(s) \in AString /\ Freed(s).v = s.v /\ ~Freed(s).live /\ Freed(s) # NoString
<1>1. -2 \notin CvarValues \cup {Invalid}
  BY CvarConstants DEF Invalid
<1>2. QED
  BY <1>1 DEF NoString, Copy, Freed, AString

(* Cvar_Set2 of a latched variable: what was asked for is what comes of it, unless it was freed. *)
LEMMA LatchIs ==
  ASSUME NEW c \in Variable, NEW v \in CvarValues \cup {Invalid}
  PROVE  /\ Latch(c, v) \in Variable /\ Latch(c, v).flags = c.flags
         /\ Applied(Latch(c, v)).string.live => Applied(Latch(c, v)).string.v = v
<1>1. c = [string |-> c.string, latched |-> c.latched, flags |-> c.flags]
      /\ c.string \in AString /\ c.latched \in AString \cup {NoString} /\ c.flags \in SUBSET Flags
  BY DEF Variable
<1>2. CASE c.latched # NoString /\ v = c.latched.v
  BY <1>1, <1>2 DEF Latch, Applied
<1>3. CASE c.latched # NoString /\ v # c.latched.v /\ running
  <2>1. Latch(c, v) = [c EXCEPT !.latched = Copy(v)]
    BY <1>3 DEF Latch
  <2>2. QED
    BY <1>1, <2>1, StringIs DEF Applied, Variable
<1>4. CASE c.latched # NoString /\ v # c.latched.v /\ ~running
  <2>1. Latch(c, v) = [c EXCEPT !.string = Copy(v), !.latched = Freed(c.latched)]
    BY <1>4 DEF Latch
  <2>2. c.latched \in AString
    BY <1>1, <1>4
  <2>3. Copy(v) \in AString /\ Freed(c.latched) \in AString /\ Freed(c.latched) # NoString /\ ~Freed(c.latched).live
    BY <2>2, StringIs
  <2>4. Latch(c, v) \in Variable /\ Latch(c, v).flags = c.flags /\ Latch(c, v).latched = Freed(c.latched)
    BY <1>1, <2>1, <2>3 DEF Variable
  <2>5. Applied(Latch(c, v)).string = Freed(c.latched)
    BY <2>3, <2>4 DEF Applied, Variable
  <2>6. QED
    BY <2>3, <2>4, <2>5
<1>5. CASE c.latched = NoString /\ v = c.string.v
  BY <1>1, <1>5 DEF Latch, Applied
<1>6. CASE c.latched = NoString /\ v # c.string.v /\ running
  <2>1. Latch(c, v) = [c EXCEPT !.latched = Copy(v)]
    BY <1>6 DEF Latch
  <2>2. QED
    BY <1>1, <2>1, StringIs DEF Applied, Variable
<1>7. CASE c.latched = NoString /\ v # c.string.v /\ ~running
  <2>1. Latch(c, v) = [c EXCEPT !.string = Copy(v)]
    BY <1>7 DEF Latch
  <2>2. QED
    BY <1>1, <1>7, <2>1, StringIs DEF Applied, Variable
<1>8. QED
  BY <1>2, <1>3, <1>4, <1>5, <1>6, <1>7

(* A function that sets one variable leaves the others as they are. *)
LEMMA OneChanges ==
  ASSUME CvInv, NEW n \in CvarNames, NEW c \in Variable, NEW w \in CvarValues \cup {Invalid},
         cvars' = [cvars EXCEPT ![n] = c], wanted' = [wanted EXCEPT ![n] = w],
         running' \in BOOLEAN, sets' \in 0 .. MaxSets, mixed \subseteq mixed',
         Given(n, c.flags), n \in Clamped => c.string.v \in Floor .. Ceiling,
         n \notin mixed' => /\ c.latched # NoString => "LATCH" \in c.flags
                            /\ Applied(c).string.live => Applied(c).string.v = w /\ Corrected(n, w) = w
  PROVE  CvInv'
<1>1. cvars'[n] = c /\ wanted'[n] = w /\ \A m \in CvarNames \ {n} : cvars'[m] = cvars[m] /\ wanted'[m] = wanted[m]
  BY DEF CvInv
<1>2. cvars' \in [CvarNames -> Variable] /\ wanted' \in [CvarNames -> CvarValues \cup {Invalid}]
  BY DEF CvInv
<1>3. InRange'
  BY <1>1, CvarConstants DEF CvInv, InRange
<1>4. ASSUME NEW m \in CvarNames PROVE Given(m, cvars'[m].flags) /\ Waits(m)'
  BY <1>1 DEF CvInv, Waits, Next_, Has
<1>5. QED
  BY <1>2, <1>3, <1>4 DEF CvInv

LEMMA SetsOne == ASSUME CvInv, NEW n \in CvarNames, NEW v \in CvarValues \cup {Invalid}, CvarSet(n, v) PROVE CvInv'
<1> DEFINE c == IF Has(n, "LATCH") THEN Latch(cvars[n], v) ELSE [cvars[n] EXCEPT !.string = Copy(Corrected(n, v))]
           w == IF Has(n, "LATCH") THEN v ELSE Corrected(n, v)
<1>1. cvars[n] \in Variable /\ Given(n, cvars[n].flags) /\ Waits(n)
  BY DEF CvInv
<1>2. cvars' = [cvars EXCEPT ![n] = c] /\ wanted' = [wanted EXCEPT ![n] = w] /\ running' = running /\ mixed' = mixed
  BY DEF CvarSet, CvInv
<1>3. sets' \in 0 .. MaxSets
  BY CvarConstants DEF CvarSet, Counted, CvInv
<1>4. CASE Has(n, "LATCH")
  <2>1. n \notin Clamped
    BY <1>1, <1>4, CvarConstants DEF Given, Has
  <2>2. c = Latch(cvars[n], v) /\ w = v /\ "LATCH" \in cvars[n].flags
    BY <1>4 DEF Has
  <2>3. c \in Variable /\ c.flags = cvars[n].flags /\ (Applied(c).string.live => Applied(c).string.v = v)
    BY <1>1, <2>2, LatchIs
  <2>4. Corrected(n, v) = v
    BY <2>1, CorrectedIs
  <2> HIDE DEF c, w
  <2>5. QED
    BY <1>1, <1>2, <1>3, <2>1, <2>2, <2>3, <2>4, OneChanges DEF CvInv
<1>5. CASE ~Has(n, "LATCH")
  <2>1. c = [cvars[n] EXCEPT !.string = Copy(Corrected(n, v))] /\ w = Corrected(n, v)
    BY <1>5
  <2>2. /\ w \in CvarValues \cup {Invalid} /\ Corrected(n, w) = w /\ (n \in Clamped => w \in Floor .. Ceiling)
        /\ Copy(w) \in AString /\ Copy(w).v = w
    BY <2>1, CorrectedIs, StringIs
  <2> HIDE DEF c, w
  <2>3. c \in Variable /\ c.flags = cvars[n].flags /\ c.string = Copy(w) /\ c.latched = cvars[n].latched
    BY <1>1, <2>1, <2>2 DEF Variable
  <2>4. n \notin mixed' => c.latched = NoString /\ Applied(c).string.v = w
    BY <1>1, <1>2, <1>5, <2>2, <2>3 DEF Waits, Applied
  <2>5. QED
    BY <1>1, <1>2, <1>3, <2>2, <2>3, <2>4, OneChanges DEF CvInv
<1>6. QED
  BY <1>4, <1>5

LEMMA ForcesOne == ASSUME CvInv, NEW n \in CvarNames, NEW v \in CvarValues \cup {Invalid}, ForceSet(n, v) PROVE CvInv'
<1> DEFINE w == Corrected(n, v)
           c == Forced(cvars[n], w)
<1>1. cvars[n] \in Variable /\ Given(n, cvars[n].flags)
  BY DEF CvInv
<1>2. /\ cvars' = [cvars EXCEPT ![n] = c] /\ wanted' = [wanted EXCEPT ![n] = w] /\ running' = running /\ mixed' = mixed
      /\ sets' \in 0 .. MaxSets
  BY CvarConstants DEF ForceSet, Counted, CvInv
<1>3. /\ w \in CvarValues \cup {Invalid} /\ Corrected(n, w) = w /\ (n \in Clamped => w \in Floor .. Ceiling)
      /\ Copy(w) \in AString /\ Copy(w).v = w
  BY CorrectedIs, StringIs
<1> HIDE DEF w
<1>4. c \in Variable /\ c.flags = cvars[n].flags /\ c.string = Copy(w) /\ c.latched = NoString
  BY <1>1, <1>3 DEF Variable, Forced
<1> HIDE DEF c
<1>5. Applied(c).string.v = w
  BY <1>3, <1>4 DEF Applied
<1>6. QED
  BY <1>1, <1>2, <1>3, <1>4, <1>5, OneChanges DEF CvInv

LEMMA FullSetsOne ==
  ASSUME CvInv, NEW n \in CvarNames, NEW v \in CvarValues, FullSet(n, v, {"SERVERINFO"}) PROVE CvInv'
<1> DEFINE w == Corrected(n, v)
           c == [cvars[n] EXCEPT !.string = Copy(w), !.flags = {"SERVERINFO"}]
<1>1. cvars[n] \in Variable /\ Given(n, cvars[n].flags)
  BY DEF CvInv
<1>2. /\ cvars' = [cvars EXCEPT ![n] = c] /\ wanted' = [wanted EXCEPT ![n] = w] /\ running' = running
      /\ mixed' = (IF cvars[n].latched = NoString THEN mixed ELSE mixed \cup {n})
      /\ sets' \in 0 .. MaxSets
  BY CvarConstants DEF FullSet, Counted, CvInv
<1>3. /\ w \in CvarValues \cup {Invalid} /\ Corrected(n, w) = w /\ (n \in Clamped => w \in Floor .. Ceiling)
      /\ Copy(w) \in AString /\ Copy(w).v = w
  BY CorrectedIs, StringIs
<1> HIDE DEF w
<1>4. c \in Variable /\ c.flags = {"SERVERINFO"} /\ c.string = Copy(w) /\ c.latched = cvars[n].latched
  BY <1>1, <1>3 DEF Variable, Flags
<1> HIDE DEF c
<1>5. n \notin mixed' => c.latched = NoString /\ Applied(c).string.v = w
  BY <1>2, <1>3, <1>4 DEF Applied
<1>6. Given(n, c.flags)
  BY <1>4 DEF Given
<1>7. QED
  BY <1>1, <1>2, <1>3, <1>4, <1>5, <1>6, OneChanges DEF CvInv

LEMMA GetsOne == ASSUME CvInv, NEW n \in CvarNames, CvarGet(n) PROVE CvInv'
<1> DEFINE c == [cvars[n] EXCEPT !.flags = @ \cup DefaultFlags[n]]
<1>1. cvars[n] \in Variable /\ Given(n, cvars[n].flags) /\ Waits(n) /\ wanted[n] \in CvarValues \cup {Invalid}
  BY DEF CvInv
<1>2. /\ cvars' = [cvars EXCEPT ![n] = c] /\ wanted' = [wanted EXCEPT ![n] = wanted[n]] /\ running' = running
      /\ mixed' = mixed /\ sets' = sets
  BY DEF CvarGet, CvInv
<1>3. c \in Variable /\ c.flags = cvars[n].flags \cup DefaultFlags[n] /\ c.string = cvars[n].string /\ c.latched = cvars[n].latched
  BY <1>1, CvarConstants DEF Variable
<1> HIDE DEF c
<1>4. Given(n, c.flags)
  BY <1>1, <1>3 DEF Given
<1>5. Applied(c).string = Applied(cvars[n]).string
  BY <1>1, <1>3 DEF Applied, Variable
<1>6. n \in Clamped => c.string.v \in Floor .. Ceiling
  BY <1>3 DEF CvInv, InRange
<1>7. n \notin mixed' => /\ c.latched # NoString => "LATCH" \in c.flags
                         /\ Applied(c).string.live => Applied(c).string.v = wanted[n] /\ Corrected(n, wanted[n]) = wanted[n]
  BY <1>1, <1>2, <1>3, <1>5 DEF Waits, Next_, Has
<1>8. running' \in BOOLEAN /\ sets' \in 0 .. MaxSets /\ mixed \subseteq mixed'
  BY <1>2 DEF CvInv
<1>9. QED
  BY <1>1, <1>2, <1>3, <1>4, <1>6, <1>7, <1>8, OneChanges

(* A level starts with what waited for it, corrected. *)
LEMMA LevelSets ==
  ASSUME CvInv, StartLevel
  PROVE  /\ CvInv'
         /\ \A n \in CvarNames \ mixed : cvars'[n].string.live => cvars'[n].string.v = wanted[n]
<1> DEFINE S(n) == [v |-> Corrected(n, Applied(cvars[n]).string.v), live |-> Applied(cvars[n]).string.live]
           C(n) == [Applied(cvars[n]) EXCEPT !.string = S(n)]
<1>1. /\ cvars' = [n \in CvarNames |-> C(n)] /\ wanted' = [n \in CvarNames |-> cvars'[n].string.v]
      /\ running' = TRUE /\ mixed' = {} /\ sets' = 0
  BY DEF StartLevel
<1>2. ASSUME NEW n \in CvarNames
      PROVE  /\ C(n) \in Variable /\ C(n).string = S(n) /\ C(n).latched = NoString /\ C(n).flags = cvars[n].flags
             /\ S(n).v \in CvarValues \cup {Invalid} /\ Corrected(n, S(n).v) = S(n).v
             /\ n \in Clamped => S(n).v \in Floor .. Ceiling
             /\ S(n).live = Next_(n).live /\ S(n).v = Corrected(n, Next_(n).v)
  <2>1. cvars[n] \in Variable
    BY DEF CvInv
  <2>2. /\ Applied(cvars[n]) \in Variable /\ Applied(cvars[n]).latched = NoString
        /\ Applied(cvars[n]).flags = cvars[n].flags /\ Applied(cvars[n]).string \in AString
    BY <2>1, StringIs DEF Applied, Variable
  <2>3. /\ S(n).v \in CvarValues \cup {Invalid} /\ Corrected(n, S(n).v) = S(n).v
        /\ (n \in Clamped => S(n).v \in Floor .. Ceiling)
    BY <2>2, CorrectedIs DEF AString
  <2>4. S(n) \in AString
    BY <2>2, <2>3 DEF AString
  <2>5. S(n).live = Next_(n).live /\ S(n).v = Corrected(n, Next_(n).v)
    BY DEF Next_
  <2> HIDE DEF S
  <2>6. QED
    BY <2>2, <2>3, <2>4, <2>5 DEF Variable
<1> HIDE DEF S, C
<1>3. cvars' \in [CvarNames -> Variable] /\ \A n \in CvarNames : cvars'[n] = C(n) /\ wanted'[n] = S(n).v
  BY <1>1, <1>2
<1>4. wanted' \in [CvarNames -> CvarValues \cup {Invalid}]
  BY <1>1, <1>2, <1>3
<1>5. InRange'
  BY <1>2, <1>3, CvarConstants DEF InRange
<1>6. ASSUME NEW n \in CvarNames PROVE Given(n, cvars'[n].flags) /\ Waits(n)'
  <2>1. Given(n, cvars'[n].flags)
    BY <1>2, <1>3 DEF CvInv
  <2>2. Next_(n)' = S(n)
    BY <1>2, <1>3 DEF Next_, Applied
  <2>3. QED
    BY <1>2, <1>3, <2>1, <2>2 DEF Waits
<1>7. ASSUME NEW n \in CvarNames \ mixed, cvars'[n].string.live PROVE cvars'[n].string.v = wanted[n]
  BY <1>2, <1>3, <1>7 DEF CvInv, Waits
<1>8. QED
  BY <1>1, <1>3, <1>4, <1>5, <1>6, <1>7, CvarConstants DEF CvInv

LEMMA CvStep ==
  ASSUME CvInv, [CvNext]_cvVars
  PROVE  /\ CvInv'
         /\ running' /\ sets' = 0 /\ sets # 0
            => \A n \in CvarNames \ mixed : cvars'[n].string.live => cvars'[n].string.v = wanted[n]
<1>1. CASE UNCHANGED cvVars
  BY <1>1 DEF cvVars, CvInv, InRange, Given, Waits, Next_, Applied, Has, Corrected
<1>2. CASE StartLevel
  BY <1>2, LevelSets
<1>3. CASE StopServer
  BY <1>3, CvarConstants DEF StopServer, CvInv, InRange, Given, Waits, Next_, Applied, Has, Corrected
<1>4. CASE \E n \in CvarNames, v \in CvarValues \cup {Invalid} : CvarSet(n, v) \/ ForceSet(n, v)
  <2>1. PICK n \in CvarNames, v \in CvarValues \cup {Invalid} : CvarSet(n, v) \/ ForceSet(n, v)
    BY <1>4
  <2>2. sets' # 0
    BY <2>1, CvarConstants DEF CvarSet, ForceSet, Counted, CvInv
  <2>3. QED
    BY <2>1, <2>2, SetsOne, ForcesOne
<1>5. CASE \E n \in CvarNames, v \in CvarValues : FullSet(n, v, {"SERVERINFO"})
  <2>1. PICK n \in CvarNames, v \in CvarValues : FullSet(n, v, {"SERVERINFO"})
    BY <1>5
  <2>2. sets' # 0
    BY <2>1, CvarConstants DEF FullSet, Counted, CvInv
  <2>3. QED
    BY <2>1, <2>2, FullSetsOne
<1>6. CASE \E n \in CvarNames : CvarGet(n)
  BY <1>6, GetsOne DEF CvarGet
<1>7. QED
  BY <1>1, <1>2, <1>3, <1>4, <1>5, <1>6 DEF CvNext

LEMMA CvStarts == CvInit => CvInv
<1> SUFFICES ASSUME CvInit PROVE CvInv
  OBVIOUS
<1> DEFINE C(n) == [string |-> Copy(Floor), latched |-> NoString, flags |-> DefaultFlags[n]]
<1>1. cvars = [n \in CvarNames |-> C(n)]
  BY DEF CvInit
<1>2. ASSUME NEW n \in CvarNames
      PROVE  C(n) \in Variable /\ C(n).string = Copy(Floor) /\ C(n).latched = NoString /\ C(n).flags = DefaultFlags[n]
  BY StringIs, CvarConstants DEF Variable
<1> HIDE DEF C
<1>3. cvars \in [CvarNames -> Variable] /\ \A n \in CvarNames : cvars[n] = C(n) /\ wanted[n] = Floor
  BY <1>1, <1>2 DEF CvInit
<1>4. Floor \in Floor .. Ceiling /\ Copy(Floor).v = Floor
  BY StringIs, CvarConstants
<1>5. ASSUME NEW n \in CvarNames PROVE Given(n, cvars[n].flags) /\ Waits(n)
  <2>1. Given(n, cvars[n].flags)
    BY <1>2, <1>3 DEF Given
  <2>2. Next_(n) = Copy(Floor) /\ Corrected(n, Floor) = Floor
    BY <1>2, <1>3, <1>4, CorrectedIs, CvarConstants DEF Next_, Applied
  <2>3. QED
    BY <1>2, <1>3, <1>4, <2>1, <2>2 DEF Waits
<1>6. InRange
  BY <1>2, <1>3, <1>4, CvarConstants DEF InRange
<1>7. wanted \in [CvarNames -> CvarValues \cup {Invalid}]
  BY <1>4, CvarConstants DEF CvInit
<1>8. running \in BOOLEAN
  BY DEF CvInit
<1>9. sets \in 0 .. MaxSets
  BY CvarConstants DEF CvInit
<1>10. QED
  BY <1>3, <1>5, <1>6, <1>7, <1>8, <1>9 DEF CvInv

(* Whatever the console, the game and the levels do to variables, those with a callback stay in its *)
(* range, and a level starts with the values that were asked for last (cvar.c, sv_init.c).          *)
THEOREM VariablesHold == CvSpec => ValuesHold
<1>1. CvInv => CvTypeOK /\ InRange
  BY DEF CvInv, CvTypeOK, Variable, AString
<1>2. CvInv /\ [CvNext]_cvVars
      => CvInv' /\ [running' /\ sets' = 0 /\ sets # 0
                    => \A n \in CvarNames \ mixed : cvars'[n].string.live => cvars'[n].string.v = wanted[n]]_cvVars
  BY CvStep
<1>3. QED
  BY <1>1, <1>2, CvStarts, PTL DEF CvSpec, ValuesHold, LevelHasAskedValues

-----------------------------------------------------------------------------
(* Queries *)

(* A set of natural numbers has its least element. *)
LEMMA LeastOf ==
  ASSUME NEW S \in SUBSET Nat, S # {}
  PROVE  \E x \in S : \A y \in S : x <= y
<1> DEFINE T == {0 .. y : y \in S}
<1>1. T \subseteq FiniteSubsetsOf(Nat) /\ T # {}
  <2>1. ASSUME NEW y \in S PROVE 0 .. y \in FiniteSubsetsOf(Nat)
    <3>1. 0 \in Int /\ y \in Int /\ 0 .. y \subseteq Nat
      OBVIOUS
    <3>2. IsFiniteSet(0 .. y)
      BY <3>1, FS_Interval
    <3>3. QED
      BY <3>1, <3>2 DEF FiniteSubsetsOf
  <2>2. QED
    BY <2>1
<1>2. PICK low \in T : \A t \in T : <<t, low>> \notin StrictSubsetOrdering(Nat)
  BY <1>1, WFMin, FS_StrictSubsetOrderingWellFounded
<1>3. PICK x \in S : low = 0 .. x
  BY <1>2
<1>4. ASSUME NEW y \in S PROVE x <= y
  <2>1. <<0 .. y, 0 .. x>> \notin StrictSubsetOrdering(Nat)
    BY <1>2, <1>3
  <2>2. x \in Nat /\ y \in Nat
    OBVIOUS
  <2>3. SUFFICES ASSUME y < x PROVE FALSE
    BY <2>2
  <2>4. 0 .. y \subseteq 0 .. x /\ x \in 0 .. x /\ x \notin 0 .. y /\ 0 .. x \subseteq Nat
    BY <2>2, <2>3
  <2>5. QED
    BY <2>1, <2>4 DEF StrictSubsetOrdering
<1>5. QED
  BY <1>4

(* The events that a rate has let through, no longer ago than a period: those of the period under way, *)
(* which it counts, and k of the one before. *)
Rates == [time : Nat, count : 0 .. CountCap]
Split(times, r, max, k) ==
  /\ k \in 0 .. Len(times) /\ k <= max /\ Len(times) - k <= max /\ Len(times) - k <= r.count
  /\ \A i \in 1 .. k : times[i] < r.time
  /\ \A i \in k + 1 .. Len(times) : r.time <= times[i]
Window(times, r, max, t) ==
  /\ times \in Seq(Nat) /\ r \in Rates /\ r.time <= t
  /\ \A i, j \in 1 .. Len(times) : i <= j => times[i] <= times[j]
  /\ \A i \in 1 .. Len(times) : times[i] <= t /\ t - times[i] <= Period /\ times[i] <= r.time + Period
  /\ \E k \in Nat : Split(times, r, max, k)

LEMMA WindowBounds ==
  ASSUME NEW times, NEW r, NEW max \in Nat, NEW t \in Nat, Window(times, r, max, t)
  PROVE  Len(times) <= 2 * max
<1>1. PICK k \in Nat : Split(times, r, max, k)
  BY DEF Window
<1>2. Len(times) \in Nat
  BY DEF Window
<1>3. QED
  BY <1>1, <1>2 DEF Split

LEMMA Empties ==
  ASSUME NEW max \in Nat, NEW t \in Nat, NEW r \in Rates, r.time <= t
  PROVE  Window(<<>>, r, max, t)
<1>1. Split(<<>>, r, max, 0)
  BY DEF Split, Rates
<1>2. QED
  BY <1>1 DEF Window

(* A period that starts leaves the events as they are. *)
LEMMA PeriodStarts ==
  ASSUME NEW times, NEW r, NEW max \in Nat, now \in Nat, Window(times, r, max, now), now - r.time > Period,
         NEW new \in Rates, new.time = now
  PROVE  Window(times, new, max, now) /\ Split(times, new, max, Len(times))
<1>1. times \in Seq(Nat) /\ r \in Rates /\ Len(times) \in Nat /\ r.time \in Nat /\ Period \in Nat /\ new.count \in Nat
  BY QuAssumption DEF Window, Rates
<1>2. PICK k \in Nat : Split(times, r, max, k)
  BY DEF Window
<1>3. k = 0
  <2>1. SUFFICES ASSUME k # 0 PROVE FALSE
    OBVIOUS
  <2>2. 1 \in 1 .. k /\ 1 \in 1 .. Len(times)
    BY <1>1, <1>2, <2>1 DEF Split
  <2>3. times[1] < r.time /\ now - times[1] <= Period /\ times[1] \in Nat
    BY <1>1, <1>2, <2>2 DEF Split, Window
  <2>4. QED
    BY <1>1, <2>3
<1>4. Len(times) <= max
  BY <1>1, <1>2, <1>3 DEF Split
<1>5. ASSUME NEW i \in 1 .. Len(times) PROVE times[i] < now /\ times[i] <= now /\ now - times[i] <= Period /\ times[i] <= now + Period
  <2>1. times[i] <= r.time + Period /\ now - times[i] <= Period /\ times[i] \in Nat
    BY <1>1 DEF Window
  <2>2. QED
    BY <1>1, <2>1
<1>6. Split(times, new, max, Len(times))
  BY <1>1, <1>4, <1>5 DEF Split
<1>7. QED
  BY <1>1, <1>5, <1>6 DEF Window

(* RateSample and RateStart. *)
LEMMA SampleIs ==
  ASSUME NEW r \in Rates, now \in Nat
  PROVE  /\ RateSample(r) \in Rates /\ RateStart(r) \in Rates
         /\ now - r.time > Period => RateSample(r) = [time |-> now, count |-> 1] /\ RateStart(r) = [time |-> now, count |-> 0]
         /\ now - r.time <= Period => /\ RateStart(r) = r /\ RateSample(r).time = r.time
                                      /\ RateSample(r).count = (IF r.count < CountCap THEN r.count + 1 ELSE r.count)
<1> DEFINE c == IF r.count < CountCap THEN r.count + 1 ELSE r.count
<1>1. c \in 0 .. CountCap /\ 1 \in 0 .. CountCap /\ 0 \in 0 .. CountCap /\ r.time \in Nat /\ Period \in Nat
  BY QuAssumption DEF Rates
<1>2. RateSample(r) = IF now - r.time > Period THEN [time |-> now, count |-> 1] ELSE [r EXCEPT !.count = c]
  BY DEF RateSample
<1> HIDE DEF c
<1>3. [r EXCEPT !.count = c] \in Rates /\ [r EXCEPT !.count = c].time = r.time /\ [r EXCEPT !.count = c].count = c
  BY <1>1 DEF Rates
<1>4. [time |-> now, count |-> 1] \in Rates /\ [time |-> now, count |-> 0] \in Rates
  BY <1>1 DEF Rates
<1>5. now - r.time > Period \/ now - r.time <= Period
  BY <1>1
<1>6. ~(now - r.time > Period /\ now - r.time <= Period)
  BY <1>1
<1>7. QED
  BY <1>2, <1>3, <1>4, <1>5, <1>6 DEF RateStart, c

(* An event is counted, and let through or not; it is let through if the count does not exceed max. *)
LEMMA EventCounts ==
  ASSUME NEW times, NEW r, NEW max \in Nat, now \in Nat, Window(times, r, max, now),
         NEW s, s = RateSample(r), NEW n, n = Append(times, now)
  PROVE  /\ Window(times, s, max, now)
         /\ Window(times, RateStart(r), max, now)
         /\ s.count <= max /\ max < CountCap => Window(n, s, max, now)
<1>1. times \in Seq(Nat) /\ r \in Rates /\ Len(times) \in Nat /\ r.time \in Nat /\ r.count \in 0 .. CountCap /\ Period \in Nat
      /\ CountCap \in Nat
  BY QuAssumption DEF Window, Rates
<1>2. s \in Rates /\ RateStart(r) \in Rates /\ s.time \in Nat /\ s.count \in 0 .. CountCap
  BY <1>1, SampleIs DEF Rates
<1>3. n \in Seq(Nat) /\ Len(n) = Len(times) + 1 /\ n[Len(n)] = now /\ \A i \in 1 .. Len(times) : n[i] = times[i] /\ times[i] \in Nat
  BY <1>1
<1>4. ASSUME s.time <= now, now <= s.time + Period, NEW k \in Nat, Split(times, s, max, k), Len(times) - k < max, Len(times) - k < s.count,
             \A i, j \in 1 .. Len(times) : i <= j => times[i] <= times[j],
             \A i \in 1 .. Len(times) : times[i] <= now /\ now - times[i] <= Period /\ times[i] <= s.time + Period
      PROVE  Window(n, s, max, now)
  <2>1. ASSUME NEW i \in 1 .. Len(n), NEW j \in 1 .. Len(n), i <= j PROVE n[i] <= n[j]
    <3>1. CASE j = Len(n)
      BY <1>1, <1>3, <1>4, <2>1, <3>1
    <3>2. CASE j # Len(n)
      BY <1>1, <1>3, <1>4, <2>1, <3>2
    <3>3. QED
      BY <3>1, <3>2
  <2>2. ASSUME NEW i \in 1 .. Len(n) PROVE n[i] <= now /\ now - n[i] <= Period /\ n[i] <= s.time + Period
    <3>1. CASE i = Len(n)
      BY <1>1, <1>2, <1>3, <1>4, <3>1
    <3>2. CASE i # Len(n)
      <4>1. i \in 1 .. Len(times)
        BY <1>1, <1>3, <3>2
      <4>2. QED
        BY <1>3, <1>4, <4>1
    <3>3. QED
      BY <3>1, <3>2
  <2>3. Split(n, s, max, k)
    <3>1. k \in 0 .. Len(n) /\ k <= max /\ Len(n) - k <= max /\ Len(n) - k <= s.count /\ k \in 0 .. Len(times)
      BY <1>1, <1>2, <1>3, <1>4 DEF Split
    <3>2. ASSUME NEW i \in 1 .. k PROVE n[i] < s.time
      <4>1. i \in 1 .. Len(times)
        BY <1>1, <3>1
      <4>2. QED
        BY <1>3, <1>4, <4>1 DEF Split
    <3>3. ASSUME NEW i \in k + 1 .. Len(n) PROVE s.time <= n[i]
      <4>1. i = Len(n) \/ i \in k + 1 .. Len(times)
        BY <1>1, <1>3, <3>1
      <4>2. CASE i = Len(n)
        BY <1>3, <1>4, <4>2
      <4>3. CASE i \in k + 1 .. Len(times)
        <5>1. i \in 1 .. Len(times)
          BY <1>1, <3>1, <4>3
        <5>2. QED
          BY <1>3, <1>4, <4>3, <5>1 DEF Split
      <4>4. QED
        BY <4>1, <4>2, <4>3
    <3>4. QED
      BY <3>1, <3>2, <3>3 DEF Split
  <2>4. s.time <= now /\ s \in Rates /\ n \in Seq(Nat)
    BY <1>2, <1>3, <1>4
  <2>5. QED
    BY <2>1, <2>2, <2>3, <2>4 DEF Window
<1>5. CASE now - r.time > Period
  <2>1. s.time = now /\ s.count = 1 /\ RateStart(r).time = now
    BY <1>1, <1>5, SampleIs
  <2>2. Window(times, s, max, now) /\ Window(times, RateStart(r), max, now) /\ Split(times, s, max, Len(times))
    BY <1>2, <1>5, <2>1, PeriodStarts
  <2>3. ASSUME s.count <= max PROVE Window(n, s, max, now)
    <3>1. s.time <= now /\ now <= s.time + Period /\ Len(times) - Len(times) < max /\ Len(times) - Len(times) < s.count
      BY <1>1, <2>1, <2>3
    <3>2. /\ \A i, j \in 1 .. Len(times) : i <= j => times[i] <= times[j]
          /\ \A i \in 1 .. Len(times) : times[i] <= now /\ now - times[i] <= Period /\ times[i] <= s.time + Period
      BY <2>2 DEF Window
    <3>3. QED
      BY <1>1, <1>4, <2>2, <3>1, <3>2
  <2>4. QED
    BY <2>2, <2>3
<1>6. CASE now - r.time <= Period
  <2>1. s.time = r.time /\ s.count = (IF r.count < CountCap THEN r.count + 1 ELSE r.count) /\ RateStart(r) = r
    BY <1>1, <1>6, SampleIs
  <2>2. PICK k \in Nat : Split(times, r, max, k)
    BY DEF Window
  <2>3. Split(times, s, max, k)
    BY <1>1, <2>1, <2>2 DEF Split
  <2>4. Window(times, s, max, now)
    BY <1>2, <2>1, <2>3 DEF Window
  <2>5. ASSUME s.count <= max, max < CountCap PROVE Window(n, s, max, now)
    <3>1. s.count = r.count + 1
      BY <1>1, <2>1, <2>5
    <3>2. Len(times) - k < max /\ Len(times) - k < s.count
      BY <1>1, <2>2, <2>5, <3>1 DEF Split
    <3>3. s.time <= now /\ now <= s.time + Period
      BY <1>1, <1>6, <2>1 DEF Window
    <3>4. QED
      BY <1>4, <2>1, <2>3, <3>2, <3>3 DEF Window
  <2>6. QED
    BY <2>1, <2>4, <2>5
<1>7. now - r.time > Period \/ now - r.time <= Period
  BY <1>1
<1>8. QED
  BY <1>5, <1>6, <1>7

LEMMA CountUpTo == \A N \in Nat : IsFiniteSet(1 .. N) /\ Cardinality(1 .. N) = N
<1>1. TAKE N \in Nat
<1>2. 1 \in Int /\ N \in Int
  OBVIOUS
<1>3. IsFiniteSet(1 .. N) /\ Cardinality(1 .. N) = IF 1 > N THEN 0 ELSE N - 1 + 1
  BY <1>2, FS_Interval
<1>4. QED
  BY <1>3

(* What is left of a list when its first d elements are taken off, or its n-th. *)
LEMMA RestIs == ASSUME NEW s \in Seq(Nat), NEW d \in 0 .. Len(s)
  PROVE /\ SubSeq(s, d + 1, Len(s)) \in Seq(Nat) /\ Len(SubSeq(s, d + 1, Len(s))) = Len(s) - d
        /\ \A i \in 1 .. Len(s) - d : SubSeq(s, d + 1, Len(s))[i] = s[i + d]
<1>1. Len(s) \in Nat
  OBVIOUS
<1>2. SubSeq(s, d + 1, Len(s)) \in Seq(Nat)
  OBVIOUS
<1>3. Len(SubSeq(s, d + 1, Len(s))) = Len(s) - d
  BY <1>1
<1>4. ASSUME NEW i \in 1 .. Len(s) - d PROVE SubSeq(s, d + 1, Len(s))[i] = s[i + d]
  BY <1>1
<1>5. QED
  BY <1>2, <1>3, <1>4
LEMMA RemovedIs == ASSUME NEW S, NEW list \in Seq(S), NEW n \in 1 .. Len(list), NEW new, new = RemoveAt(list, n)
  PROVE new \in Seq(S) /\ Len(new) = Len(list) - 1 /\ \A i \in 1 .. Len(new) : new[i] = list[IF i < n THEN i ELSE i + 1]
<1>1. new = SubSeq(list, 1, n - 1) \o SubSeq(list, n + 1, Len(list))
  BY DEF RemoveAt
<1> DEFINE s == SubSeq(list, 1, n - 1)
           t == SubSeq(list, n + 1, Len(list))
<1>2. Len(list) \in Nat
  OBVIOUS
<1>3. s \in Seq(S) /\ t \in Seq(S)
  OBVIOUS
<1>4. Len(s) = n - 1 
  BY <1>2
<1>5. Len(t) = Len(list) - n
  BY <1>2
<1>6. \A i \in 1 .. n - 1 : s[i] = list[i]
  BY <1>2
<1>7. \A i \in 1 .. Len(list) - n : t[i] = list[i + n]
  BY <1>2
<1>8. new = s \o t
  BY <1>1
<1> HIDE DEF s, t
<1>9. Len(new) = Len(list) - 1 /\ new \in Seq(S)
  BY <1>2, <1>3, <1>4, <1>5, <1>8
<1>10. ASSUME NEW i \in 1 .. Len(new) PROVE new[i] = list[IF i < n THEN i ELSE i + 1]
  <2>1. CASE i < n
    <3>1. i \in 1 .. Len(s)
      BY <1>2, <1>4, <2>1
    <3>2. new[i] = s[i]
      BY <1>2, <1>3, <1>8, <3>1
    <3>3. QED
      BY <1>2, <1>6, <2>1, <3>2
  <2>2. CASE ~(i < n)
    <3>0. i \in 1 .. Len(list) - 1
      BY <1>9
    <3>1. i - Len(s) \in 1 .. Len(t) /\ i \in Int
      BY <1>2, <1>4, <1>5, <2>2, <3>0
    <3>2. new[i] = t[i - Len(s)]
      BY <1>2, <1>3, <1>8, <3>1
    <3>3. i - Len(s) \in 1 .. Len(list) - n /\ (i - Len(s)) + n = i + 1
      BY <1>2, <1>4, <1>5, <3>1
    <3>4. t[i - Len(s)] = list[i + 1]
      BY <1>7, <3>3
    <3>5. QED
      BY <2>2, <3>2, <3>4
  <2>3. QED
    BY <2>1, <2>2
<1>11. QED
  BY <1>9, <1>10

(* The events of the last period: the older ones, which are the first of the list, are taken off. *)
LEMMA RecentIs ==
  ASSUME NEW times \in Seq(Nat), NEW t \in Nat, \A i, j \in 1 .. Len(times) : i <= j => times[i] <= times[j]
  PROVE  \E d \in 0 .. Len(times) :
           /\ Recent(times, t) \in Seq(Nat) /\ Len(Recent(times, t)) = Len(times) - d
           /\ \A i \in 1 .. d : t - times[i] > Period
           /\ \A i \in 1 .. Len(times) - d : Recent(times, t)[i] = times[i + d] /\ ~(t - times[i + d] > Period)
<1> DEFINE old == {i \in DOMAIN times : t - times[i] > Period}
           S == {i \in 1 .. Len(times) + 1 : i \notin old}
<1>1. DOMAIN times = 1 .. Len(times) /\ Len(times) \in Nat /\ Period \in Nat /\ \A i \in 1 .. Len(times) : times[i] \in Nat
  BY QuAssumption
<1>2. Len(times) + 1 \in S /\ S \subseteq Nat
  BY <1>1
<1>3. PICK e \in S : \A y \in S : e <= y
  BY <1>2, LeastOf
<1>4. e \in 1 .. Len(times) + 1 /\ e \notin old
  BY <1>3
<1>5. old = 1 .. e - 1
  <2>1. ASSUME NEW i \in 1 .. e - 1 PROVE i \in old
    <3>1. i \in 1 .. Len(times) + 1 /\ ~(e <= i)
      BY <1>1, <1>4
    <3>2. QED
      BY <1>3, <3>1
  <2>2. ASSUME NEW i \in old PROVE i \in 1 .. e - 1
    <3>1. i \in 1 .. Len(times) /\ t - times[i] > Period
      BY <1>1
    <3>2. SUFFICES ASSUME e <= i PROVE FALSE
      BY <1>1, <1>4, <3>1
    <3>3. e \in 1 .. Len(times) /\ times[e] <= times[i]
      BY <1>1, <1>4, <3>1, <3>2
    <3>4. t - times[e] > Period
      BY <1>1, <3>1, <3>3
    <3>5. QED
      BY <1>1, <1>4, <3>3, <3>4
  <2>3. QED
    BY <2>1, <2>2
<1>6. Cardinality(old) = e - 1
  <2>1. e - 1 \in Nat
    BY <1>1, <1>4
  <2>2. QED
    BY <1>5, <2>1, CountUpTo
<1>7. Recent(times, t) = SubSeq(times, e, Len(times))
  <2>1. Recent(times, t) = SubSeq(times, Cardinality(old) + 1, Len(times))
    BY DEF Recent
  <2>2. Cardinality(old) + 1 = e
    BY <1>1, <1>4, <1>6
  <2>3. QED
    BY <2>1, <2>2
<1> DEFINE d == e - 1
<1>8. d \in 0 .. Len(times) /\ e = d + 1
  BY <1>1, <1>4
<1>9. \A i \in 1 .. Len(times) : t - times[i] > Period <=> i \in 1 .. d
  BY <1>1, <1>5
<1> HIDE DEF old, S, d
<1>10. SubSeq(times, d + 1, Len(times)) \in Seq(Nat) /\ Len(SubSeq(times, d + 1, Len(times))) = Len(times) - d
       /\ \A i \in 1 .. Len(times) - d : SubSeq(times, d + 1, Len(times))[i] = times[i + d]
  BY <1>8, RestIs
<1>11. ASSUME NEW i \in 1 .. Len(times) - d PROVE ~(t - times[i + d] > Period)
  <2>1. i + d \in 1 .. Len(times) /\ i + d \notin 1 .. d
    BY <1>1, <1>8
  <2>2. QED
    BY <1>9, <2>1
<1>12. ASSUME NEW i \in 1 .. d PROVE t - times[i] > Period
  <2>1. i \in 1 .. Len(times)
    BY <1>1, <1>8
  <2>2. QED
    BY <1>9, <2>1
<1>13. QED
  BY <1>7, <1>8, <1>10, <1>11, <1>12

(* The clock takes off the events that are too old. *)
LEMMA WindowMoves ==
  ASSUME NEW times, NEW r, NEW max \in Nat, NEW t \in Nat, Window(times, r, max, t),
         NEW u, u = t + 1, NEW new, new = Recent(times, u)
  PROVE  Window(new, r, max, u)
<1>1. times \in Seq(Nat) /\ Len(times) \in Nat /\ Period \in Nat /\ r.time \in Nat /\ r.count \in Nat /\ r \in Rates /\ r.time <= u
      /\ u \in Nat
  BY QuAssumption DEF Window, Rates
<1>2. /\ \A i, j \in 1 .. Len(times) : i <= j => times[i] <= times[j]
      /\ \A i \in 1 .. Len(times) : times[i] \in Nat /\ times[i] <= t /\ times[i] <= r.time + Period
  BY <1>1 DEF Window
<1>3. PICK d \in 0 .. Len(times) :
           /\ new \in Seq(Nat) /\ Len(new) = Len(times) - d
           /\ \A i \in 1 .. Len(times) - d : new[i] = times[i + d] /\ ~(u - times[i + d] > Period)
  <2>1. \E d \in 0 .. Len(times) :
           /\ Recent(times, u) \in Seq(Nat) /\ Len(Recent(times, u)) = Len(times) - d
           /\ \A i \in 1 .. d : u - times[i] > Period
           /\ \A i \in 1 .. Len(times) - d : Recent(times, u)[i] = times[i + d] /\ ~(u - times[i + d] > Period)
    <3>1. \A i, j \in 1 .. Len(times) : i <= j => times[i] <= times[j]
      BY <1>2
    <3>2. times \in Seq(Nat) /\ u \in Nat
      BY <1>1
    <3>3. QED
      BY <3>1, <3>2, RecentIs, Zenon
  <2>2. QED
    BY <2>1
<1>4. PICK k \in Nat : Split(times, r, max, k)
  BY DEF Window
<1>5. k \in 0 .. Len(times)
  BY <1>4 DEF Split
<1> DEFINE m == IF k <= d THEN 0 ELSE k - d
<1>6. m \in Nat /\ m \in 0 .. Len(new)
  BY <1>1, <1>3, <1>5
<1>7. ASSUME NEW i \in 1 .. Len(new) PROVE i + d \in 1 .. Len(times) /\ new[i] = times[i + d]
  <2>1. i \in 1 .. Len(times) - d
    BY <1>3
  <2>2. QED
    BY <1>1, <1>3, <2>1
<1>8. Split(new, r, max, m)
  <2>1. m <= max /\ Len(new) - m <= max /\ Len(new) - m <= r.count
    BY <1>1, <1>3, <1>4, <1>5 DEF Split
  <2>2. ASSUME NEW i \in 1 .. m PROVE new[i] < r.time
    <3>1. i \in 1 .. Len(new) /\ i + d \in 1 .. k
      BY <1>1, <1>3, <1>5, <1>6
    <3>2. QED
      BY <1>4, <1>7, <3>1 DEF Split
  <2>3. ASSUME NEW i \in m + 1 .. Len(new) PROVE r.time <= new[i]
    <3>1. i \in 1 .. Len(new) /\ i + d \in k + 1 .. Len(times)
      BY <1>1, <1>3, <1>5, <1>6
    <3>2. QED
      BY <1>4, <1>7, <3>1 DEF Split
  <2>4. QED
    BY <1>6, <2>1, <2>2, <2>3 DEF Split
<1>9. ASSUME NEW i \in 1 .. Len(new) PROVE new[i] <= u /\ u - new[i] <= Period /\ new[i] <= r.time + Period
  <2>1. i \in 1 .. Len(times) - d /\ i + d \in 1 .. Len(times)
    BY <1>3, <1>7
  <2>2. new[i] = times[i + d] /\ ~(u - new[i] > Period)
    BY <1>3, <2>1
  <2>3. times[i + d] \in Nat /\ times[i + d] <= t /\ times[i + d] <= r.time + Period
    BY <1>2, <2>1
  <2>4. new[i] \in Nat /\ new[i] <= t /\ new[i] <= r.time + Period
    BY <2>2, <2>3
  <2>5. QED
    BY <1>1, <2>2, <2>4
<1>10. ASSUME NEW i \in 1 .. Len(new), NEW j \in 1 .. Len(new), i <= j PROVE new[i] <= new[j]
  <2>1. i + d <= j + d
    BY <1>1, <1>3, <1>10
  <2>2. QED
    BY <1>2, <1>7, <2>1
<1> HIDE DEF m
<1>11. \E q \in Nat : Split(new, r, max, q)
  BY <1>6, <1>8
<1>12. QED
  BY <1>1, <1>3, <1>9, <1>10, <1>11 DEF Window

(* How far UnBlackhole has counted down at each entry. *)
LEMMA WalkIs ==
  ASSUME NEW len \in Nat, NEW index \in Nat
  PROVE  \A n \in 0 .. len : Walk(len, index)[n] = IF n <= index THEN index - n ELSE 0
<1> DEFINE Follows(f) == f = [n \in 0 .. len |-> IF n = 0 THEN index ELSE IF f[n-1] <= 0 THEN f[n-1] ELSE f[n-1] - 1]
           w == [n \in 0 .. len |-> IF n <= index THEN index - n ELSE 0]
           f == Walk(len, index)
<1>1. Follows(w)
  <2>1. ASSUME NEW n \in 0 .. len, n # 0 PROVE w[n] = IF w[n-1] <= 0 THEN w[n-1] ELSE w[n-1] - 1
    <3>1. n - 1 \in 0 .. len
      BY <2>1
    <3>2. w[n] = (IF n <= index THEN index - n ELSE 0) /\ w[n-1] = IF n - 1 <= index THEN index - (n - 1) ELSE 0
      BY <3>1
    <3>3. QED
      BY <2>1, <3>2
  <2>2. w[0] = index
    OBVIOUS
  <2>3. w = [n \in 0 .. len |-> w[n]]
    OBVIOUS
  <2> HIDE DEF w
  <2>4. [n \in 0 .. len |-> w[n]] = [n \in 0 .. len |-> IF n = 0 THEN index ELSE IF w[n-1] <= 0 THEN w[n-1] ELSE w[n-1] - 1]
    BY <2>1, <2>2
  <2>5. QED
    BY <2>3, <2>4
<1>2. f = CHOOSE g : Follows(g)
  BY DEF Walk
<1>3. Follows(f)
  <2> HIDE DEF Follows
  <2>1. QED
    BY <1>1, <1>2
<1>4. f[0] = index /\ \A n \in 1 .. len : f[n] = IF f[n-1] <= 0 THEN f[n-1] ELSE f[n-1] - 1
  <2> HIDE DEF f
  <2>1. \A n \in 0 .. len : f[n] = IF n = 0 THEN index ELSE IF f[n-1] <= 0 THEN f[n-1] ELSE f[n-1] - 1
    BY <1>3
  <2>2. QED
    BY <2>1
<1> HIDE DEF f, Follows
<1>5. SUFFICES ASSUME NEW n \in 0 .. len, f[n] # w[n] PROVE FALSE
  BY DEF f
<1> DEFINE S == {m \in 0 .. len : f[m] # w[m]}
<1>6. PICK m \in S : \A y \in S : m <= y
  <2>1. S \subseteq Nat /\ S # {}
    BY <1>5
  <2>2. QED
    BY <2>1, LeastOf
<1>7. m \in 0 .. len /\ f[m] # w[m]
  BY <1>6
<1>8. m # 0
  BY <1>4, <1>7
<1>9. m - 1 \in 0 .. len /\ m \in 1 .. len /\ ~(m <= m - 1)
  BY <1>7, <1>8
<1>10. f[m-1] = w[m-1]
  BY <1>6, <1>9
<1>11. w[m-1] = (IF m - 1 <= index THEN index - (m - 1) ELSE 0) /\ w[m] = IF m <= index THEN index - m ELSE 0
  BY <1>9
<1>12. f[m] = IF w[m-1] <= 0 THEN w[m-1] ELSE w[m-1] - 1
  BY <1>4, <1>9, <1>10
<1> HIDE DEF w, S
<1>13. QED
  BY <1>7, <1>9, <1>11, <1>12

(* It takes off the entry with that number, or nothing. *)
LEMMA UnBlackholeIs ==
  ASSUME NEW S, NEW list \in Seq(S), NEW index \in Nat \ {0}
  PROVE  UnBlackhole(list, index) = IF index <= Len(list) THEN RemoveAt(list, index) ELSE list
<1> DEFINE left == Walk(Len(list), index)
           at == {n \in 1 .. Len(list) : left[n] = 0 /\ left[n-1] # 0}
<1>1. Len(list) \in Nat
  OBVIOUS
<1>2. \A n \in 0 .. Len(list) : left[n] = IF n <= index THEN index - n ELSE 0
  BY <1>1, WalkIs
<1> HIDE DEF left
<1>3. ASSUME NEW n \in 1 .. Len(list) PROVE left[n] = 0 /\ left[n-1] # 0 <=> n = index
  <2>1. n \in 0 .. Len(list) /\ n - 1 \in 0 .. Len(list)
    BY <1>1
  <2>2. left[n] = (IF n <= index THEN index - n ELSE 0) /\ left[n-1] = (IF n - 1 <= index THEN index - (n - 1) ELSE 0)
    BY <1>2, <2>1
  <2>3. n \in Int /\ index \in Int
    OBVIOUS
  <2>4. QED
    BY <2>2, <2>3
<1>4. UnBlackhole(list, index) = IF at = {} THEN list ELSE RemoveAt(list, CHOOSE n \in at : TRUE)
  BY DEF UnBlackhole, left
<1>5. CASE index <= Len(list)
  <2>1. at = {index}
    BY <1>1, <1>3, <1>5
  <2>2. (CHOOSE n \in at : TRUE) = index
    BY <2>1
  <2> HIDE DEF at
  <2>3. QED
    BY <1>4, <1>5, <2>1, <2>2
<1>6. CASE ~(index <= Len(list))
  <2>1. at = {}
    BY <1>1, <1>3, <1>6
  <2> HIDE DEF at
  <2>2. QED
    BY <1>4, <1>6, <2>1
<1>7. QED
  BY <1>5, <1>6

(* The first hole that shuts an address out, if there is one. *)
LEMMA FirstIs ==
  ASSUME NEW n \in Nat, NEW hit \in SUBSET (1 .. n), hit # {}
  PROVE  (CHOOSE i \in hit : \A j \in hit : i <= j) \in hit
<1>1. hit \subseteq Nat
  OBVIOUS
<1>2. \E i \in hit : \A j \in hit : i <= j
  BY <1>1, LeastOf
<1>3. QED
  BY <1>2

LEMMA HoleForIs ==
  ASSUME NEW S, holes \in Seq(S), NEW a
  PROVE  HoleFor(a) \in 0 .. Len(holes)
<1> DEFINE hit == {i \in 1 .. Len(holes) : Covers(holes[i], a)}
<1>1. Len(holes) \in Nat /\ hit \in SUBSET (1 .. Len(holes))
  OBVIOUS
<1>2. hit # {} => (CHOOSE i \in hit : \A j \in hit : i <= j) \in hit
  BY <1>1, FirstIs
<1>3. HoleFor(a) = 0 \/ (hit # {} /\ HoleFor(a) = CHOOSE i \in hit : \A j \in hit : i <= j)
  BY DEF HoleFor
<1>4. \A i \in hit : i \in 0 .. Len(holes)
  BY <1>1
<1> HIDE DEF hit
<1>5. HoleFor(a) = 0 \/ HoleFor(a) \in hit
  BY <1>2, <1>3
<1>6. 0 \in 0 .. Len(holes)
  BY <1>1
<1>7. QED
  BY <1>4, <1>5, <1>6

(* What the requests so far have left: each limit's events are those its rate has let through, every *)
(* hole's notices those of its own rate, and no two holes share an id. *)
Hole == [ip : Hosts, bits : 1 .. AdrBits, notice : BOOLEAN, rate : Rates, id : 1 .. MaxHoles]
HolesOK(h, n, t) ==
  /\ h \in Seq(Hole) /\ n = [i \in 1 .. MaxHoles |-> n[i]]
  /\ \A i, j \in 1 .. Len(h) : h[i].id = h[j].id => i = j
  /\ \A i \in 1 .. Len(h) : Window(n[h[i].id], h[i].rate, 1, t)
QuInv ==
  /\ now \in Nat /\ HolesOK(holes, notices, now)
  /\ Window(answers, statusRate, StatusMax - 1, now)
  /\ Window(guesses, rconRate, RconMax, now)

LEMMA QuStarts == QuInit => QuInv
<1> SUFFICES ASSUME QuInit PROVE QuInv
  OBVIOUS
<1>1. NewRate \in Rates /\ NewRate.time <= now /\ now \in Nat
  BY QuAssumption DEF NewRate, Rates, QuInit
<1>2. StatusMax - 1 \in Nat /\ RconMax \in Nat
  BY QuAssumption
<1>3. Window(answers, statusRate, StatusMax - 1, now) /\ Window(guesses, rconRate, RconMax, now)
  BY <1>1, <1>2, Empties DEF QuInit
<1>4. holes \in Seq(Hole) /\ Len(holes) = 0
  BY DEF QuInit
<1>5. notices = [i \in 1 .. MaxHoles |-> notices[i]]
  BY DEF QuInit
<1>6. QED
  BY <1>1, <1>3, <1>4, <1>5 DEF QuInv, HolesOK

LEMMA QuBounds == QuInv => OutsidersAreBounded
<1> SUFFICES ASSUME QuInv PROVE OutsidersAreBounded
  OBVIOUS
<1>1. StatusMax - 1 \in Nat /\ RconMax \in Nat /\ 1 \in Nat /\ now \in Nat
  BY QuAssumption DEF QuInv
<1>2. StatusBounded /\ GuessesBounded
  <2>1. Len(answers) <= 2 * (StatusMax - 1)
    BY <1>1, WindowBounds DEF QuInv
  <2>2. Len(guesses) <= 2 * RconMax
    BY <1>1, WindowBounds DEF QuInv
  <2>3. QED
    BY <2>1, <2>2 DEF StatusBounded, GuessesBounded
<1>3. NoticesBounded
  <2>1. SUFFICES ASSUME NEW i \in 1 .. Len(holes) PROVE Len(notices[holes[i].id]) <= 2
    BY DEF NoticesBounded
  <2>2. Window(notices[holes[i].id], holes[i].rate, 1, now)
    BY DEF QuInv, HolesOK
  <2>3. Len(notices[holes[i].id]) <= 2 * 1
    BY <1>1, <2>2, WindowBounds
  <2>4. QED
    BY <2>3
<1>4. IndexDeletesIt
  <2>1. holes \in Seq(Hole)
    BY DEF QuInv, HolesOK
  <2>2. \A x \in 1 .. (MaxHoles + 1) : x \in Nat \ {0}
    BY QuAssumption
  <2>3. QED
    BY <2>1, <2>2, UnBlackholeIs DEF IndexDeletesIt
<1>5. QED
  BY <1>2, <1>3, <1>4 DEF OutsidersAreBounded

(* A notice, or the lack of one, to an address that a hole shuts out. *)
LEMMA Blocks == ASSUME QuInv, NEW a, Blocked(a) PROVE QuInv'
<1>1. now' = now /\ now \in Nat /\ UNCHANGED <<statusRate, rconRate, answers, guesses>>
  BY DEF Blocked, QuInv
<1>2. HolesOK(holes, notices, now)
  BY DEF QuInv
<1> DEFINE h == HoleFor(a)
           r == RateSample(holes[h].rate)
           id == holes[h].id
<1>3. holes \in Seq(Hole) /\ Len(holes) \in Nat /\ notices = [i \in 1 .. MaxHoles |-> notices[i]]
  BY <1>2 DEF HolesOK
<1>4. h \in 1 .. Len(holes)
  <2>1. h \in 0 .. Len(holes)
    BY <1>3, HoleForIs
  <2>2. h # 0
    BY DEF Blocked, ShutOut
  <2>3. QED
    BY <1>3, <2>1, <2>2
<1>5. \/ UNCHANGED <<holes, notices>>
      \/ /\ holes' = [holes EXCEPT ![h] = [@ EXCEPT !.rate = r]]
         /\ notices' = IF RateLimited(r, 2) THEN notices ELSE [notices EXCEPT ![id] = Append(@, now)]
  BY DEF Blocked, ShutOut
<1> HIDE DEF h
<1>6. CASE UNCHANGED <<holes, notices>>
  BY <1>1, <1>2, <1>6 DEF QuInv
<1>7. CASE /\ holes' = [holes EXCEPT ![h] = [@ EXCEPT !.rate = r]]
           /\ notices' = IF RateLimited(r, 2) THEN notices ELSE [notices EXCEPT ![id] = Append(@, now)]
  <2>1. holes[h] \in Hole /\ id \in 1 .. MaxHoles /\ holes[h].rate \in Rates
    <3>1. holes[h] \in Hole
      BY <1>3, <1>4
    <3>2. QED
      BY <3>1 DEF Hole
  <2>2. Window(notices[id], holes[h].rate, 1, now)
    BY <1>2, <1>4 DEF HolesOK
  <2>3. 1 \in Nat /\ 1 < CountCap
    BY QuAssumption
  <2>4. /\ Window(notices[id], r, 1, now)
        /\ r.count <= 1 => Window(Append(notices[id], now), r, 1, now)
    BY <1>1, <2>2, <2>3, EventCounts
  <2>5. r \in Rates /\ r.count \in Nat
    <3>1. r \in Rates
      BY <1>1, <2>1, SampleIs
    <3> HIDE DEF r
    <3>2. QED
      BY <3>1, QuAssumption DEF Rates
  <2>6. ~RateLimited(r, 2) => r.count <= 1
    <3>1. now - r.time <= Period
      <4>1. holes[h].rate.time \in Nat /\ Period \in Nat
        BY <2>1, QuAssumption DEF Rates
      <4>2. CASE now - holes[h].rate.time > Period
        <5>1. r.time = now
          BY <1>1, <2>1, <4>2, SampleIs
        <5>2. QED
          BY <1>1, <4>1, <5>1
      <4>3. CASE now - holes[h].rate.time <= Period
        <5>1. r.time = holes[h].rate.time
          BY <1>1, <2>1, <4>3, SampleIs
        <5>2. QED
          BY <4>3, <5>1
      <4>4. QED
        BY <1>1, <4>1, <4>2, <4>3
    <3>2. QED
      BY <2>5, <3>1 DEF RateLimited
  <2>7. id = holes[h].id /\ r = RateSample(holes[h].rate)
    OBVIOUS
  <2> HIDE DEF r, id
  <2> DEFINE new == [holes[h] EXCEPT !.rate = r]
  <2>8. new \in Hole /\ new.id = id /\ new.rate = r
    BY <2>1, <2>5, <2>7 DEF Hole
  <2>9. holes' = [holes EXCEPT ![h] = new]
    BY <1>7
  <2> HIDE DEF new
  <2>10. /\ holes' \in Seq(Hole) /\ Len(holes') = Len(holes)
         /\ \A i \in 1 .. Len(holes) : holes'[i] = IF i = h THEN new ELSE holes[i]
    BY <1>3, <1>4, <2>8, <2>9
  <2>11. \A i \in 1 .. Len(holes) : holes'[i].id = holes[i].id
    BY <2>7, <2>8, <2>10
  <2>12. /\ notices' = [i \in 1 .. MaxHoles |-> notices'[i]]
         /\ \A i \in 1 .. MaxHoles : i # id => notices'[i] = notices[i]
         /\ Window(notices'[id], r, 1, now)
    <3>1. CASE RateLimited(r, 2)
      BY <1>3, <1>7, <2>4, <3>1
    <3>2. CASE ~RateLimited(r, 2)
      <4>1. notices' = [notices EXCEPT ![id] = Append(@, now)]
        BY <1>7, <3>2
      <4>2. notices'[id] = Append(notices[id], now)
        BY <1>3, <2>1, <4>1
      <4>3. Window(notices'[id], r, 1, now)
        BY <2>4, <2>6, <3>2, <4>2
      <4>4. QED
        BY <1>3, <2>1, <4>1, <4>3
    <3>3. QED
      BY <3>1, <3>2
  <2>13. ASSUME NEW i \in 1 .. Len(holes) PROVE Window(notices'[holes'[i].id], holes'[i].rate, 1, now)
    <3>1. CASE i = h
      BY <2>7, <2>8, <2>10, <2>12, <3>1
    <3>2. CASE i # h
      <4>1. holes'[i] = holes[i] /\ holes[i] \in Hole
        BY <1>3, <2>10, <3>2
      <4>2. holes[i].id # id /\ holes[i].id \in 1 .. MaxHoles
        BY <1>2, <1>4, <2>7, <3>2, <4>1 DEF HolesOK, Hole
      <4>3. Window(notices[holes[i].id], holes[i].rate, 1, now)
        BY <1>2 DEF HolesOK
      <4>4. QED
        BY <2>12, <4>1, <4>2, <4>3
    <3>3. QED
      BY <3>1, <3>2
  <2>14. \A i, j \in 1 .. Len(holes) : holes'[i].id = holes'[j].id => i = j
    BY <1>2, <2>11 DEF HolesOK
  <2>15. HolesOK(holes', notices', now)
    BY <2>10, <2>12, <2>13, <2>14 DEF HolesOK
  <2>16. QED
    BY <1>1, <2>15 DEF QuInv
<1>8. QED
  BY <1>5, <1>6, <1>7

(* Status replies and wrong passwords. *)
LEMMA Requests ==
  ASSUME QuInv, NEW a, NEW right \in BOOLEAN, Status(a) \/ Gamespy(a) \/ Rcon(a, right)
  PROVE  QuInv'
<1>1. now' = now /\ now \in Nat /\ UNCHANGED <<holes, notices>> /\ HolesOK(holes', notices', now')
  BY DEF Status, Gamespy, Rcon, QuInv
<1>2. Window(answers, statusRate, StatusMax - 1, now) /\ Window(guesses, rconRate, RconMax, now)
  BY DEF QuInv
<1>3. /\ StatusMax - 1 \in Nat /\ RconMax \in Nat /\ StatusMax - 1 < CountCap /\ RconMax < CountCap /\ RconMax >= 1 /\ Period \in Nat
      /\ StatusMax \in Nat /\ CountCap \in Nat
  BY QuAssumption
<1>4. statusRate \in Rates /\ rconRate \in Rates /\ rconRate.time \in Nat /\ statusRate.time \in Nat /\ rconRate.count \in 0 .. CountCap
  BY <1>2 DEF Window, Rates
<1>5. CASE Status(a) \/ Gamespy(a)
  <2> DEFINE s == RateSample(statusRate)
  <2>1. statusRate' = s /\ (answers' = answers \/ (~RateLimited(s, StatusMax) /\ answers' = Append(answers, now)))
        /\ UNCHANGED <<rconRate, guesses>>
    BY <1>5 DEF Status, Gamespy
  <2>2. Window(answers, s, StatusMax - 1, now) /\ (s.count <= StatusMax - 1 => Window(Append(answers, now), s, StatusMax - 1, now))
    BY <1>1, <1>2, <1>3, EventCounts
  <2>3. s.count \in Nat /\ now - s.time <= Period
    <3>1. s \in Rates
      BY <1>1, <1>4, SampleIs
    <3>2. CASE now - statusRate.time > Period
      <4>1. s.time = now
        BY <1>1, <1>4, <3>2, SampleIs
      <4>2. QED
        BY <1>1, <1>3, <3>1, <4>1 DEF Rates
    <3>3. CASE now - statusRate.time <= Period
      <4>1. s.time = statusRate.time
        BY <1>1, <1>4, <3>3, SampleIs
      <4>2. QED
        BY <1>3, <3>1, <3>3, <4>1 DEF Rates
    <3>4. QED
      BY <1>1, <1>3, <1>4, <3>2, <3>3
  <2> HIDE DEF s
  <2>4. ~RateLimited(s, StatusMax) => s.count <= StatusMax - 1
    BY <1>3, <2>3 DEF RateLimited
  <2>5. Window(answers', s, StatusMax - 1, now)
    BY <2>1, <2>2, <2>4
  <2>6. QED
    BY <1>1, <1>2, <2>1, <2>5 DEF QuInv
<1>6. CASE Rcon(a, right)
  <2> DEFINE r == RateStart(rconRate)
             s == RateSample(r)
  <2>1. UNCHANGED <<statusRate, answers>>
    BY <1>6 DEF Rcon
  <2>2. CASE RateLimited(rconRate, RconMax)
    BY <1>1, <1>2, <1>6, <2>1, <2>2 DEF Rcon, QuInv
  <2>3. CASE ~RateLimited(rconRate, RconMax)
    <3>1. \/ rconRate' = r /\ guesses' = guesses
          \/ rconRate' = s /\ guesses' = Append(guesses, now)
      BY <1>6, <2>3 DEF Rcon
    <3>2. Window(guesses, r, RconMax, now)
      BY <1>1, <1>2, <1>3, EventCounts
    <3>3. s.count <= RconMax => Window(Append(guesses, now), s, RconMax, now)
      BY <1>1, <1>3, <3>2, EventCounts
    <3>4. r \in Rates /\ r.count \in Nat /\ r.count <= RconMax - 1 /\ now - r.time <= Period
      <4>1. r \in Rates
        BY <1>1, <1>4, SampleIs
      <4>2. CASE now - rconRate.time > Period
        <5>1. r.time = now /\ r.count = 0
          BY <1>1, <1>4, <4>2, SampleIs
        <5>2. QED
          BY <1>1, <1>3, <4>1, <5>1
      <4>3. CASE now - rconRate.time <= Period
        <5>1. r = rconRate
          BY <1>1, <1>4, <4>3, SampleIs
        <5>2. ~(rconRate.count >= RconMax)
          BY <2>3, <4>3 DEF RateLimited
        <5>3. QED
          BY <1>3, <1>4, <4>1, <4>3, <5>1, <5>2
      <4>4. QED
        BY <1>1, <1>3, <1>4, <4>2, <4>3
    <3> HIDE DEF r
    <3>5. s.count = r.count + 1
      <4>1. s.count = (IF r.count < CountCap THEN r.count + 1 ELSE r.count)
        BY <1>1, <3>4, SampleIs
      <4>2. QED
        BY <1>3, <3>4, <4>1
    <3>6. s.count <= RconMax
      BY <1>3, <3>4, <3>5
    <3> HIDE DEF s
    <3>7. Window(guesses', rconRate', RconMax, now)
      BY <3>1, <3>2, <3>3, <3>6
    <3>8. QED
      BY <1>1, <1>2, <2>1, <3>7 DEF QuInv
  <2>4. QED
    BY <2>2, <2>3
<1>7. QED
  BY <1>5, <1>6

(* A hole that is deleted leaves the others as they were. *)
LEMMA HoleGoes ==
  ASSUME NEW h, NEW n, NEW t, HolesOK(h, n, t), NEW x \in 1 .. Len(h), NEW new, new = RemoveAt(h, x)
  PROVE  HolesOK(new, n, t)
<1>1. h \in Seq(Hole) /\ Len(h) \in Nat /\ x \in Nat
  BY DEF HolesOK
<1>2. new \in Seq(Hole) /\ Len(new) = Len(h) - 1 /\ \A i \in 1 .. Len(new) : new[i] = h[IF i < x THEN i ELSE i + 1]
  BY <1>1, RemovedIs
<1> DEFINE At(i) == IF i < x THEN i ELSE i + 1
<1>3. ASSUME NEW i \in 1 .. Len(new) PROVE At(i) \in 1 .. Len(h) /\ new[i] = h[At(i)]
  <2>1. i \in 1 .. Len(h) - 1
    BY <1>2
  <2>2. QED
    BY <1>1, <1>2, <2>1
<1>4. ASSUME NEW i \in 1 .. Len(new), NEW j \in 1 .. Len(new), At(i) = At(j) PROVE i = j
  BY <1>1, <1>4
<1> HIDE DEF At
<1>5. \A i, j \in 1 .. Len(new) : new[i].id = new[j].id => i = j
  BY <1>3, <1>4 DEF HolesOK
<1>6. \A i \in 1 .. Len(new) : Window(n[new[i].id], new[i].rate, 1, t)
  BY <1>3 DEF HolesOK
<1>7. QED
  BY <1>2, <1>5, <1>6 DEF HolesOK

LEMMA HoleGoesByNumber ==
  ASSUME NEW h, NEW n, NEW t, HolesOK(h, n, t), NEW x \in Nat \ {0}, NEW new, new = UnBlackhole(h, x)
  PROVE  HolesOK(new, n, t)
<1>1. h \in Seq(Hole) /\ Len(h) \in Nat
  BY DEF HolesOK
<1>2. new = IF x <= Len(h) THEN RemoveAt(h, x) ELSE h
  BY <1>1, UnBlackholeIs
<1>3. CASE x <= Len(h)
  <2>1. x \in 1 .. Len(h) /\ new = RemoveAt(h, x)
    BY <1>1, <1>2, <1>3
  <2>2. QED
    BY <2>1, HoleGoes
<1>4. QED
  BY <1>2, <1>3

LEMMA NoHoles == ASSUME NEW h, NEW n, NEW t, HolesOK(h, n, t) PROVE HolesOK(<<>>, n, t)
<1>1. <<>> \in Seq(Hole) /\ Len(<<>>) = 0 /\ 1 .. 0 = {}
  OBVIOUS
<1>2. QED
  BY <1>1 DEF HolesOK

LEMMA HolesGo == ASSUME QuInv, DelHole PROVE QuInv'
<1>1. HolesOK(holes, notices, now) /\ holes \in Seq(Hole) /\ Len(holes) \in Nat
  BY DEF QuInv, HolesOK
<1>2. UNCHANGED <<now, statusRate, rconRate, answers, guesses, notices>>
  BY DEF DelHole
<1>3. CASE \E x \in 1 .. MaxHoles : holes' = UnBlackhole(holes, x)
  <2>1. PICK x \in 1 .. MaxHoles : holes' = UnBlackhole(holes, x)
    BY <1>3
  <2>2. x \in Nat \ {0}
    BY QuAssumption
  <2>3. HolesOK(holes', notices, now)
    BY <1>1, <2>1, <2>2, HoleGoesByNumber
  <2>4. QED
    BY <1>2, <2>3 DEF QuInv
<1>4. CASE \E a \in Hosts : LET hit == {i \in 1 .. Len(holes) : holes[i].ip = a}
                            IN hit # {} /\ holes' = UnBlackhole(holes, CHOOSE i \in hit : \A j \in hit : i <= j)
  <2>1. PICK hit \in SUBSET (1 .. Len(holes)) : hit # {} /\ holes' = UnBlackhole(holes, CHOOSE i \in hit : \A j \in hit : i <= j)
    BY <1>4
  <2> DEFINE x == CHOOSE i \in hit : \A j \in hit : i <= j
  <2>2. x \in hit
    BY <1>1, <2>1, FirstIs
  <2>3. holes' = UnBlackhole(holes, x)
    BY <2>1
  <2> HIDE DEF x
  <2>4. x \in Nat \ {0}
    BY <1>1, <2>1, <2>2
  <2>5. HolesOK(holes', notices, now)
    BY <1>1, <2>3, <2>4, HoleGoesByNumber
  <2>6. QED
    BY <1>2, <2>5 DEF QuInv
<1>5. CASE holes' = <<>>
  <2>1. HolesOK(holes', notices, now)
    BY <1>1, <1>5, NoHoles
  <2>2. QED
    BY <1>2, <2>1 DEF QuInv
<1>6. QED
  BY <1>3, <1>4, <1>5 DEF DelHole

(* There is an id for another hole. *)
LEMMA IdIsFree ==
  ASSUME holes \in Seq(Hole), Len(holes) < MaxHoles
  PROVE  \E n \in 1 .. MaxHoles : \A i \in 1 .. Len(holes) : holes[i].id # n
<1> DEFINE D == 1 .. Len(holes)
           used == {holes[i].id : i \in D}
<1>1. Len(holes) \in Nat /\ MaxHoles \in Nat
  BY QuAssumption
<1>2. IsFiniteSet(D) /\ Cardinality(D) = Len(holes) /\ IsFiniteSet(1 .. MaxHoles) /\ Cardinality(1 .. MaxHoles) = MaxHoles
  BY <1>1, CountUpTo
<1>3. IsFiniteSet(used) /\ Cardinality(used) <= Cardinality(D)
  <2> DEFINE f == [i \in D |-> holes[i].id]
  <2>1. f \in Surjection(D, used)
    BY DEF Surjection
  <2>2. QED
    BY <1>2, <2>1, FS_Surjection
<1>4. SUFFICES ASSUME 1 .. MaxHoles \subseteq used PROVE FALSE
  OBVIOUS
<1>5. Cardinality(1 .. MaxHoles) <= Cardinality(used)
  BY <1>3, <1>4, FS_Subset
<1>6. Cardinality(used) \in Nat
  BY <1>3, FS_CardinalityType
<1> HIDE DEF used, D
<1>7. QED
  BY <1>1, <1>2, <1>3, <1>5, <1>6

LEMMA HoleComes ==
  ASSUME QuInv, NEW a \in Hosts, NEW bits \in 1 .. AdrBits, NEW notice \in BOOLEAN, Blackhole(a, bits, notice)
  PROVE  QuInv'
<1> DEFINE id == CHOOSE n \in 1 .. MaxHoles : \A i \in 1 .. Len(holes) : holes[i].id # n
           new == [ip |-> a, bits |-> bits, notice |-> notice, rate |-> NewRate, id |-> id]
<1>1. HolesOK(holes, notices, now) /\ holes \in Seq(Hole) /\ Len(holes) \in Nat /\ now \in Nat
      /\ notices = [i \in 1 .. MaxHoles |-> notices[i]]
  BY DEF QuInv, HolesOK
<1>2. UNCHANGED <<now, statusRate, rconRate, answers, guesses>> /\ Len(holes) < MaxHoles
      /\ holes' = Append(holes, new) /\ notices' = [notices EXCEPT ![id] = <<>>]
  BY DEF Blackhole
<1>3. id \in 1 .. MaxHoles /\ \A i \in 1 .. Len(holes) : holes[i].id # id
  BY <1>1, <1>2, IdIsFree
<1> HIDE DEF id
<1>4. NewRate \in Rates /\ NewRate.time <= now
  BY <1>1, QuAssumption DEF NewRate, Rates
<1>5. new \in Hole /\ new.id = id /\ new.rate = NewRate
  BY <1>3, <1>4 DEF Hole
<1> HIDE DEF new
<1>6. holes' \in Seq(Hole) /\ Len(holes') = Len(holes) + 1 /\ holes'[Len(holes) + 1] = new
      /\ \A i \in 1 .. Len(holes) : holes'[i] = holes[i]
  BY <1>1, <1>2, <1>5
<1>7. notices' = [i \in 1 .. MaxHoles |-> notices'[i]] /\ notices'[id] = <<>>
      /\ \A i \in 1 .. MaxHoles : i # id => notices'[i] = notices[i]
  BY <1>1, <1>2, <1>3
<1>8. ASSUME NEW i \in 1 .. Len(holes') PROVE i = Len(holes) + 1 \/ i \in 1 .. Len(holes)
  <2>1. i \in 1 .. Len(holes) + 1
    BY <1>6
  <2>2. QED
    BY <1>1, <2>1
<1>9. ASSUME NEW i \in 1 .. Len(holes') PROVE Window(notices'[holes'[i].id], holes'[i].rate, 1, now)
  <2>1. CASE i = Len(holes) + 1
    <3>1. 1 \in Nat
      OBVIOUS
    <3>2. Window(<<>>, NewRate, 1, now)
      BY <1>1, <1>4, <3>1, Empties
    <3>3. QED
      BY <1>5, <1>6, <1>7, <2>1, <3>2
  <2>2. CASE i \in 1 .. Len(holes)
    <3>1. holes'[i] = holes[i] /\ holes[i] \in Hole
      BY <1>1, <1>6, <2>2
    <3>2. holes[i].id \in 1 .. MaxHoles /\ holes[i].id # id
      BY <1>3, <2>2, <3>1 DEF Hole
    <3>3. Window(notices[holes[i].id], holes[i].rate, 1, now)
      BY <1>1, <2>2 DEF HolesOK
    <3>4. QED
      BY <1>7, <3>1, <3>2, <3>3
  <2>3. QED
    BY <1>8, <2>1, <2>2
<1>10. ASSUME NEW i \in 1 .. Len(holes'), NEW j \in 1 .. Len(holes'), holes'[i].id = holes'[j].id PROVE i = j
  <2>1. \A k \in 1 .. Len(holes) : holes'[k].id # id
    BY <1>3, <1>6
  <2>2. holes'[Len(holes) + 1].id = id
    BY <1>5, <1>6
  <2>3. CASE i \in 1 .. Len(holes) /\ j \in 1 .. Len(holes)
    BY <1>1, <1>6, <1>10, <2>3 DEF HolesOK
  <2>4. QED
    BY <1>8, <1>10, <2>1, <2>2, <2>3
<1>11. HolesOK(holes', notices', now)
  BY <1>6, <1>7, <1>9, <1>10 DEF HolesOK
<1>12. QED
  BY <1>2, <1>11 DEF QuInv

LEMMA Ticks == ASSUME QuInv, Tick PROVE QuInv'
<1>1. /\ now' = now + 1 /\ answers' = Recent(answers, now + 1) /\ guesses' = Recent(guesses, now + 1)
      /\ notices' = [n \in 1 .. MaxHoles |-> Recent(notices[n], now + 1)] /\ UNCHANGED <<holes, statusRate, rconRate>>
  BY DEF Tick
<1>2. now \in Nat /\ now' \in Nat /\ HolesOK(holes, notices, now) /\ StatusMax - 1 \in Nat /\ RconMax \in Nat /\ 1 \in Nat
  BY <1>1, QuAssumption DEF QuInv
<1>3. Window(answers', statusRate, StatusMax - 1, now')
  BY <1>1, <1>2, WindowMoves DEF QuInv
<1>4. Window(guesses', rconRate, RconMax, now')
  BY <1>1, <1>2, WindowMoves DEF QuInv
<1>5. ASSUME NEW i \in 1 .. Len(holes) PROVE Window(notices'[holes[i].id], holes[i].rate, 1, now')
  <2>1. Window(notices[holes[i].id], holes[i].rate, 1, now)
    BY <1>2 DEF HolesOK
  <2>2. holes[i].id \in 1 .. MaxHoles
    <3>1. holes[i] \in Hole
      BY <1>2 DEF HolesOK
    <3>2. QED
      BY <3>1 DEF Hole
  <2>3. notices'[holes[i].id] = Recent(notices[holes[i].id], now')
    BY <1>1, <2>2
  <2>4. QED
    BY <1>1, <1>2, <2>1, <2>3, WindowMoves
<1>6. HolesOK(holes, notices', now')
  BY <1>1, <1>2, <1>5 DEF HolesOK
<1>7. QED
  BY <1>1, <1>2, <1>3, <1>4, <1>6 DEF QuInv

LEMMA QuStep == QuInv /\ [QuNext]_quVars => QuInv'
<1> SUFFICES ASSUME QuInv, [QuNext]_quVars PROVE QuInv'
  OBVIOUS
<1>1. ASSUME UNCHANGED <<now, holes, statusRate, rconRate, answers, guesses, notices>> PROVE QuInv'
  BY <1>1 DEF QuInv
<1>2. CASE UNCHANGED quVars
  BY <1>1, <1>2 DEF quVars
<1>3. CASE Tick
  BY <1>3, Ticks
<1>4. CASE DelHole
  BY <1>4, HolesGo
<1>5. ASSUME NEW a \in Hosts, Blocked(a) PROVE QuInv'
  BY <1>5, Blocks
<1>6. ASSUME NEW a \in Hosts, NEW right \in BOOLEAN, Status(a) \/ Gamespy(a) \/ Rcon(a, right) PROVE QuInv'
  BY <1>6, Requests
<1>7. ASSUME NEW a \in Hosts, NEW bits \in 1 .. AdrBits, EditExempt(a, bits) PROVE QuInv'
  BY <1>1, <1>7 DEF EditExempt
<1>8. ASSUME NEW a \in Hosts, NEW bits \in 1 .. AdrBits, NEW n \in BOOLEAN, Blackhole(a, bits, n) PROVE QuInv'
  BY <1>8, HoleComes
<1>9. ASSUME NEW l \in MasterLists, SetMaster(l) PROVE QuInv'
  BY <1>1, <1>9 DEF SetMaster
<1>10. TRUE \in BOOLEAN
  OBVIOUS
<1>11. QED
  BY <1>2, <1>3, <1>4, <1>5, <1>6, <1>7, <1>8, <1>9, <1>10 DEF QuNext

(* Whatever those outside send, and whatever the administrator does to the lists meanwhile: no stretch of  *)
(* time as long as a sampling period sees more than twice what the limit allows in one, of status replies, *)
(* wrong rcon passwords, or notices of one hole; and an entry is deleted by its number (sv_main.c 533-590, *)
(* sv_ccmds.c).                                                                                            *)
THEOREM RequestsAreBounded == QuSpec => []OutsidersAreBounded
<1>1. QED
  BY QuStarts, QuStep, QuBounds, PTL DEF QuSpec

-----------------------------------------------------------------------------
(* CommandBuffer *)

Items == [cmd : Cmds, root : Nat]
Call == [pc : {"end", "begin", "post"}, pending : Seq(Items), aborts : BOOLEAN]
Plain(b) == \A i \in 1 .. Len(b) : b[i].root = 0
(* What is in b is to run after what was run so far, and in the order in which it was added. *)
InTurn(b, h) ==
  /\ b \in Seq(Items)
  /\ \A i \in 1 .. Len(b) : b[i].root # 0 => h.last <= b[i].root /\ b[i].root <= h.added
  /\ \A i, j \in 1 .. Len(b) : i < j /\ b[i].root # 0 /\ b[j].root # 0 => b[i].root <= b[j].root
Histories == [added : Nat, last : Nat, lost : SUBSET Nat]
History(h) == h \in Histories /\ h.last <= h.added
(* The map commands under way: what was queued is with the outermost, the others hold text of hooks. *)
Nested(c, b, h) ==
  /\ c \in Seq(Call)
  /\ c # <<>> => Plain(b) /\ InTurn(c[1].pending, h)
  /\ \A i \in 2 .. Len(c) : Plain(c[i].pending)
Known(n, b, c, h) == n <= h.last \/ n \in Roots(b) \cup PendingRoots(c) \cup h.lost
Queue(b, c, h) == History(h) /\ InTurn(b, h) /\ Nested(c, b, h) /\ \A n \in 1 .. h.added : Known(n, b, c, h)

LEMMA TextIs ==
  ASSUME NEW cs \in Seq(Cmds), NEW r \in Nat, NEW t, t = Text(cs, r)
  PROVE  /\ t \in Seq(Items) /\ Len(t) = Len(cs) /\ \A i \in 1 .. Len(t) : t[i].root = r
         /\ r = 0 => Plain(t)
         /\ t = <<>> => cs = <<>>
<1>1. t = [i \in 1 .. Len(cs) |-> Item(cs[i], r)] /\ Len(cs) \in Nat
  BY DEF Text
<1>2. \A i \in 1 .. Len(cs) : Item(cs[i], r) \in Items /\ Item(cs[i], r).root = r
  BY DEF Item, Items
<1>3. t \in Seq(Items) /\ Len(t) = Len(cs)
  BY <1>1, <1>2
<1>4. \A i \in 1 .. Len(t) : t[i].root = r
  BY <1>1, <1>2, <1>3
<1>5. QED
  BY <1>3, <1>4 DEF Plain

(* The roots of a text. *)
LEMMA RootsAre ==
  ASSUME NEW x \in Seq(Items), NEW y \in Seq(Items)
  PROVE  /\ Roots(x \o y) = Roots(x) \cup Roots(y)
         /\ Roots(x) \subseteq Nat
         /\ Plain(x) => Roots(x) = {}
         /\ x # <<>> => Roots(x) = Roots(Tail(x)) \cup ({Head(x).root} \ {0})
         /\ \A i \in 1 .. Len(x) : x[i].root # 0 => x[i].root \in Roots(x)
<1>1. DOMAIN x = 1 .. Len(x) /\ DOMAIN y = 1 .. Len(y) /\ Len(x) \in Nat /\ Len(y) \in Nat
  OBVIOUS
<1>2. DOMAIN (x \o y) = 1 .. Len(x) + Len(y)
      /\ \A i \in 1 .. Len(x) + Len(y) : (x \o y)[i] = IF i <= Len(x) THEN x[i] ELSE y[i - Len(x)]
  BY <1>1
<1>3. ASSUME NEW n PROVE n \in Roots(x \o y) <=> n \in Roots(x) \/ n \in Roots(y)
  <2>1. ASSUME n \in Roots(x \o y) PROVE n \in Roots(x) \/ n \in Roots(y)
    <3>1. PICK i \in 1 .. Len(x) + Len(y) : n = (x \o y)[i].root /\ n # 0
      BY <1>2, <2>1 DEF Roots
    <3>2. CASE i <= Len(x)
      <4>1. i \in 1 .. Len(x)
        BY <1>1, <3>2
      <4>2. QED
        BY <1>1, <1>2, <3>1, <3>2, <4>1 DEF Roots
    <3>3. CASE ~(i <= Len(x))
      <4>1. i - Len(x) \in 1 .. Len(y)
        BY <1>1, <3>3
      <4>2. QED
        BY <1>1, <1>2, <3>1, <3>3, <4>1 DEF Roots
    <3>4. QED
      BY <3>2, <3>3
  <2>2. ASSUME n \in Roots(x) PROVE n \in Roots(x \o y)
    <3>1. PICK i \in 1 .. Len(x) : n = x[i].root /\ n # 0
      BY <1>1, <2>2 DEF Roots
    <3>2. i \in 1 .. Len(x) + Len(y) /\ i <= Len(x)
      BY <1>1
    <3>3. QED
      BY <1>2, <3>1, <3>2 DEF Roots
  <2>3. ASSUME n \in Roots(y) PROVE n \in Roots(x \o y)
    <3>1. PICK i \in 1 .. Len(y) : n = y[i].root /\ n # 0
      BY <1>1, <2>3 DEF Roots
    <3>2. i + Len(x) \in 1 .. Len(x) + Len(y) /\ ~(i + Len(x) <= Len(x)) /\ (i + Len(x)) - Len(x) = i
      BY <1>1
    <3>3. (x \o y)[i + Len(x)] = y[i]
      BY <1>2, <3>2
    <3>4. QED
      BY <1>2, <3>1, <3>2, <3>3 DEF Roots
  <2>4. QED
    BY <2>1, <2>2, <2>3
<1>4. Roots(x) \subseteq Nat
  <2>1. ASSUME NEW i \in 1 .. Len(x) PROVE x[i].root \in Nat
    <3>1. x[i] \in Items
      OBVIOUS
    <3>2. QED
      BY <3>1 DEF Items
  <2>2. QED
    BY <1>1, <2>1 DEF Roots
<1>5. Plain(x) => Roots(x) = {}
  BY <1>1 DEF Roots, Plain
<1>6. ASSUME x # <<>> PROVE Roots(x) = Roots(Tail(x)) \cup ({Head(x).root} \ {0})
  <2>1. Len(x) > 0 /\ Tail(x) \in Seq(Items) /\ Len(Tail(x)) = Len(x) - 1 /\ Head(x) = x[1] /\ DOMAIN Tail(x) = 1 .. Len(x) - 1
        /\ \A i \in 1 .. Len(x) - 1 : Tail(x)[i] = x[i + 1]
    BY <1>1, <1>6
  <2>2. ASSUME NEW n \in Roots(x) PROVE n \in Roots(Tail(x)) \cup ({Head(x).root} \ {0})
    <3>1. PICK i \in 1 .. Len(x) : n = x[i].root /\ n # 0
      BY <1>1 DEF Roots
    <3>2. CASE i = 1
      BY <2>1, <3>1, <3>2
    <3>3. CASE i # 1
      <4>1. i - 1 \in 1 .. Len(x) - 1 /\ (i - 1) + 1 = i
        BY <1>1, <3>3
      <4>2. Tail(x)[i - 1] = x[i]
        BY <2>1, <4>1
      <4>3. QED
        BY <2>1, <3>1, <4>1, <4>2 DEF Roots
    <3>4. QED
      BY <3>2, <3>3
  <2>3. ASSUME NEW n \in Roots(Tail(x)) PROVE n \in Roots(x)
    <3>1. PICK i \in 1 .. Len(x) - 1 : n = Tail(x)[i].root /\ n # 0
      BY <2>1 DEF Roots
    <3>2. i + 1 \in 1 .. Len(x) /\ n = x[i + 1].root
      BY <1>1, <2>1, <3>1
    <3>3. QED
      BY <1>1, <3>1, <3>2 DEF Roots
  <2>4. ASSUME Head(x).root # 0 PROVE Head(x).root \in Roots(x)
    <3>1. 1 \in 1 .. Len(x)
      BY <1>1, <2>1
    <3>2. QED
      BY <1>1, <2>1, <2>4, <3>1 DEF Roots
  <2>5. QED
    BY <2>2, <2>3, <2>4
<1>7. \A i \in 1 .. Len(x) : x[i].root # 0 => x[i].root \in Roots(x)
  BY <1>1 DEF Roots
<1>8. QED
  BY <1>3, <1>4, <1>5, <1>6, <1>7

(* Two texts, one after the other. *)
LEMMA JoinInTurn ==
  ASSUME NEW x, NEW y, NEW h, InTurn(x, h), InTurn(y, h),
         \A i \in 1 .. Len(x), j \in 1 .. Len(y) : x[i].root # 0 /\ y[j].root # 0 => x[i].root <= y[j].root,
         NEW z, z = x \o y
  PROVE  InTurn(z, h) /\ (Plain(x) /\ Plain(y) => Plain(z))
<1>1. x \in Seq(Items) /\ y \in Seq(Items) /\ Len(x) \in Nat /\ Len(y) \in Nat
  BY DEF InTurn
<1>2. z \in Seq(Items) /\ Len(z) = Len(x) + Len(y)
      /\ \A i \in 1 .. Len(z) : z[i] = IF i <= Len(x) THEN x[i] ELSE y[i - Len(x)]
  BY <1>1
<1>3. ASSUME NEW i \in 1 .. Len(z)
      PROVE  \/ i \in 1 .. Len(x) /\ z[i] = x[i]
             \/ i - Len(x) \in 1 .. Len(y) /\ ~(i <= Len(x)) /\ z[i] = y[i - Len(x)]
  <2>1. i \in 1 .. Len(x) + Len(y)
    BY <1>2
  <2>2. (i <= Len(x) => i \in 1 .. Len(x)) /\ (~(i <= Len(x)) => i - Len(x) \in 1 .. Len(y))
    BY <1>1, <2>1
  <2>3. z[i] = IF i <= Len(x) THEN x[i] ELSE y[i - Len(x)]
    BY <1>2
  <2>4. CASE i <= Len(x)
    BY <2>2, <2>3, <2>4
  <2>5. CASE ~(i <= Len(x))
    BY <2>2, <2>3, <2>5
  <2>6. QED
    BY <2>4, <2>5
<1>4. ASSUME NEW i \in 1 .. Len(z), z[i].root # 0 PROVE h.last <= z[i].root /\ z[i].root <= h.added
  BY <1>3, <1>4 DEF InTurn
<1>5. ASSUME NEW i \in 1 .. Len(z), NEW j \in 1 .. Len(z), i < j, z[i].root # 0, z[j].root # 0 PROVE z[i].root <= z[j].root
  <2>1. i \in Nat /\ j \in Nat
    BY <1>1, <1>2
  <2>2. CASE i \in 1 .. Len(x) /\ z[i] = x[i]
    <3>1. CASE j \in 1 .. Len(x) /\ z[j] = x[j]
      BY <1>5, <2>2, <3>1 DEF InTurn
    <3>2. CASE j - Len(x) \in 1 .. Len(y) /\ z[j] = y[j - Len(x)]
      BY <1>5, <2>2, <3>2
    <3>3. QED
      BY <1>3, <3>1, <3>2
  <2>3. CASE i - Len(x) \in 1 .. Len(y) /\ ~(i <= Len(x)) /\ z[i] = y[i - Len(x)]
    <3>1. ~(j <= Len(x)) /\ i - Len(x) < j - Len(x)
      BY <1>1, <1>5, <2>1, <2>3
    <3>2. j - Len(x) \in 1 .. Len(y) /\ z[j] = y[j - Len(x)]
      BY <1>1, <1>3, <3>1
    <3>3. QED
      BY <1>5, <2>3, <3>1, <3>2 DEF InTurn
  <2>4. QED
    BY <1>3, <2>2, <2>3
<1>6. InTurn(z, h)
  BY <1>2, <1>4, <1>5 DEF InTurn
<1>7. Plain(x) /\ Plain(y) => Plain(z)
  BY <1>3 DEF Plain
<1>8. QED
  BY <1>6, <1>7

LEMMA PlainInTurn == ASSUME NEW x \in Seq(Items), NEW h, Plain(x) PROVE InTurn(x, h)
BY DEF Plain, InTurn

(* What AddText leaves. *)
LEMMA AddTextIs ==
  ASSUME NEW b \in Seq(Items), NEW t \in Seq(Items), NEW new, new = AddText(b, t)
  PROVE  /\ new = b \/ new = b \o t
         /\ new \in Seq(Items) /\ (Len(b) <= MaxSize => Len(new) <= MaxSize)
BY BufferSizes DEF AddText

LEMMA FirstTextIs ==
  ASSUME NEW t \in Seq(Items), NEW new, new = AddText(<<>>, t)
  PROVE  (new = <<>> \/ new = t) /\ new \in Seq(Items) /\ Len(new) <= MaxSize /\ Len(new) \in Nat
<1>1. <<>> \in Seq(Items) /\ Len(<<>>) = 0 /\ <<>> \o t = t /\ 0 <= MaxSize
  BY BufferSizes
<1>2. (new = <<>> \/ new = <<>> \o t) /\ new \in Seq(Items) /\ Len(new) <= MaxSize
  BY <1>1, AddTextIs
<1>3. QED
  BY <1>1, <1>2

(* The first command of the buffer is taken out and run; first is the text it adds, if any. *)
Took(b, h, g, first, new) ==
  /\ b # <<>> /\ first \in Seq(Items) /\ \A i \in 1 .. Len(first) : first[i].root = Head(b).root
  /\ g \in Histories /\ g.added = h.added /\ h.lost \subseteq g.lost
  /\ g.last = IF Head(b).root = 0 THEN h.last ELSE Head(b).root
  /\ new = first \o Tail(b)
LEMMA Takes ==
  ASSUME NEW b, NEW c, NEW h, NEW g, NEW first, NEW new, Queue(b, c, h), Took(b, h, g, first, new)
  PROVE  Queue(new, c, g) /\ g.last >= h.last /\ (c # <<>> => g.last = h.last)
<1> DEFINE r == Head(b).root
<1>0. /\ b # <<>> /\ first \in Seq(Items) /\ \A i \in 1 .. Len(first) : first[i].root = r
      /\ g \in Histories /\ g.added = h.added /\ h.lost \subseteq g.lost
      /\ g.last = (IF r = 0 THEN h.last ELSE r)
      /\ new = first \o Tail(b)
  BY DEF Took
<1> DEFINE t == Tail(b)
<1>1. b \in Seq(Items) /\ InTurn(b, h) /\ h.last \in Nat /\ h.added \in Nat /\ h.last <= h.added /\ Nested(c, b, h)
  BY DEF Queue, InTurn, History, Histories
<1>2. Len(b) \in Nat \ {0} /\ t \in Seq(Items) /\ Len(t) = Len(b) - 1 /\ \A i \in 1 .. Len(t) : t[i] = b[i + 1]
  BY <1>0, <1>1
<1>3. r = b[1].root /\ 1 \in 1 .. Len(b) /\ r \in Nat
  <2>1. 1 \in 1 .. Len(b) /\ Head(b) = b[1]
    BY <1>1, <1>2
  <2>2. b[1] \in Items
    BY <1>1, <2>1
  <2>3. QED
    BY <2>1, <2>2 DEF Items
<1>4. r # 0 => h.last <= r /\ r <= h.added
  BY <1>1, <1>3 DEF InTurn
<1>5. g.last >= h.last /\ g.last <= g.added /\ g.last \in Nat /\ g.added \in Nat
  BY <1>0, <1>1, <1>3, <1>4
<1>6. History(g)
  BY <1>0, <1>5 DEF History
<1> HIDE DEF t
<1>7. ASSUME NEW i \in 1 .. Len(t)
      PROVE  i + 1 \in 1 .. Len(b) /\ 1 < i + 1 /\ t[i] = b[i + 1] /\ b[i + 1].root \in Nat
  <2>1. i + 1 \in 1 .. Len(b) /\ 1 < i + 1 /\ t[i] = b[i + 1]
    BY <1>2
  <2>2. b[i + 1] \in Items
    BY <1>1, <2>1
  <2>3. QED
    BY <2>1, <2>2 DEF Items
<1>8. ASSUME NEW i \in 1 .. Len(t), t[i].root # 0
      PROVE  h.last <= t[i].root /\ t[i].root <= h.added /\ t[i].root \in Nat /\ (r # 0 => r <= t[i].root)
  BY <1>1, <1>3, <1>7, <1>8 DEF InTurn
<1>9. InTurn(t, g)
  <2>1. \A i \in 1 .. Len(t) : t[i].root # 0 => g.last <= t[i].root /\ t[i].root <= g.added
    BY <1>0, <1>8
  <2>2. ASSUME NEW i \in 1 .. Len(t), NEW j \in 1 .. Len(t), i < j, t[i].root # 0, t[j].root # 0 PROVE t[i].root <= t[j].root
    <3>1. i + 1 < j + 1
      BY <1>2, <2>2
    <3>2. QED
      BY <1>1, <1>7, <2>2, <3>1 DEF InTurn
  <2>3. QED
    BY <1>2, <2>1, <2>2 DEF InTurn
<1>10. InTurn(first, g)
  <2>1. r # 0 => g.last <= r /\ r <= g.added /\ r <= r
    BY <1>0, <1>3, <1>4
  <2>2. QED
    BY <1>0, <2>1 DEF InTurn
<1>11. \A i \in 1 .. Len(first), j \in 1 .. Len(t) : first[i].root # 0 /\ t[j].root # 0 => first[i].root <= t[j].root
  BY <1>0, <1>8
<1>12. new = first \o t
  BY <1>0 DEF t
<1>13. InTurn(new, g) /\ (Plain(first) /\ Plain(t) => Plain(new))
  BY <1>9, <1>10, <1>11, <1>12, JoinInTurn
<1>14. ASSUME c # <<>> PROVE Plain(new) /\ InTurn(c[1].pending, g) /\ g.last = h.last
  <2>1. Plain(b) /\ InTurn(c[1].pending, h)
    BY <1>1, <1>14 DEF Nested
  <2>2. r = 0
    BY <1>3, <2>1 DEF Plain
  <2>3. g.last = h.last /\ Plain(first) /\ Plain(t)
    BY <1>0, <1>7, <2>1, <2>2 DEF Plain
  <2>4. InTurn(c[1].pending, g)
    BY <1>0, <2>1, <2>3 DEF InTurn
  <2>5. QED
    BY <1>13, <2>3, <2>4
<1>15. Nested(c, new, g)
  BY <1>1, <1>14 DEF Nested
<1>16. ASSUME NEW n \in 1 .. g.added PROVE Known(n, new, c, g)
  <2>1. Known(n, b, c, h) /\ n \in Nat
    BY <1>0, <1>1 DEF Queue
  <2>2. Roots(b) = Roots(t) \cup ({r} \ {0}) /\ Roots(new) = Roots(first) \cup Roots(t)
    <3>1. Roots(b) = Roots(Tail(b)) \cup ({Head(b).root} \ {0})
      BY <1>0, <1>1, RootsAre
    <3>2. Roots(first \o t) = Roots(first) \cup Roots(t)
      BY <1>0, <1>2, RootsAre
    <3>3. QED
      BY <1>12, <3>1, <3>2 DEF t
  <2>3. CASE n <= h.last
    BY <1>1, <1>5, <2>1, <2>3 DEF Known
  <2>4. CASE n \in Roots(b)
    <3>1. n \in Roots(t) \/ (n = r /\ r # 0)
      BY <2>2, <2>4
    <3>2. CASE n \in Roots(t)
      BY <2>2, <3>2 DEF Known
    <3>3. CASE n = r /\ r # 0
      <4>1. n <= g.last
        BY <1>0, <1>3, <3>3
      <4>2. QED
        BY <4>1 DEF Known
    <3>4. QED
      BY <3>1, <3>2, <3>3
  <2>5. CASE n \in PendingRoots(c) \cup h.lost
    BY <1>0, <2>5 DEF Known
  <2>6. QED
    BY <2>1, <2>3, <2>4, <2>5 DEF Known
<1>17. QED
  BY <1>5, <1>6, <1>13, <1>14, <1>15, <1>16 DEF Queue

(* A map command starts a drain for a hook: what is queued waits in its call. *)
LEMMA Pushes ==
  ASSUME NEW b, NEW c, NEW h, Queue(b, c, h), NEW k \in Call, k.pending = b,
         NEW new \in Seq(Items), Plain(new), NEW d, d = Append(c, k)
  PROVE  Queue(new, d, h)
<1>1. InTurn(b, h) /\ History(h) /\ Nested(c, b, h) /\ c \in Seq(Call) /\ Len(c) \in Nat
  BY DEF Queue, Nested
<1>2. d \in Seq(Call) /\ Len(d) = Len(c) + 1 /\ d[Len(d)] = k /\ \A i \in 1 .. Len(c) : d[i] = c[i]
  BY <1>1
<1>3. InTurn(new, h)
  BY PlainInTurn
<1>4. InTurn(d[1].pending, h)
  <2>1. CASE c = <<>>
    <3>1. d[1] = k
      BY <1>2, <2>1
    <3>2. QED
      BY <1>1, <3>1
  <2>2. CASE c # <<>>
    <3>1. 1 \in 1 .. Len(c)
      BY <1>1, <2>2
    <3>2. QED
      BY <1>1, <1>2, <2>2, <3>1 DEF Nested
  <2>3. QED
    BY <2>1, <2>2
<1>5. ASSUME NEW i \in 2 .. Len(d) PROVE Plain(d[i].pending)
  <2>1. CASE i = Len(d)
    <3>1. c # <<>>
      BY <1>1, <1>2, <2>1
    <3>2. Plain(b)
      BY <1>1, <3>1 DEF Nested
    <3>3. QED
      BY <1>2, <2>1, <3>2
  <2>2. CASE i # Len(d)
    <3>1. i \in 2 .. Len(c) /\ i \in 1 .. Len(c)
      BY <1>1, <1>2, <2>2
    <3>2. QED
      BY <1>1, <1>2, <3>1 DEF Nested
  <2>3. QED
    BY <2>1, <2>2
<1>6. Nested(d, new, h)
  BY <1>2, <1>4, <1>5 DEF Nested
<1>7. PendingRoots(c) \subseteq PendingRoots(d) /\ Roots(b) \subseteq PendingRoots(d)
  <2>1. DOMAIN c = 1 .. Len(c) /\ DOMAIN d = 1 .. Len(d) /\ Len(d) \in 1 .. Len(d) /\ \A i \in 1 .. Len(c) : i \in 1 .. Len(d)
    BY <1>1, <1>2
  <2>2. QED
    BY <1>2, <2>1 DEF PendingRoots
<1>8. \A n \in 1 .. h.added : Known(n, new, d, h)
  BY <1>7 DEF Queue, Known
<1>9. QED
  BY <1>1, <1>3, <1>6, <1>8 DEF Queue

(* An error leaves every hook, and what waits is lost. *)
LEMMA ErrorForgets ==
  ASSUME NEW b, NEW c, NEW h, Queue(b, c, h), PendingRoots(c) \subseteq h.lost
  PROVE  Queue(b, <<>>, h)
<1>1. Nested(<<>>, b, h)
  <2>1. <<>> \in Seq(Call) /\ 2 .. Len(<<>>) = {}
    OBVIOUS
  <2>2. QED
    BY <2>1 DEF Nested
<1>2. \A n \in 1 .. h.added : Known(n, b, <<>>, h)
  BY DEF Queue, Known
<1>3. QED
  BY <1>1, <1>2 DEF Queue

LEMMA FrontIs ==
  ASSUME NEW S, NEW c \in Seq(S), NEW n \in 1 .. Len(c), n = Len(c), NEW up, up = SubSeq(c, 1, n - 1)
  PROVE  up \in Seq(S) /\ Len(up) = n - 1 /\ \A i \in 1 .. Len(up) : up[i] = c[i]
<1>1. Len(c) \in Nat
  OBVIOUS
<1>2. SubSeq(c, 1, n - 1) \in Seq(S)
  OBVIOUS
<1>3. Len(SubSeq(c, 1, n - 1)) = n - 1
  BY <1>1
<1>4. \A i \in 1 .. n - 1 : SubSeq(c, 1, n - 1)[i] = c[i]
  BY <1>1
<1>5. QED
  BY <1>2, <1>3, <1>4

(* The innermost hook ends: what waited for it goes back in front of what it has left, if it fits. *)
LEMMA Pops ==
  ASSUME NEW b, NEW c, NEW h, Queue(b, c, h), c # <<>>,
         NEW m, m = Len(c), NEW p, p = c[m].pending, NEW first \in {<<>>, p}, NEW new, new = first \o b,
         NEW g \in Histories, g.added = h.added, g.last = h.last,
         h.lost \cup (Roots(p) \ Roots(new)) \subseteq g.lost,
         NEW up, up = SubSeq(c, 1, m - 1)
  PROVE  Queue(new, up, g)
<1>0. Nested(c, b, h) /\ c \in Seq(Call) /\ m \in Nat /\ m >= 1 /\ m \in 1 .. Len(c) /\ Len(c) = m
  <2>1. Nested(c, b, h) /\ c \in Seq(Call)
    BY DEF Queue, Nested
  <2>2. QED
    BY <2>1
<1>1. InTurn(b, h) /\ History(h) /\ Plain(b) /\ InTurn(c[1].pending, h) /\ b \in Seq(Items)
  BY <1>0 DEF Queue, Nested, InTurn
<1>2. up \in Seq(Call) /\ Len(up) = m - 1 /\ \A i \in 1 .. Len(up) : up[i] = c[i]
  BY <1>0, FrontIs
<1>3. m \in 1 .. m /\ c[m] \in Call /\ p \in Seq(Items)
  <2>1. m \in 1 .. m
    BY <1>0
  <2>2. c[m] \in Call
    BY <1>0, <2>1
  <2>3. QED
    BY <2>1, <2>2 DEF Call
<1>4. InTurn(p, g) /\ (m # 1 => Plain(p))
  <2>1. CASE m = 1
    BY <1>1, <2>1 DEF InTurn
  <2>2. CASE m # 1
    <3>1. m \in 2 .. m
      BY <1>0, <2>2
    <3>2. Plain(p)
      BY <1>0, <3>1 DEF Nested
    <3>3. QED
      BY <1>3, <3>2, PlainInTurn
  <2>3. QED
    BY <2>1, <2>2
<1>5. InTurn(<<>>, g) /\ Plain(<<>>) /\ <<>> \in Seq(Items)
  <2>1. <<>> \in Seq(Items) /\ 1 .. Len(<<>>) = {}
    OBVIOUS
  <2>2. QED
    BY <2>1 DEF InTurn, Plain
<1>6. InTurn(first, g) /\ (m # 1 => Plain(first)) /\ first \in Seq(Items)
  BY <1>3, <1>4, <1>5
<1>7. InTurn(b, g)
  BY <1>1, PlainInTurn
<1>8. \A i \in 1 .. Len(first), j \in 1 .. Len(b) : first[i].root # 0 /\ b[j].root # 0 => first[i].root <= b[j].root
  BY <1>1 DEF Plain
<1>9. InTurn(new, g) /\ (m # 1 => Plain(new))
  BY <1>1, <1>6, <1>7, <1>8, JoinInTurn
<1>10. Nested(up, new, g)
  <2>1. ASSUME up # <<>> PROVE Plain(new) /\ InTurn(up[1].pending, g)
    <3>1. m # 1 /\ 1 \in 1 .. Len(up)
      BY <1>0, <1>2, <2>1
    <3>2. InTurn(up[1].pending, g)
      BY <1>1, <1>2, <3>1 DEF InTurn
    <3>3. QED
      BY <1>9, <3>1, <3>2
  <2>2. ASSUME NEW i \in 2 .. Len(up) PROVE Plain(up[i].pending)
    <3>1. i \in 2 .. m /\ i \in 1 .. Len(up)
      BY <1>0, <1>2
    <3>2. QED
      BY <1>0, <1>2, <3>1 DEF Nested
  <2>3. QED
    BY <1>2, <2>1, <2>2 DEF Nested
<1>11. ASSUME NEW n \in 1 .. g.added PROVE Known(n, new, up, g)
  <2>1. Known(n, b, c, h)
    BY DEF Queue
  <2>2. Roots(b) = {}
    BY <1>1, RootsAre
  <2>3. CASE n \in PendingRoots(c)
    <3>0. DOMAIN c = 1 .. m
      BY <1>0
    <3>1. PICK i \in 1 .. m : n \in Roots(c[i].pending)
      BY <2>3, <3>0 DEF PendingRoots
    <3>2. CASE i = m
      BY <3>1, <3>2 DEF Known
    <3>3. CASE i # m
      <4>1. i \in 1 .. Len(up) /\ DOMAIN up = 1 .. Len(up)
        BY <1>0, <1>2, <3>3
      <4>2. n \in PendingRoots(up)
        BY <1>2, <3>1, <4>1 DEF PendingRoots
      <4>3. QED
        BY <4>2 DEF Known
    <3>4. QED
      BY <3>2, <3>3
  <2>4. CASE n <= h.last \/ n \in h.lost
    BY <2>4 DEF Known
  <2>5. QED
    BY <2>1, <2>2, <2>3, <2>4 DEF Known
<1>12. History(g)
  BY <1>1 DEF History
<1>13. QED
  BY <1>9, <1>10, <1>11, <1>12 DEF Queue

(* The whole of the command buffer. *)
ServerOK(s) ==
  /\ s \in [initialized : BOOLEAN, state : {"ss_dead", "ss_game"}, recursive : BOOLEAN, fatal : BOOLEAN]
  /\ s.state = "ss_game" => s.initialized = TRUE
Sized(b, s) == Len(b) <= 2 * MaxSize /\ (Len(b) > MaxSize => s.fatal = TRUE)
AliasesOK(a) == \A n \in DOMAIN a : a[n] \in Seq(Cmds)
CbInv ==
  /\ Queue(buffer, calls, hist) /\ (calls # <<>> => drain = TRUE)
  /\ Sized(buffer, server) /\ ServerOK(server) /\ AliasesOK(aliases)
  /\ aliasCount \in 0 .. LoopCount + 1 /\ boot \in 0 .. 4

LEMMA ServerIs ==
  ASSUME NEW s, ServerOK(s)
  PROVE  /\ ServerOK([s EXCEPT !.fatal = TRUE]) /\ [s EXCEPT !.fatal = TRUE].fatal = TRUE
         /\ ServerOK([s EXCEPT !.initialized = FALSE, !.state = "ss_dead"])
         /\ ServerOK([s EXCEPT !.recursive = TRUE]) /\ ServerOK([s EXCEPT !.recursive = FALSE])
         /\ ServerOK([s EXCEPT !.initialized = TRUE])
         /\ s.initialized = TRUE => ServerOK([s EXCEPT !.state = "ss_game"])
         /\ s.fatal \in BOOLEAN /\ s.initialized \in BOOLEAN
BY DEF ServerOK

LEMMA HistoryIs ==
  ASSUME NEW h \in Histories, NEW a \in Nat, NEW l \in Nat, NEW x \in SUBSET Nat,
         NEW g, g = [h EXCEPT !.added = a, !.last = l, !.lost = x]
  PROVE  g \in Histories /\ g.added = a /\ g.last = l /\ g.lost = x
BY DEF Histories

LEMMA PendingAre == ASSUME NEW c \in Seq(Call) PROVE PendingRoots(c) \subseteq Nat /\ PendingRoots(<<>>) = {}
<1>1. DOMAIN c = 1 .. Len(c) /\ DOMAIN <<>> = {}
  OBVIOUS
<1>2. ASSUME NEW i \in 1 .. Len(c) PROVE Roots(c[i].pending) \subseteq Nat
  <2>1. c[i] \in Call
    OBVIOUS
  <2>2. c[i].pending \in Seq(Items)
    BY <2>1 DEF Call
  <2>3. QED
    BY <2>2, RootsAre
<1>3. QED
  BY <1>1, <1>2 DEF PendingRoots

(* A text goes in front, and ends the program if there is no room. *)
LEMMA InsertIs ==
  ASSUME NEW b \in Seq(Items), Len(b) <= MaxSize, NEW text \in Seq(Items), ServerOK(server), Insert(b, text)
  PROVE  /\ \E first \in {<<>>, text} : buffer' = first \o b
         /\ ServerOK(server') /\ Sized(buffer', server')
<1> DEFINE first == AddText(<<>>, text)
           r == InsertText(b, text)
<1>1. (first = <<>> \/ first = text) /\ first \in Seq(Items) /\ Len(first) <= MaxSize /\ Len(first) \in Nat
  BY FirstTextIs
<1>2. r.buf = first \o b /\ r.fatal = (Len(first) + Len(b) > MaxSize)
  BY DEF InsertText
<1>3. buffer' = r.buf /\ IF r.fatal THEN server' = [server EXCEPT !.fatal = TRUE] ELSE server' = server
  BY DEF Insert, Fatal
<1> HIDE DEF first, r
<1>4. Len(b) \in Nat /\ MaxSize \in Nat
  BY BufferSizes
<1>5. Len(buffer') = Len(first) + Len(b)
  BY <1>1, <1>2, <1>3
<1>6. Len(buffer') <= 2 * MaxSize
  BY <1>1, <1>4, <1>5
<1>7. ServerOK(server')
  <2>1. ServerOK([server EXCEPT !.fatal = TRUE])
    BY ServerIs
  <2>2. QED
    BY <1>3, <2>1
<1>8. Len(buffer') > MaxSize => r.fatal
  BY <1>2, <1>5
<1>9. ASSUME r.fatal PROVE server'.fatal = TRUE
  <2>1. server' = [server EXCEPT !.fatal = TRUE]
    BY <1>3, <1>9
  <2>2. QED
    BY <2>1, ServerIs
<1>10. Sized(buffer', server')
  BY <1>6, <1>8, <1>9 DEF Sized
<1>11. QED
  BY <1>1, <1>2, <1>3, <1>7, <1>10

(* A drain starts for a hook. *)
LEMMA HookStarts ==
  ASSUME NEW up, NEW pc \in {"end", "begin", "post"}, NEW b \in Seq(Items), NEW aborts \in BOOLEAN, NEW hook \in Hooks,
         CallHook(up, pc, b, aborts, hook)
  PROVE  /\ \E k \in Call : k.pending = b /\ calls' = Append(up, k)
         /\ buffer' \in Seq(Items) /\ Plain(buffer') /\ Len(buffer') <= MaxSize /\ Len(buffer') \in Nat /\ aliasCount' = 0
<1> DEFINE t == Text(hook, 0)
<1>1. hook \in Seq(Cmds)
  BY CommandTexts
<1>2. t \in Seq(Items) /\ Plain(t)
  BY <1>1, TextIs
<1>3. buffer' = AddText(<<>>, t) /\ calls' = Append(up, [pc |-> pc, pending |-> b, aborts |-> aborts]) /\ aliasCount' = 0
  BY DEF CallHook, Scoped
<1> HIDE DEF t
<1>4. (buffer' = <<>> \/ buffer' = t) /\ buffer' \in Seq(Items) /\ Len(buffer') <= MaxSize /\ Len(buffer') \in Nat
  BY <1>2, <1>3, FirstTextIs
<1>5. Plain(<<>>)
  <2>1. 1 .. Len(<<>>) = {}
    OBVIOUS
  <2>2. QED
    BY <2>1 DEF Plain
<1>6. [pc |-> pc, pending |-> b, aborts |-> aborts] \in Call
  BY DEF Call
<1>7. QED
  BY <1>2, <1>3, <1>4, <1>5, <1>6

LEMMA MapStarts ==
  ASSUME NEW srv, ServerOK(srv), NEW up, NEW b \in Seq(Items), NEW aborts \in BOOLEAN, NEW hook \in Hooks,
         StartMap(srv, up, b, aborts, hook)
  PROVE  /\ \E k \in Call : k.pending = b /\ calls' = Append(up, k)
         /\ buffer' \in Seq(Items) /\ Plain(buffer') /\ Len(buffer') <= MaxSize /\ Len(buffer') \in Nat /\ aliasCount' = 0
         /\ ServerOK(server')
<1>1. "end" \in {"end", "begin", "post"} /\ "begin" \in {"end", "begin", "post"}
  OBVIOUS
<1>2. CASE CallHook(up, "end", b, aborts, hook) /\ server' = srv
  BY <1>1, <1>2, HookStarts
<1>3. CASE CallHook(up, "begin", b, aborts, hook) /\ server' = [srv EXCEPT !.initialized = TRUE]
  <2>1. ServerOK(server')
    BY <1>3, ServerIs
  <2>2. QED
    BY <1>1, <1>3, <2>1, HookStarts
<1>4. QED
  BY <1>2, <1>3 DEF StartMap

(* What a command may do to the queue: add a text in its place, start a hook, or leave every hook. *)
Effect(r, b) ==
  /\ \/ /\ calls' = calls
        /\ \E first \in Seq(Items) : buffer' = first \o b /\ \A i \in 1 .. Len(first) : first[i].root = r
     \/ /\ buffer' \in Seq(Items) /\ Plain(buffer')
        /\ \E k \in Call : k.pending = b /\ calls' = Append(calls, k)
     \/ calls' = <<>> /\ buffer' = b
  /\ Sized(buffer', server') /\ ServerOK(server') /\ AliasesOK(aliases') /\ aliasCount' \in 0 .. LoopCount + 1

(* A text that goes in the place of the command, or none. *)
LEMMA InPlace ==
  ASSUME NEW r \in Nat, NEW b \in Seq(Items), Len(b) <= MaxSize, NEW cs \in Seq(Cmds), NEW t, t = Text(cs, r),
         UNCHANGED <<calls, aliases>>, ServerOK(server), AliasesOK(aliases), aliasCount' \in 0 .. LoopCount + 1,
         \/ Insert(b, t)
         \/ buffer' = b /\ ServerOK(server')
  PROVE  Effect(r, b)
<1>1. t \in Seq(Items) /\ \A i \in 1 .. Len(t) : t[i].root = r
  BY TextIs
<1>2. <<>> \in Seq(Items) /\ <<>> \o b = b /\ 1 .. Len(<<>>) = {}
  OBVIOUS
<1>3. CASE Insert(b, t)
  <2>1. (\E first \in {<<>>, t} : buffer' = first \o b) /\ ServerOK(server') /\ Sized(buffer', server')
    BY <1>1, <1>3, InsertIs
  <2>2. \E first \in Seq(Items) : buffer' = first \o b /\ \A i \in 1 .. Len(first) : first[i].root = r
    BY <1>1, <1>2, <2>1
  <2>3. QED
    BY <2>1, <2>2 DEF Effect
<1>4. CASE buffer' = b /\ ServerOK(server')
  <2>1. \E first \in Seq(Items) : buffer' = first \o b /\ \A i \in 1 .. Len(first) : first[i].root = r
    BY <1>2, <1>4
  <2>2. Sized(buffer', server')
    <3>1. Len(b) <= 2 * MaxSize /\ ~(Len(b) > MaxSize)
      BY BufferSizes
    <3>2. QED
      BY <1>4, <3>1 DEF Sized
  <2>3. QED
    BY <1>4, <2>1, <2>2 DEF Effect
<1>5. QED
  BY <1>3, <1>4

LEMMA CommandsDo ==
  ASSUME CbInv, NEW it \in Items, NEW b \in Seq(Items), Len(b) <= MaxSize, NEW hook \in Hooks,
         RunAlias(it, b) \/ RunExec(it, b) \/ RunPlain(it, b) \/ RunMap(it, b, hook) \/ RunError(it, b, hook) \/ RunUnknown(it, b)
  PROVE  Effect(it.root, b)
<1>1. it.cmd \in Cmds /\ it.root \in Nat
  BY DEF Items
<1>2. ServerOK(server) /\ AliasesOK(aliases) /\ aliasCount \in 0 .. LoopCount + 1 /\ calls \in Seq(Call)
  BY DEF CbInv, Queue, Nested
<1>3. <<>> \in Seq(Cmds)
  OBVIOUS
<1>4. CASE RunAlias(it, b)
  <2>1. it.cmd.do \in DOMAIN aliases /\ UNCHANGED <<calls, aliases>>
    BY <1>4 DEF RunAlias
  <2>2. aliases[it.cmd.do] \in Seq(Cmds)
    BY <1>2, <2>1 DEF AliasesOK
  <2>3. aliasCount' \in 0 .. LoopCount + 1
    <3>1. aliasCount' = IF aliasCount > LoopCount THEN aliasCount ELSE aliasCount + 1
      BY <1>4 DEF RunAlias
    <3>2. QED
      BY <1>2, <3>1, BufferSizes
  <2>4. \/ Insert(b, Text(aliases[it.cmd.do], it.root))
        \/ buffer' = b /\ ServerOK(server')
    BY <1>2, <1>4 DEF RunAlias
  <2>5. QED
    BY <1>1, <1>2, <2>1, <2>2, <2>3, <2>4, InPlace
<1>5. CASE RunExec(it, b)
  <2>1. UNCHANGED <<calls, aliases>> /\ aliasCount' = aliasCount
    BY <1>5 DEF RunExec
  <2>2. CASE buffer' = b /\ UNCHANGED server
    BY <1>1, <1>2, <1>3, <2>1, <2>2, InPlace
  <2>3. CASE it.cmd.arg \in DOMAIN Files /\ Insert(b, Text(Files[it.cmd.arg], it.root))
    <3>1. Files[it.cmd.arg] \in Seq(Cmds)
      BY <2>3, CommandTexts
    <3>2. QED
      BY <1>1, <1>2, <2>1, <2>3, <3>1, InPlace
  <2>4. QED
    BY <1>5, <2>2, <2>3 DEF RunExec
<1>6. CASE RunPlain(it, b)
  <2>1. UNCHANGED <<calls, aliasCount>> /\ buffer' = b
    BY <1>6 DEF RunPlain
  <2>2. ServerOK(server')
    <3>1. server' = server \/ server' = [server EXCEPT !.initialized = FALSE, !.state = "ss_dead"]
      BY <1>6 DEF RunPlain, Dead
    <3>2. ServerOK([server EXCEPT !.initialized = FALSE, !.state = "ss_dead"])
      BY <1>2, ServerIs
    <3>3. QED
      BY <1>2, <3>1, <3>2
  <2>3. AliasesOK(aliases')
    <3>1. CASE it.cmd.do # "alias"
      BY <1>2, <1>6, <3>1 DEF RunPlain
    <3>2. CASE it.cmd.do = "alias"
      <4>1. aliases' = [n \in DOMAIN aliases \cup {it.cmd.arg.name} |-> IF n = it.cmd.arg.name THEN it.cmd.arg.text ELSE aliases[n]]
        BY <1>6, <3>2 DEF RunPlain
      <4>2. it.cmd.arg.text \in Seq(Cmds)
        BY <1>1, <3>2, CommandTexts
      <4>3. QED
        BY <1>2, <4>1, <4>2 DEF AliasesOK
    <3>3. QED
      BY <3>1, <3>2
  <2>4. \E first \in Seq(Items) : buffer' = first \o b /\ \A i \in 1 .. Len(first) : first[i].root = it.root
    <3>1. <<>> \in Seq(Items) /\ <<>> \o b = b /\ 1 .. Len(<<>>) = {}
      OBVIOUS
    <3>2. QED
      BY <2>1, <3>1
  <2>5. Sized(buffer', server')
    <3>1. Len(b) <= 2 * MaxSize /\ ~(Len(b) > MaxSize)
      BY BufferSizes
    <3>2. QED
      BY <2>1, <3>1 DEF Sized
  <2>6. QED
    BY <1>2, <2>1, <2>2, <2>3, <2>4, <2>5 DEF Effect
<1>7. ASSUME NEW srv, ServerOK(srv), NEW aborts \in BOOLEAN, StartMap(srv, calls, b, aborts, hook), aliases' = aliases
      PROVE  Effect(it.root, b)
  <2>1. /\ \E k \in Call : k.pending = b /\ calls' = Append(calls, k)
        /\ buffer' \in Seq(Items) /\ Plain(buffer') /\ Len(buffer') <= MaxSize /\ Len(buffer') \in Nat /\ aliasCount' = 0
        /\ ServerOK(server')
    BY <1>7, MapStarts
  <2>2. Sized(buffer', server') /\ aliasCount' \in 0 .. LoopCount + 1
    <3>1. Len(buffer') <= 2 * MaxSize /\ ~(Len(buffer') > MaxSize) /\ aliasCount' \in 0 .. LoopCount + 1
      BY <2>1, BufferSizes
    <3>2. QED
      BY <3>1 DEF Sized
  <2>3. QED
    BY <1>2, <1>7, <2>1, <2>2 DEF Effect
<1>8. CASE RunMap(it, b, hook)
  <2>1. StartMap(server, calls, b, FALSE, hook) /\ aliases' = aliases
    BY <1>8 DEF RunMap
  <2>2. QED
    BY <1>2, <1>7, <2>1
<1>9. CASE RunError(it, b, hook)
  <2>1. aliases' = aliases
    BY <1>9 DEF RunError
  <2>2. CASE Fatal /\ UNCHANGED <<stop, aliasCount, calls>> /\ buffer' = b
    <3>1. ServerOK(server')
      BY <1>2, <2>2, ServerIs DEF Fatal
    <3>2. QED
      BY <1>1, <1>2, <1>3, <2>1, <2>2, <3>1, InPlace
  <2>3. CASE StartMap([Dead EXCEPT !.recursive = TRUE], calls, b, TRUE, hook)
    <3>1. ServerOK(Dead)
      BY <1>2, ServerIs DEF Dead
    <3>2. ServerOK([Dead EXCEPT !.recursive = TRUE])
      BY <3>1, ServerIs
    <3>3. QED
      BY <1>7, <2>1, <2>3, <3>2
  <2>4. CASE server' = Dead /\ calls' = <<>> /\ buffer' = b /\ stop' = TRUE /\ UNCHANGED aliasCount
    <3>1. ServerOK(server')
      BY <1>2, <2>4, ServerIs DEF Dead
    <3>2. Sized(buffer', server')
      <4>1. Len(b) <= 2 * MaxSize /\ ~(Len(b) > MaxSize)
        BY BufferSizes
      <4>2. QED
        BY <2>4, <4>1 DEF Sized
    <3>3. QED
      BY <1>2, <2>1, <2>4, <3>1, <3>2 DEF Effect
  <2>5. QED
    BY <1>9, <2>2, <2>3, <2>4 DEF RunError
<1>10. CASE RunUnknown(it, b)
  <2>1. UNCHANGED <<calls, aliases, aliasCount>> /\ buffer' = b /\ ServerOK(server')
    BY <1>2, <1>10 DEF RunUnknown
  <2>2. QED
    BY <1>1, <1>2, <1>3, <2>1, InPlace
<1>11. QED
  BY <1>4, <1>5, <1>6, <1>8, <1>9, <1>10

(* The line that is run is never older than one that was run before, and stems from no queued line while *)
(* a map command is under way. *)
InOrderStep == hist'.last >= hist.last /\ (calls # <<>> => hist'.last = hist.last)

LEMMA LineRuns == ASSUME CbInv, NEW hook \in Hooks, ExecuteLine(hook) PROVE CbInv' /\ InOrderStep
<1> DEFINE it == Head(buffer)
           b == Tail(buffer)
           l == IF it.root = 0 THEN hist.last ELSE it.root
           x == hist.lost \cup (IF calls # <<>> /\ calls' = <<>> THEN PendingRoots(calls) ELSE {})
<1>1. Queue(buffer, calls, hist) /\ History(hist) /\ buffer \in Seq(Items) /\ calls \in Seq(Call) /\ hist.last \in Nat /\ hist.added \in Nat
      /\ hist \in Histories /\ hist.lost \subseteq Nat
  BY DEF CbInv, Queue, InTurn, Nested, History, Histories
<1>2. buffer # <<>> /\ drain /\ ~server.fatal /\ UNCHANGED <<drain, boot>>
      /\ hist' = [hist EXCEPT !.last = l, !.lost = x]
      /\ (RunAlias(it, b) \/ RunExec(it, b) \/ RunPlain(it, b) \/ RunMap(it, b, hook) \/ RunError(it, b, hook) \/ RunUnknown(it, b))
  BY DEF ExecuteLine
<1>3. it \in Items /\ b \in Seq(Items) /\ Len(b) = Len(buffer) - 1 /\ Len(buffer) \in Nat
  BY <1>1, <1>2
<1>4. Len(b) <= MaxSize
  <2>1. ~(Len(buffer) > MaxSize)
    BY <1>2 DEF CbInv, Sized
  <2>2. QED
    BY <1>3, <2>1, BufferSizes
<1>5. Effect(it.root, b)
  BY <1>2, <1>3, <1>4, CommandsDo
<1>6. it.root \in Nat /\ l \in Nat
  <2>1. it.root \in Nat
    BY <1>3 DEF Items
  <2>2. QED
    BY <1>1, <2>1
<1>7. x \in SUBSET Nat /\ hist.lost \subseteq x
  BY <1>1, PendingAre
<1>8. hist' \in Histories /\ hist'.added = hist.added /\ hist'.last = l /\ hist'.lost = x
  <2>1. hist' = [hist EXCEPT !.last = l, !.lost = x]
    BY <1>2
  <2>2. hist \in Histories /\ l \in Nat /\ x \in SUBSET Nat
    BY <1>1, <1>6, <1>7
  <2> HIDE DEF l, x
  <2>3. QED
    BY <2>1, <2>2 DEF Histories
<1>9. hist'.last = (IF it.root = 0 THEN hist.last ELSE it.root)
  BY <1>8
<1>10. calls # <<>> /\ calls' = <<>> => PendingRoots(calls) \subseteq hist'.lost
  BY <1>8
<1>11. hist.lost \subseteq hist'.lost
  BY <1>7, <1>8
<1> DEFINE r == it.root
<1> HIDE DEF l, x
<1>12. ASSUME NEW first \in Seq(Items), \A i \in 1 .. Len(first) : first[i].root = r
       PROVE  Queue(first \o b, calls, hist') /\ hist'.last >= hist.last /\ (calls # <<>> => hist'.last = hist.last)
  <2>1. Took(buffer, hist, hist', first, first \o b)
    <3>1. \A i \in 1 .. Len(first) : first[i].root = Head(buffer).root
      BY <1>12
    <3>2. hist'.last = IF Head(buffer).root = 0 THEN hist.last ELSE Head(buffer).root
      BY <1>9
    <3>3. first \o b = first \o Tail(buffer) /\ buffer # <<>>
      BY <1>2
    <3> HIDE DEF r, b, it
    <3>4. QED
      BY <1>8, <1>11, <1>12, <3>1, <3>2, <3>3 DEF Took
  <2> HIDE DEF r, b, it
  <2>2. QED
    BY <1>1, <2>1, Takes
<1>13. Queue(b, calls, hist') /\ InOrderStep
  <2>1. <<>> \in Seq(Items) /\ <<>> \o b = b /\ 1 .. Len(<<>>) = {}
    BY <1>3
  <2>2. QED
    BY <1>12, <2>1 DEF InOrderStep
<1>14. Queue(buffer', calls', hist')
  <2>1. CASE /\ calls' = calls
             /\ \E first \in Seq(Items) : buffer' = first \o b /\ \A i \in 1 .. Len(first) : first[i].root = it.root
    BY <1>12, <2>1
  <2>2. CASE /\ buffer' \in Seq(Items) /\ Plain(buffer')
             /\ \E k \in Call : k.pending = b /\ calls' = Append(calls, k)
    BY <1>13, <2>2, Pushes
  <2>3. CASE calls' = <<>> /\ buffer' = b
    <3>1. PendingRoots(calls) \subseteq hist'.lost
      BY <1>1, <1>10, <2>3, PendingAre
    <3>2. QED
      BY <1>13, <2>3, <3>1, ErrorForgets
  <2>4. QED
    BY <1>5, <2>1, <2>2, <2>3 DEF Effect
<1>15. drain' = TRUE
  BY <1>2
<1>16. QED
  BY <1>2, <1>5, <1>13, <1>14, <1>15 DEF CbInv, Effect

(* What the hook that ends leaves of the queue: its own rest behind what waited for it. *)
LEMMA HookLeaves ==
  ASSUME NEW b, NEW c, NEW h, Queue(b, c, h), c # <<>>, NEW p, p = Last(c).pending,
         NEW first \in {<<>>, p}, NEW new, new = first \o b,
         NEW g \in Histories, g.added = h.added, g.last = h.last, h.lost \cup (Roots(p) \ Roots(new)) \subseteq g.lost
  PROVE  Queue(new, Front(c), g)
<1> DEFINE m == Len(c)
<1>1. p = c[m].pending /\ Front(c) = SubSeq(c, 1, m - 1)
  BY DEF Last, Front
<1> HIDE DEF m
<1>2. m = Len(c)
  BY DEF m
<1>3. QED
  BY <1>1, <1>2, Pops

LEMMA EndHookRuns == ASSUME CbInv, NEW hook \in Hooks, EndHook(hook) PROVE CbInv' /\ hist'.last = hist.last
<1> DEFINE top == Last(calls)
           up == Front(calls)
           p == top.pending
           r == InsertText(buffer, p)
           b == IF p = <<>> THEN buffer ELSE r.buf
           over == Roots(p) \ Roots(b)
<1>1. Queue(buffer, calls, hist) /\ buffer \in Seq(Items) /\ calls \in Seq(Call) /\ calls # <<>> /\ drain = TRUE
      /\ hist \in Histories /\ hist.lost \subseteq Nat
  BY DEF CbInv, Queue, InTurn, Nested, History, Histories, EndHook
<1>2. ServerOK(server) /\ AliasesOK(aliases) /\ aliasCount \in 0 .. LoopCount + 1 /\ boot \in 0 .. 4
  BY DEF CbInv
<1>3. Len(buffer) \in Nat /\ Len(buffer) <= MaxSize /\ MaxSize \in Nat
  <2>1. ~server.fatal
    BY DEF EndHook, DrainDone
  <2>2. ~(Len(buffer) > MaxSize)
    BY <2>1 DEF CbInv, Sized
  <2>3. QED
    BY <1>1, <2>2, BufferSizes
<1>4. top \in Call /\ up \in Seq(Call)
  <2>1. Len(calls) \in 1 .. Len(calls) /\ Len(calls) \in Nat
    BY <1>1
  <2>2. top = calls[Len(calls)] /\ up = SubSeq(calls, 1, Len(calls) - 1)
    BY DEF Last, Front
  <2>3. QED
    BY <1>1, <2>1, <2>2
<1>5. p \in Seq(Items) /\ top.aborts \in BOOLEAN /\ top.pc \in {"end", "begin", "post"}
  BY <1>4 DEF Call
<1>6. UNCHANGED <<aliases, boot>>
  BY DEF EndHook
<1>7. CASE r.fatal
  <2>1. Fatal /\ UNCHANGED <<buffer, calls, aliasCount, stop, drain, hist>>
    BY <1>7 DEF EndHook
  <2>2. ServerOK(server') /\ server'.fatal = TRUE
    BY <1>2, <2>1, ServerIs DEF Fatal
  <2>3. Sized(buffer', server')
    <3>1. Len(buffer) <= 2 * MaxSize
      BY <1>3
    <3>2. QED
      BY <2>1, <2>2, <3>1 DEF Sized
  <2>4. QED
    BY <1>1, <1>2, <1>6, <2>1, <2>2, <2>3 DEF CbInv
<1>8. CASE ~r.fatal
  <2> DEFINE first == IF p = <<>> THEN <<>> ELSE AddText(<<>>, p)
  <2>1. first \in {<<>>, p} /\ b = first \o buffer /\ Len(b) <= MaxSize /\ b \in Seq(Items)
    <3>1. CASE p = <<>>
      BY <1>1, <1>3, <3>1
    <3>2. CASE p # <<>>
      <4> DEFINE f == AddText(<<>>, p)
      <4>1. (f = <<>> \/ f = p) /\ f \in Seq(Items) /\ Len(f) \in Nat
        BY <1>5, FirstTextIs
      <4>2. r.buf = f \o buffer /\ r.fatal = (Len(f) + Len(buffer) > MaxSize)
        BY DEF InsertText
      <4>3. first = f /\ b = f \o buffer
        BY <3>2, <4>2
      <4>4. ~(Len(f) + Len(buffer) > MaxSize)
        BY <1>8, <4>2
      <4> HIDE DEF f, first, b, r
      <4>5. f \o buffer \in Seq(Items) /\ Len(f \o buffer) = Len(f) + Len(buffer)
        BY <1>1, <4>1
      <4>6. Len(f \o buffer) <= MaxSize
        BY <1>3, <4>1, <4>4, <4>5
      <4>7. QED
        BY <4>1, <4>3, <4>5, <4>6
    <3>3. QED
      BY <3>1, <3>2
  <2>2. ASSUME NEW g \in Histories, g.added = hist.added, g.last = hist.last, hist.lost \cup over \subseteq g.lost
        PROVE  Queue(b, up, g)
    <3> HIDE DEF first, b, p
    <3>1. p = Last(calls).pending
      BY DEF p
    <3>2. QED
      BY <1>1, <2>1, <2>2, <3>1, HookLeaves
  <2>3. over \subseteq Nat
    BY <1>5, RootsAre
  <2>4. PendingRoots(up) \subseteq Nat
    BY <1>4, PendingAre
  <2>5. ASSUME NEW x \in SUBSET Nat, over \subseteq x, hist' = [hist EXCEPT !.lost = hist.lost \cup x]
        PROVE  hist' \in Histories /\ hist'.last = hist.last /\ hist'.lost = hist.lost \cup x /\ Queue(b, up, hist')
    <3> HIDE DEF over, b, up
    <3>1. hist' \in Histories /\ hist'.last = hist.last /\ hist'.added = hist.added /\ hist'.lost = hist.lost \cup x
      BY <1>1, <2>5 DEF Histories
    <3>2. hist.lost \cup over \subseteq hist'.lost
      BY <2>5, <3>1
    <3>3. QED
      BY <2>2, <3>1, <3>2
  <2>6. ASSUME NEW pc \in {"end", "begin", "post"}, CallHook(up, pc, b, top.aborts, hook), hist' = [hist EXCEPT !.lost = hist.lost \cup over],
               ServerOK(server'), drain' = drain
        PROVE  CbInv' /\ hist'.last = hist.last
    <3>1. Queue(b, up, hist') /\ hist'.last = hist.last
      BY <2>3, <2>5, <2>6
    <3>2. /\ \E k \in Call : k.pending = b /\ calls' = Append(up, k)
          /\ buffer' \in Seq(Items) /\ Plain(buffer') /\ Len(buffer') <= MaxSize /\ Len(buffer') \in Nat /\ aliasCount' = 0
      <4>1. ASSUME NEW a \in BOOLEAN, a = top.aborts, NEW x \in Seq(Items), x = b, NEW u, u = up
            PROVE  /\ \E k \in Call : k.pending = x /\ calls' = Append(u, k)
                   /\ buffer' \in Seq(Items) /\ Plain(buffer') /\ Len(buffer') <= MaxSize /\ Len(buffer') \in Nat /\ aliasCount' = 0
        <5>1. CallHook(u, pc, x, a, hook)
          BY <2>6, <4>1
        <5>2. QED
          BY <2>6, <5>1, HookStarts
      <4>2. top.aborts \in BOOLEAN /\ b \in Seq(Items)
        BY <1>5, <2>1
      <4> HIDE DEF b, up, top
      <4>3. QED
        BY <4>1, <4>2
    <3>3. Queue(buffer', calls', hist')
      BY <3>1, <3>2, Pushes
    <3>4. Sized(buffer', server') /\ aliasCount' \in 0 .. LoopCount + 1
      <4>1. Len(buffer') <= 2 * MaxSize /\ ~(Len(buffer') > MaxSize) /\ aliasCount' \in 0 .. LoopCount + 1
        BY <1>3, <3>2, BufferSizes
      <4>2. QED
        BY <4>1 DEF Sized
    <3>5. drain' = TRUE
      BY <1>1, <2>6
    <3>6. QED
      BY <1>2, <1>6, <2>6, <3>1, <3>3, <3>4, <3>5 DEF CbInv
  <2>7. CASE top.pc = "end"
    <3>1. CallHook(up, "begin", b, top.aborts, hook) /\ server' = [server EXCEPT !.initialized = TRUE]
          /\ hist' = [hist EXCEPT !.lost = hist.lost \cup over] /\ UNCHANGED drain
      BY <1>8, <2>7 DEF EndHook
    <3>2. ServerOK(server')
      BY <1>2, <3>1, ServerIs
    <3>3. QED
      BY <2>6, <3>1, <3>2
  <2>8. CASE top.pc = "begin" /\ ~Abandoned
    <3>1. CallHook(up, "post", b, top.aborts, hook) /\ server' = [server EXCEPT !.state = "ss_game"]
          /\ hist' = [hist EXCEPT !.lost = hist.lost \cup over] /\ UNCHANGED drain
      BY <1>8, <2>8 DEF EndHook
    <3>2. server.initialized = TRUE
      BY <1>2, <2>8 DEF Abandoned, ServerOK
    <3>3. ServerOK(server')
      BY <1>2, <3>1, <3>2, ServerIs
    <3>4. QED
      BY <2>6, <3>1, <3>3
  <2>9. CASE top.pc # "end" /\ ~(top.pc = "begin" /\ ~Abandoned)
    <3> DEFINE x == over \cup (IF top.aborts THEN PendingRoots(up) ELSE {})
    <3>1. /\ buffer' = b /\ calls' = (IF top.aborts THEN <<>> ELSE up)
          /\ server' = [server EXCEPT !.recursive = FALSE] /\ UNCHANGED <<aliasCount, drain>>
          /\ hist' = [hist EXCEPT !.lost = hist.lost \cup over \cup (IF top.aborts THEN PendingRoots(up) ELSE {})]
      BY <1>8, <2>9 DEF EndHook
    <3>2. hist' = [hist EXCEPT !.lost = hist.lost \cup x]
      <4>1. hist.lost \cup over \cup (IF top.aborts THEN PendingRoots(up) ELSE {}) = hist.lost \cup x
        OBVIOUS
      <4>2. QED
        BY <3>1, <4>1
    <3>3. x \in SUBSET Nat /\ over \subseteq x
      BY <2>3, <2>4
    <3>4. hist'.last = hist.last /\ hist'.lost = hist.lost \cup x /\ Queue(b, up, hist')
      <4> HIDE DEF x, over, b, up
      <4>1. QED
        BY <2>5, <3>2, <3>3
    <3>5. Queue(buffer', calls', hist')
      <4>1. CASE top.aborts
        <5>1. PendingRoots(up) \subseteq hist'.lost
          BY <3>4, <4>1
        <5>2. QED
          BY <3>1, <3>4, <4>1, <5>1, ErrorForgets
      <4>2. CASE ~top.aborts
        BY <3>1, <3>4, <4>2
      <4>3. QED
        BY <4>1, <4>2
    <3>6. ServerOK(server')
      BY <1>2, <3>1, ServerIs
    <3>7. Sized(buffer', server')
      <4>1. Len(b) <= 2 * MaxSize /\ ~(Len(b) > MaxSize)
        <5> HIDE DEF b
        <5>1. Len(b) \in Nat
          BY <2>1
        <5>2. QED
          BY <1>3, <2>1, <5>1
      <4>2. QED
        BY <3>1, <4>1 DEF Sized
    <3>8. QED
      BY <1>1, <1>2, <1>6, <3>1, <3>4, <3>5, <3>6, <3>7 DEF CbInv
  <2>10. QED
    BY <2>7, <2>8, <2>9
<1>9. QED
  BY <1>7, <1>8

(* A text goes to the end, while no map command is under way: a new line, or the text of the start. *)
LEMMA Appends ==
  ASSUME NEW b, NEW h, Queue(b, <<>>, h), NEW r \in Nat, NEW t \in Seq(Items), \A i \in 1 .. Len(t) : t[i].root = r,
         NEW new, new = b \/ new = b \o t,
         NEW g \in Histories, g.last = h.last, h.lost \subseteq g.lost,
         (r = 0 /\ g.added = h.added) \/ (r = h.added + 1 /\ g.added = r /\ (new = b => r \in g.lost))
  PROVE  Queue(new, <<>>, g)
<1>1. b \in Seq(Items) /\ InTurn(b, h) /\ h.last \in Nat /\ h.added \in Nat /\ h.last <= h.added /\ Len(b) \in Nat
  BY DEF Queue, InTurn, History, Histories
<1>2. g.last \in Nat /\ g.added \in Nat /\ h.added <= g.added /\ g.last <= g.added
  BY <1>1
<1>3. History(g)
  BY <1>2 DEF History
<1>4. ASSUME NEW i \in 1 .. Len(b) PROVE b[i].root \in Nat
  <2>1. b[i] \in Items
    BY <1>1
  <2>2. QED
    BY <2>1 DEF Items
<1>5. ASSUME NEW i \in 1 .. Len(b), b[i].root # 0 PROVE b[i].root <= h.added /\ g.last <= b[i].root /\ b[i].root <= g.added
  BY <1>1, <1>2, <1>4, <1>5 DEF InTurn
<1>6. InTurn(b, g)
  BY <1>1, <1>5 DEF InTurn
<1>7. r # 0 => g.last <= r /\ r <= g.added /\ r <= r /\ h.added <= r
  BY <1>1, <1>2
<1>8. InTurn(t, g)
  BY <1>7 DEF InTurn
<1>9. \A i \in 1 .. Len(b), j \in 1 .. Len(t) : b[i].root # 0 /\ t[j].root # 0 => b[i].root <= t[j].root
  <2>1. ASSUME NEW i \in 1 .. Len(b), NEW j \in 1 .. Len(t), b[i].root # 0, t[j].root # 0 PROVE b[i].root <= t[j].root
    <3>1. t[j].root = r /\ r # 0
      BY <2>1
    <3>2. QED
      BY <1>1, <1>4, <1>5, <1>7, <2>1, <3>1
  <2>2. QED
    BY <2>1
<1>10. InTurn(new, g)
  <2>1. InTurn(b \o t, g)
    BY <1>6, <1>8, <1>9, JoinInTurn
  <2>2. QED
    BY <1>6, <2>1
<1>11. Nested(<<>>, new, g)
  <2>1. <<>> \in Seq(Call) /\ 2 .. Len(<<>>) = {}
    OBVIOUS
  <2>2. QED
    BY <2>1 DEF Nested
<1>12. Roots(b) \subseteq Roots(new) /\ (new = b \o t => Roots(t) \subseteq Roots(new))
  <2>1. Roots(b \o t) = Roots(b) \cup Roots(t)
    BY <1>1, RootsAre
  <2>2. QED
    BY <2>1
<1>13. ASSUME NEW n \in 1 .. g.added PROVE Known(n, new, <<>>, g)
  <2>1. CASE n \in 1 .. h.added
    <3>1. Known(n, b, <<>>, h)
      BY <2>1 DEF Queue
    <3>2. QED
      BY <1>12, <3>1 DEF Known
  <2>2. CASE n \notin 1 .. h.added
    <3>1. n = r /\ r # 0 /\ r = h.added + 1 /\ (new = b => r \in g.lost)
      BY <1>1, <2>2
    <3>2. CASE new = b
      BY <3>1, <3>2 DEF Known
    <3>3. CASE new # b
      <4>1. new = b \o t
        BY <3>3
      <4>2. t # <<>>
        <5>1. b \o <<>> = b
          BY <1>1
        <5>2. QED
          BY <3>3, <4>1, <5>1
      <4>3. 1 \in 1 .. Len(t)
        BY <4>2
      <4>4. t[1].root = n /\ t[1].root # 0
        BY <3>1, <4>3
      <4>5. n \in Roots(t)
        BY <4>3, <4>4, RootsAre
      <4>6. QED
        BY <1>12, <4>1, <4>5 DEF Known
    <3>4. QED
      BY <3>2, <3>3
  <2>3. QED
    BY <2>1, <2>2
<1>14. QED
  BY <1>3, <1>10, <1>11, <1>13 DEF Queue

LEMMA StartIs == \A n \in 0 .. 3 : BootText(n) \in Seq(Cmds)
<1>1. TAKE n \in 0 .. 3
<1>2. [do |-> "set", arg |-> "line"] \in Cmds /\ [do |-> "exec", arg |-> "config"] \in Cmds /\ Do("map") \in Cmds
  BY CommandTexts DEF Do
<1>3. EarlyCommands \in Seq(Cmds)
  BY <1>2 DEF EarlyCommands
<1>4. <<[do |-> "exec", arg |-> "config"]>> \in Seq(Cmds) /\ <<Do("map")>> \in Seq(Cmds) /\ <<>> \in Seq(Cmds)
  BY <1>2
<1>5. <<[do |-> "exec", arg |-> "config"]>> \o EarlyCommands \in Seq(Cmds)
  BY <1>3, <1>4
<1>6. n = 0 \/ n = 1 \/ n = 2 \/ n = 3
  OBVIOUS
<1>7. QED
  BY <1>3, <1>4, <1>5, <1>6 DEF BootText

(* Outside a drain no map command is under way, and the buffer has room again. *)
LEMMA Idle ==
  ASSUME CbInv, ~drain, ~server.fatal
  PROVE  /\ calls = <<>> /\ Queue(buffer, <<>>, hist) /\ buffer \in Seq(Items) /\ Len(buffer) <= MaxSize
         /\ hist \in Histories /\ hist.added \in Nat /\ hist.lost \subseteq Nat
<1>1. calls = <<>>
  BY DEF CbInv
<1>2. Queue(buffer, <<>>, hist)
  BY <1>1 DEF CbInv
<1>3. buffer \in Seq(Items) /\ hist \in Histories /\ hist.added \in Nat /\ hist.lost \subseteq Nat
  BY <1>2 DEF Queue, InTurn, History, Histories
<1>4. Len(buffer) <= MaxSize
  <2>1. ~(Len(buffer) > MaxSize)
    BY DEF CbInv, Sized
  <2>2. QED
    BY <1>3, <2>1, BufferSizes
<1>5. QED
  BY <1>1, <1>2, <1>3, <1>4

LEMMA SizeStays == ASSUME NEW b \in Seq(Items), Len(b) <= MaxSize, NEW s PROVE Sized(b, s)
<1>1. Len(b) <= 2 * MaxSize /\ ~(Len(b) > MaxSize)
  BY BufferSizes
<1>2. QED
  BY <1>1 DEF Sized

LEMMA AddLineRuns == ASSUME CbInv, NEW cs \in Lines, AddLine(cs) PROVE CbInv' /\ hist'.last = hist.last /\ calls = <<>>
<1> DEFINE n == hist.added + 1
           t == Text(cs, n)
           x == IF buffer' = buffer THEN hist.lost \cup {n} ELSE hist.lost
<1>1. ~drain /\ ~server.fatal /\ UNCHANGED <<drain, stop, aliasCount, aliases, calls, server, setting, boot>>
      /\ buffer' = AddText(buffer, t) /\ hist' = [hist EXCEPT !.added = n, !.lost = x]
  BY DEF AddLine
<1>2. /\ calls = <<>> /\ Queue(buffer, <<>>, hist) /\ buffer \in Seq(Items) /\ Len(buffer) <= MaxSize
      /\ hist \in Histories /\ hist.added \in Nat /\ hist.lost \subseteq Nat
  BY <1>1, Idle
<1>3. n \in Nat /\ x \in SUBSET Nat /\ hist.lost \subseteq x /\ (buffer' = buffer => n \in x)
  BY <1>2
<1>4. t \in Seq(Items) /\ \A i \in 1 .. Len(t) : t[i].root = n
  <2>1. cs \in Seq(Cmds)
    BY CommandTexts
  <2>2. QED
    BY <1>3, <2>1, TextIs
<1>5. (buffer' = buffer \/ buffer' = buffer \o t) /\ buffer' \in Seq(Items) /\ Len(buffer') <= MaxSize
  <2> HIDE DEF t
  <2>1. QED
    BY <1>1, <1>2, <1>4, AddTextIs
<1>6. n = hist.added + 1
  OBVIOUS
<1>7. hist' \in Histories /\ hist'.last = hist.last /\ hist'.added = n /\ hist'.lost = x
  <2> HIDE DEF n, x
  <2>1. QED
    BY <1>1, <1>2, <1>3 DEF Histories
<1>8. Queue(buffer', <<>>, hist')
  <2> HIDE DEF n, x, t
  <2>1. QED
    BY <1>2, <1>3, <1>4, <1>5, <1>6, <1>7, Appends
<1>9. Sized(buffer', server')
  BY <1>5, SizeStays
<1>10. QED
  BY <1>1, <1>2, <1>7, <1>8, <1>9 DEF CbInv

LEMMA BootRuns == ASSUME CbInv, Boot PROVE CbInv' /\ hist'.last = hist.last /\ calls = <<>>
<1> DEFINE t == Text(BootText(boot), 0)
<1>1. boot < 4 /\ ~drain /\ ~server.fatal /\ UNCHANGED <<stop, aliases, calls, server, setting, hist>>
      /\ buffer' = AddText(buffer, t) /\ boot' = boot + 1 /\ drain' = TRUE /\ aliasCount' = 0
  BY DEF Boot
<1>2. /\ calls = <<>> /\ Queue(buffer, <<>>, hist) /\ buffer \in Seq(Items) /\ Len(buffer) <= MaxSize
      /\ hist \in Histories /\ hist.added \in Nat
  BY <1>1, Idle
<1>3. boot \in 0 .. 3 /\ boot' \in 0 .. 4 /\ aliasCount' \in 0 .. LoopCount + 1
  BY <1>1, BufferSizes DEF CbInv
<1>4. t \in Seq(Items) /\ \A i \in 1 .. Len(t) : t[i].root = 0
  BY <1>3, StartIs, TextIs
<1>5. (buffer' = buffer \/ buffer' = buffer \o t) /\ buffer' \in Seq(Items) /\ Len(buffer') <= MaxSize
  <2> HIDE DEF t
  <2>1. QED
    BY <1>1, <1>2, <1>4, AddTextIs
<1>6. Queue(buffer', <<>>, hist')
  <2>1. hist' = hist
    BY <1>1
  <2> HIDE DEF t
  <2>2. Queue(buffer', <<>>, hist)
    BY <1>2, <1>4, <1>5, Appends
  <2>3. QED
    BY <2>1, <2>2
<1>7. Sized(buffer', server')
  BY <1>5, SizeStays
<1>8. QED
  BY <1>1, <1>2, <1>3, <1>6, <1>7 DEF CbInv

LEMMA DrainsRun == ASSUME CbInv, Execute \/ EndDrain PROVE CbInv' /\ hist'.last = hist.last /\ calls = <<>>
<1>1. UNCHANGED <<buffer, aliases, calls, server, setting, boot, hist>> /\ aliasCount' \in 0 .. LoopCount + 1
  BY BufferSizes DEF Execute, EndDrain, CbInv
<1>2. calls = <<>>
  BY DEF Execute, EndDrain, CbInv
<1>3. QED
  BY <1>1, <1>2 DEF CbInv

LEMMA CbStarts == CbInit => CbInv
<1> SUFFICES ASSUME CbInit PROVE CbInv
  OBVIOUS
<1>1. buffer = <<>> /\ calls = <<>> /\ aliases = <<>> /\ aliasCount = 0 /\ boot = 0 /\ hist = [added |-> 0, last |-> 0, lost |-> {}]
      /\ server = [initialized |-> FALSE, state |-> "ss_dead", recursive |-> FALSE, fatal |-> FALSE]
  BY DEF CbInit
<1>2. ServerOK(server)
  BY <1>1 DEF ServerOK
<1>3. Sized(buffer, server)
  <2>1. <<>> \in Seq(Items) /\ Len(<<>>) <= MaxSize
    BY BufferSizes
  <2>2. QED
    BY <1>1, <2>1, SizeStays
<1>4. AliasesOK(aliases)
  BY <1>1 DEF AliasesOK
<1>5. Queue(buffer, calls, hist)
  <2>1. hist \in Histories /\ hist.added = 0 /\ hist.last = 0 /\ 1 .. hist.added = {} /\ 1 .. Len(<<>>) = {} /\ 2 .. Len(<<>>) = {}
        /\ <<>> \in Seq(Items) /\ <<>> \in Seq(Call)
    BY <1>1 DEF Histories
  <2>2. History(hist)
    BY <2>1 DEF History
  <2>3. InTurn(buffer, hist)
    BY <1>1, <2>1 DEF InTurn
  <2>4. Nested(calls, buffer, hist)
    BY <1>1, <2>1 DEF Nested
  <2>5. QED
    BY <2>1, <2>2, <2>3, <2>4 DEF Queue
<1>6. QED
  BY <1>1, <1>2, <1>3, <1>4, <1>5, BufferSizes DEF CbInv

LEMMA CbStep == CbInv /\ [CbNext]_cbVars => CbInv' /\ [InOrderStep]_cbVars
<1> SUFFICES ASSUME CbInv, [CbNext]_cbVars PROVE CbInv' /\ [InOrderStep]_cbVars
  OBVIOUS
<1>1. hist.last \in Nat
  BY DEF CbInv, Queue, History, Histories
<1>2. CASE UNCHANGED cbVars
  <2>1. UNCHANGED <<buffer, drain, stop, aliasCount, aliases, calls, server, setting, boot, hist>>
    BY <1>2 DEF cbVars
  <2>2. CbInv'
    BY <2>1 DEF CbInv
  <2>3. QED
    BY <1>2, <2>2
<1>3. ASSUME NEW cs \in Lines, AddLine(cs) PROVE CbInv' /\ InOrderStep
  BY <1>1, <1>3, AddLineRuns DEF InOrderStep
<1>4. CASE Boot
  BY <1>1, <1>4, BootRuns DEF InOrderStep
<1>5. CASE Execute \/ EndDrain
  BY <1>1, <1>5, DrainsRun DEF InOrderStep
<1>6. ASSUME NEW h \in Hooks, ExecuteLine(h) PROVE CbInv' /\ InOrderStep
  BY <1>6, LineRuns
<1>7. ASSUME NEW h \in Hooks, EndHook(h) PROVE CbInv' /\ InOrderStep
  BY <1>1, <1>7, EndHookRuns DEF InOrderStep
<1>8. QED
  BY <1>2, <1>3, <1>4, <1>5, <1>6, <1>7 DEF CbNext

LEMMA CbHolds == CbInv => CbTypeOK /\ NoLineForgotten /\ LevelHasServer
<1> SUFFICES ASSUME CbInv PROVE CbTypeOK /\ NoLineForgotten /\ LevelHasServer
  OBVIOUS
<1>1. CbTypeOK
  <2>1. \A i \in DOMAIN calls : calls[i].pc \in {"end", "begin", "post"}
    <3>1. calls \in Seq(Call)
      BY DEF CbInv, Queue, Nested
    <3>2. ASSUME NEW i \in DOMAIN calls PROVE calls[i].pc \in {"end", "begin", "post"}
      <4>1. calls[i] \in Call
        BY <3>1
      <4>2. QED
        BY <4>1 DEF Call
    <3>3. QED
      BY <3>2
  <2>2. server.state \in {"ss_dead", "ss_game"}
    BY DEF CbInv, ServerOK
  <2>3. Len(buffer) <= 2 * MaxSize /\ (Len(buffer) > MaxSize => server.fatal)
    BY DEF CbInv, Sized
  <2>4. QED
    BY <2>1, <2>2, <2>3 DEF CbTypeOK, CbInv
<1>2. NoLineForgotten
  BY DEF CbInv, Queue, Known, NoLineForgotten
<1>3. LevelHasServer
  BY DEF CbInv, ServerOK, LevelHasServer
<1>4. QED
  BY <1>1, <1>2, <1>3

(* Whatever maps, hooks, aliases, files, waits and errors come between: a line that was added is    *)
(* run, is still queued or saved, or was reported as lost; lines are run in the order in which they *)
(* were added; while a map command is under way only its hooks' own text runs; and no level is      *)
(* loaded on a server that is not there (Cbuf_Execute, Cbuf_ExecuteScoped, SV_Map).                 *)
THEOREM DrainsHold == CbSpec => LinesAreKept
<1>1. CbInit => CbInv
  BY CbStarts
<1>2. CbInv /\ [CbNext]_cbVars => CbInv' /\ [InOrderStep]_cbVars
  BY CbStep
<1>3. CbInv => CbTypeOK /\ NoLineForgotten /\ LevelHasServer
  BY CbHolds
<1>4. [InOrderStep]_cbVars => [calls # <<>> => hist'.last = hist.last]_cbVars /\ [hist'.last >= hist.last]_cbVars
  BY DEF InOrderStep
<1>5. QED
  BY <1>1, <1>2, <1>3, <1>4, PTL DEF CbSpec, LinesAreKept, HooksRunAlone, LinesInOrder

(* The settings of the command line, run again after the config file (common.c:2649-2652). *)
SetLine == [do |-> "set", arg |-> "line"]
Of(S, b) == \A i \in 1 .. Len(b) : b[i].cmd \in S
(* They are still queued: what goes before them is of the config file, what follows comes late. *)
SetIn(b, C, L) ==
  \E k \in 1 .. Len(b) :
    /\ b[k].cmd = SetLine
    /\ \A i \in 1 .. Len(b) : (i < k => b[i].cmd \in C) /\ (i > k => b[i].cmd \in L)

(* C has what the config file may run: no map is loaded. *)
FromConfig(C) ==
  /\ [do |-> "exec", arg |-> "config"] \in C
  /\ \A c \in C :
       /\ c.do # "map"
       /\ c.do = "alias" => c.arg.text \in Seq(C)
       /\ c.do = "exec" /\ c.arg \in DOMAIN Files => Files[c.arg] \in Seq(C)
(* L has what may come after it, in the late commands and the hooks of maps: it leaves the settings as *)
(* they are, by itself and by the files and aliases it runs.                                           *)
Called(L) == {c.do : c \in L} \ BuiltIn
ComesLate(L, C) ==
  /\ Do("map") \in L /\ Hooks \subseteq Seq(L)
  /\ \A c \in L :
       /\ c.do = "set" => c = SetLine
       /\ c.do = "exec" /\ c.arg \in DOMAIN Files => Files[c.arg] \in Seq(L)
  /\ \A d \in C \cup L : d.do = "alias" /\ d.arg.name \in Called(L) => d.arg.text \in Seq(L)

LateAliases(a, L) == \A n \in DOMAIN a : n \in Called(L) => a[n] \in Seq(L)
ConfigAliases(a, C) == \A n \in DOMAIN a : a[n] \in Seq(C)
(* The command line is not read yet, its settings are still queued, or they hold. *)
Starting ==
  /\ boot \in 0 .. 1 /\ calls = <<>> /\ ~stop /\ aliases = <<>> /\ server.state = "ss_dead"
  /\ \/ buffer = <<>> /\ (boot = 0 => ~drain)
     \/ boot = 1 /\ drain /\ buffer = <<Item(SetLine, 0)>>
Queued(C, L) ==
  boot \in 2 .. 4 /\ calls = <<>> /\ server.state = "ss_dead" /\ ConfigAliases(aliases, C) /\ SetIn(buffer, C, L)
Kept(L) == boot \in 2 .. 4 /\ setting = "line" /\ Of(L, buffer) /\ \A i \in 1 .. Len(calls) : Of(L, calls[i].pending)
LineInv(C, L) == hist.added = 0 => LateAliases(aliases, L) /\ (Starting \/ Queued(C, L) \/ Kept(L))

LEMMA OfText ==
  ASSUME NEW S \in SUBSET Cmds, NEW cs \in Seq(S), NEW r \in Nat, NEW t, t = Text(cs, r)
  PROVE  t \in Seq(Items) /\ Of(S, t)
<1>1. cs \in Seq(Cmds) /\ DOMAIN cs = 1 .. Len(cs) /\ \A i \in 1 .. Len(cs) : cs[i] \in S
  OBVIOUS
<1>2. t \in Seq(Items) /\ Len(t) = Len(cs)
  BY <1>1, TextIs
<1>3. \A i \in 1 .. Len(cs) : t[i].cmd = cs[i]
  BY <1>1 DEF Text, Item
<1>4. QED
  BY <1>1, <1>2, <1>3 DEF Of

LEMMA OfJoined ==
  ASSUME NEW S, NEW b \in Seq(Items), NEW t \in Seq(Items)
  PROVE  /\ Of(S, b) /\ Of(S, t) => Of(S, b \o t)
         /\ Of(S, <<>>)
         /\ b # <<>> /\ Of(S, b) => Head(b).cmd \in S /\ Of(S, Tail(b))
<1>1. Len(b) \in Nat /\ Len(t) \in Nat /\ Len(b \o t) = Len(b) + Len(t)
      /\ \A i \in 1 .. Len(b) + Len(t) : (b \o t)[i] = IF i <= Len(b) THEN b[i] ELSE t[i - Len(b)]
  OBVIOUS
<1>2. ASSUME Of(S, b), Of(S, t) PROVE Of(S, b \o t)
  <2>1. SUFFICES ASSUME NEW i \in 1 .. Len(b) + Len(t) PROVE (b \o t)[i].cmd \in S
    BY <1>1 DEF Of
  <2>2. CASE i <= Len(b)
    <3>1. i \in 1 .. Len(b) /\ (b \o t)[i] = b[i]
      BY <1>1, <2>2
    <3>2. QED
      BY <1>2, <3>1 DEF Of
  <2>3. CASE ~(i <= Len(b))
    <3>1. i - Len(b) \in 1 .. Len(t) /\ (b \o t)[i] = t[i - Len(b)]
      BY <1>1, <2>3
    <3>2. QED
      BY <1>2, <3>1 DEF Of
  <2>4. QED
    BY <2>2, <2>3
<1>3. Of(S, <<>>)
  <2>1. 1 .. Len(<<>>) = {}
    OBVIOUS
  <2>2. QED
    BY <2>1 DEF Of
<1>4. ASSUME b # <<>>, Of(S, b) PROVE Head(b).cmd \in S /\ Of(S, Tail(b))
  <2>1. Head(b) = b[1] /\ 1 \in 1 .. Len(b) /\ Len(Tail(b)) = Len(b) - 1
        /\ \A i \in 1 .. Len(Tail(b)) : Tail(b)[i] = b[i+1] /\ i + 1 \in 1 .. Len(b)
    BY <1>4
  <2>2. QED
    BY <1>4, <2>1 DEF Of
<1>5. QED
  BY <1>2, <1>3, <1>4

(* The first command of the queue is the setting itself or one of the config file. *)
LEMMA SetComes ==
  ASSUME NEW C, NEW L, NEW b \in Seq(Items), SetIn(b, C, L), NEW t, t = Tail(b)
  PROVE  b # <<>> /\ ((Head(b).cmd = SetLine /\ Of(L, t)) \/ (Head(b).cmd \in C /\ SetIn(t, C, L)))
<1>1. PICK k \in 1 .. Len(b) :
         /\ b[k].cmd = SetLine
         /\ \A i \in 1 .. Len(b) : (i < k => b[i].cmd \in C) /\ (i > k => b[i].cmd \in L)
  BY DEF SetIn
<1>2. b # <<>> /\ Len(b) \in Nat /\ Head(b) = b[1] /\ 1 \in 1 .. Len(b) /\ Len(t) = Len(b) - 1
      /\ \A i \in 1 .. Len(t) : t[i] = b[i+1] /\ i + 1 \in 1 .. Len(b)
  BY <1>1
<1>3. CASE k = 1
  <2>1. \A i \in 1 .. Len(t) : i + 1 > k
    BY <1>2, <1>3
  <2>2. Of(L, t)
    BY <1>1, <1>2, <2>1 DEF Of
  <2>3. QED
    BY <1>1, <1>2, <1>3, <2>2
<1>4. CASE k # 1
  <2>1. 1 < k /\ k - 1 \in 1 .. Len(t) /\ k - 1 + 1 = k
    BY <1>2, <1>4
  <2>2. t[k-1].cmd = SetLine
    BY <1>1, <1>2, <2>1
  <2>3. ASSUME NEW i \in 1 .. Len(t) PROVE (i < k - 1 => t[i].cmd \in C) /\ (i > k - 1 => t[i].cmd \in L)
    <3>1. i + 1 \in 1 .. Len(b) /\ t[i] = b[i+1] /\ (i < k - 1 => i + 1 < k) /\ (i > k - 1 => i + 1 > k)
      BY <1>2
    <3>2. QED
      BY <1>1, <3>1
  <2>4. SetIn(t, C, L)
    BY <2>1, <2>2, <2>3 DEF SetIn
  <2>5. QED
    BY <1>1, <1>2, <2>1, <2>4
<1>5. QED
  BY <1>3, <1>4

(* A text of the config file goes in front of it, a late one behind. *)
LEMMA SetStays ==
  ASSUME NEW C, NEW L, NEW f \in Seq(Items), NEW g \in Seq(Items)
  PROVE  /\ Of(C, f) /\ SetIn(g, C, L) => SetIn(f \o g, C, L)
         /\ SetIn(f, C, L) /\ Of(L, g) => SetIn(f \o g, C, L)
<1> DEFINE b == f \o g
<1>1. Len(f) \in Nat /\ Len(g) \in Nat /\ Len(b) = Len(f) + Len(g)
      /\ \A i \in 1 .. Len(b) : b[i] = IF i <= Len(f) THEN f[i] ELSE g[i - Len(f)]
  OBVIOUS
<1> HIDE DEF b
<1>2. ASSUME Of(C, f), SetIn(g, C, L) PROVE SetIn(b, C, L)
  <2>1. PICK k \in 1 .. Len(g) :
           /\ g[k].cmd = SetLine
           /\ \A i \in 1 .. Len(g) : (i < k => g[i].cmd \in C) /\ (i > k => g[i].cmd \in L)
    BY <1>2 DEF SetIn
  <2>2. k + Len(f) \in 1 .. Len(b) /\ b[k + Len(f)].cmd = SetLine
    <3>1. k + Len(f) \in 1 .. Len(b) /\ ~(k + Len(f) <= Len(f)) /\ k + Len(f) - Len(f) = k
      BY <1>1
    <3>2. b[k + Len(f)] = g[k]
      BY <1>1, <3>1
    <3>3. QED
      BY <2>1, <3>1, <3>2
  <2>3. ASSUME NEW i \in 1 .. Len(b) PROVE (i < k + Len(f) => b[i].cmd \in C) /\ (i > k + Len(f) => b[i].cmd \in L)
    <3>1. CASE i <= Len(f)
      <4>1. i \in 1 .. Len(f) /\ b[i] = f[i] /\ ~(i > k + Len(f))
        BY <1>1, <3>1
      <4>2. QED
        BY <1>2, <4>1 DEF Of
    <3>2. CASE ~(i <= Len(f))
      <4>1. i - Len(f) \in 1 .. Len(g) /\ b[i] = g[i - Len(f)]
            /\ (i < k + Len(f) => i - Len(f) < k) /\ (i > k + Len(f) => i - Len(f) > k)
        BY <1>1, <3>2
      <4>2. QED
        BY <2>1, <4>1
    <3>3. QED
      BY <3>1, <3>2
  <2>4. QED
    BY <2>2, <2>3 DEF SetIn
<1>3. ASSUME SetIn(f, C, L), Of(L, g) PROVE SetIn(b, C, L)
  <2>1. PICK k \in 1 .. Len(f) :
           /\ f[k].cmd = SetLine
           /\ \A i \in 1 .. Len(f) : (i < k => f[i].cmd \in C) /\ (i > k => f[i].cmd \in L)
    BY <1>3 DEF SetIn
  <2>2. k \in 1 .. Len(b) /\ b[k].cmd = SetLine
    BY <1>1, <2>1
  <2>3. ASSUME NEW i \in 1 .. Len(b) PROVE (i < k => b[i].cmd \in C) /\ (i > k => b[i].cmd \in L)
    <3>1. CASE i <= Len(f)
      <4>1. i \in 1 .. Len(f) /\ b[i] = f[i]
        BY <1>1, <3>1
      <4>2. QED
        BY <2>1, <4>1
    <3>2. CASE ~(i <= Len(f))
      <4>1. i - Len(f) \in 1 .. Len(g) /\ b[i] = g[i - Len(f)] /\ ~(i < k)
        BY <1>1, <3>2
      <4>2. QED
        BY <1>3, <4>1 DEF Of
    <3>3. QED
      BY <3>1, <3>2
  <2>4. QED
    BY <2>2, <2>3 DEF SetIn
<1>4. QED
  BY <1>2, <1>3 DEF b
(* The text that a command puts in its place. *)
LEMMA PutIn ==
  ASSUME NEW S \in SUBSET Cmds, NEW cs \in Seq(S), NEW r \in Nat, NEW b \in Seq(Items), Len(b) <= MaxSize, ServerOK(server),
         Insert(b, Text(cs, r)) \/ buffer' = b
  PROVE  \E f \in Seq(Items) : Of(S, f) /\ buffer' = f \o b
<1> DEFINE t == Text(cs, r)
<1>1. t \in Seq(Items) /\ Of(S, t)
  BY OfText
<1>2. <<>> \in Seq(Items) /\ <<>> \o b = b /\ Of(S, <<>>)
  <2>1. <<>> \in Seq(Items) /\ <<>> \o b = b
    OBVIOUS
  <2>2. QED
    BY <2>1, OfJoined
<1>3. CASE buffer' = b
  BY <1>2, <1>3
<1>4. CASE Insert(b, t)
  <2> HIDE DEF t
  <2>1. \E f \in {<<>>, t} : buffer' = f \o b
    BY <1>1, <1>4, InsertIs
  <2>2. QED
    BY <1>1, <1>2, <2>1
<1>5. QED
  BY <1>3, <1>4

(* The aliases keep to what C and L say of them. *)
LEMMA AliasesKeep ==
  ASSUME NEW C \in SUBSET Cmds, NEW L \in SUBSET Cmds, FromConfig(C), ComesLate(L, C),
         NEW it \in Items, it.cmd \in C \cup L, NEW b, RunPlain(it, b)
  PROVE  /\ LateAliases(aliases, L) => LateAliases(aliases', L)
         /\ it.cmd \in C /\ ConfigAliases(aliases, C) => ConfigAliases(aliases', C)
<1>1. CASE it.cmd.do # "alias"
  <2>1. aliases' = aliases
    BY <1>1 DEF RunPlain
  <2>2. QED
    BY <2>1
<1>2. CASE it.cmd.do = "alias"
  <2>1. aliases' = [n \in DOMAIN aliases \cup {it.cmd.arg.name} |-> IF n = it.cmd.arg.name THEN it.cmd.arg.text ELSE aliases[n]]
    BY <1>2 DEF RunPlain
  <2>2. it.cmd.arg.name \in Called(L) => it.cmd.arg.text \in Seq(L)
    BY <1>2 DEF ComesLate
  <2>3. it.cmd \in C => it.cmd.arg.text \in Seq(C)
    BY <1>2 DEF FromConfig
  <2>4. QED
    BY <2>1, <2>2, <2>3 DEF LateAliases, ConfigAliases
<1>3. QED
  BY <1>1, <1>2

(* A hook's text is a late one, and what was queued waits for it. *)
LEMMA HookKeeps ==
  ASSUME NEW L \in SUBSET Cmds, Hooks \subseteq Seq(L), NEW up, NEW pc, NEW b, NEW aborts, NEW hook \in Hooks,
         CallHook(up, pc, b, aborts, hook)
  PROVE  /\ Of(L, buffer')
         /\ \E k : k.pending = b /\ calls' = Append(up, k)
<1> DEFINE t == Text(hook, 0)
           k == [pc |-> pc, pending |-> b, aborts |-> aborts]
<1>1. t \in Seq(Items) /\ Of(L, t)
  <2>1. hook \in Seq(L)
    OBVIOUS
  <2>2. QED
    BY <2>1, OfText
<1>2. buffer' = AddText(<<>>, t) /\ calls' = Append(up, k)
  BY DEF CallHook, Scoped
<1>3. k.pending = b
  OBVIOUS
<1> HIDE DEF t, k
<1>4. buffer' = <<>> \/ buffer' = t
  BY <1>1, <1>2, FirstTextIs
<1>5. QED
  BY <1>1, <1>2, <1>3, <1>4, OfJoined

(* What waits for the map commands under way is late, also with one more or one less of them. *)
LateCalls(c, L) == \A i \in 1 .. Len(c) : Of(L, c[i].pending)
LEMMA CallsKeep ==
  ASSUME NEW L, NEW T, NEW c \in Seq(T), LateCalls(c, L)
  PROVE  /\ \A k : Of(L, k.pending) => LateCalls(Append(c, k), L)
         /\ c # <<>> => Of(L, Last(c).pending) /\ LateCalls(Front(c), L) /\ Front(c) \in Seq(T)
<1>1. ASSUME NEW k, Of(L, k.pending) PROVE LateCalls(Append(c, k), L)
  <2>1. Len(c) \in Nat /\ Len(Append(c, k)) = Len(c) + 1
        /\ \A i \in 1 .. Len(c) + 1 : Append(c, k)[i] = IF i = Len(c) + 1 THEN k ELSE c[i]
    OBVIOUS
  <2>2. ASSUME NEW i \in 1 .. Len(c) + 1 PROVE Of(L, Append(c, k)[i].pending)
    <3>1. CASE i = Len(c) + 1
      BY <1>1, <2>1, <3>1
    <3>2. CASE i # Len(c) + 1
      <4>1. i \in 1 .. Len(c) /\ Append(c, k)[i] = c[i]
        BY <2>1, <3>2
      <4>2. QED
        BY <4>1 DEF LateCalls
    <3>3. QED
      BY <3>1, <3>2
  <2>3. QED
    BY <2>1, <2>2 DEF LateCalls
<1>2. ASSUME c # <<>> PROVE Of(L, Last(c).pending) /\ LateCalls(Front(c), L) /\ Front(c) \in Seq(T)
  <2>1. Len(c) \in 1 .. Len(c) /\ Last(c) = c[Len(c)] /\ Front(c) = SubSeq(c, 1, Len(c) - 1)
    BY <1>2 DEF Last, Front
  <2> DEFINE n == Len(c) - 1
  <2>2. Front(c) \in Seq(T) /\ Len(Front(c)) = n /\ \A i \in 1 .. n : Front(c)[i] = c[i] /\ i \in 1 .. Len(c)
    <3>1. n \in 0 .. Len(c) /\ \A i \in 1 .. n : i \in 1 .. Len(c)
      BY <2>1
    <3> HIDE DEF n
    <3>2. /\ SubSeq(c, 1, n) \in Seq(T) /\ Len(SubSeq(c, 1, n)) = n
          /\ \A i \in 1 .. n : SubSeq(c, 1, n)[i] = c[i]
      BY <3>1
    <3>3. QED
      BY <2>1, <3>1, <3>2 DEF n
  <2>3. QED
    BY <2>1, <2>2 DEF LateCalls
<1>3. QED
  BY <1>1, <1>2

LEMMA StartKeeps ==
  ASSUME CbInv, NEW L \in SUBSET Cmds, Hooks \subseteq Seq(L), NEW srv, NEW up \in Seq(Call), NEW b, NEW aborts, NEW hook \in Hooks,
         LateCalls(up, L), Of(L, b), StartMap(srv, up, b, aborts, hook)
  PROVE  Of(L, buffer') /\ LateCalls(calls', L)
<1>1. ASSUME NEW pc, CallHook(up, pc, b, aborts, hook) PROVE Of(L, buffer') /\ LateCalls(calls', L)
  <2>1. Of(L, buffer') /\ \E k : k.pending = b /\ calls' = Append(up, k)
    BY <1>1, HookKeeps
  <2>2. PICK k : k.pending = b /\ calls' = Append(up, k)
    BY <2>1
  <2>3. Of(L, k.pending)
    BY <2>2
  <2>4. LateCalls(Append(up, k), L)
    BY <2>3, CallsKeep
  <2>5. QED
    BY <2>1, <2>2, <2>4
<1>2. CallHook(up, "end", b, aborts, hook) \/ CallHook(up, "begin", b, aborts, hook)
  BY DEF StartMap
<1>3. QED
  BY <1>1, <1>2

(* A line of each of the three times. *)
LEMMA LineKeeps ==
  ASSUME CbInv, NEW C \in SUBSET Cmds, NEW L \in SUBSET Cmds, FromConfig(C), ComesLate(L, C), LineInv(C, L), hist.added = 0,
         NEW hook \in Hooks, ExecuteLine(hook)
  PROVE  LateAliases(aliases', L) /\ (Starting' \/ Queued(C, L)' \/ Kept(L)')
<1> DEFINE it == Head(buffer)
           b == Tail(buffer)
<1>1. /\ buffer \in Seq(Items) /\ calls \in Seq(Call) /\ ServerOK(server) /\ buffer # <<>> /\ drain /\ ~server.fatal
      /\ UNCHANGED <<drain, boot>> /\ LateAliases(aliases, L)
      /\ RunAlias(it, b) \/ RunExec(it, b) \/ RunPlain(it, b) \/ RunMap(it, b, hook) \/ RunError(it, b, hook) \/ RunUnknown(it, b)
  BY DEF CbInv, Queue, InTurn, Nested, ExecuteLine, LineInv
<1>2. it \in Items /\ b \in Seq(Items) /\ Len(b) = Len(buffer) - 1 /\ Len(buffer) \in Nat /\ it.root \in Nat
  <2>1. it \in Items /\ b \in Seq(Items) /\ Len(b) = Len(buffer) - 1 /\ Len(buffer) \in Nat
    BY <1>1
  <2>2. QED
    BY <2>1 DEF Items
<1>3. Len(b) <= MaxSize
  <2>1. ~(Len(buffer) > MaxSize)
    BY <1>1 DEF CbInv, Sized
  <2>2. QED
    BY <1>2, <2>1, BufferSizes
<1>4. Hooks \subseteq Seq(L)
  BY DEF ComesLate
<1>5. ASSUME it.cmd = SetLine
      PROVE  buffer' = b /\ aliases' = aliases /\ calls' = calls /\ stop' = FALSE /\ setting' = "line" /\ server' = server
  <2>1. it.cmd.do = "set" /\ it.cmd.arg = "line"
    BY <1>5 DEF SetLine
  <2> HIDE DEF it, b
  <2>2. RunPlain(it, b)
    BY <1>1, <2>1 DEF RunAlias, RunExec, RunMap, RunError, RunUnknown, BuiltIn
  <2>3. QED
    BY <2>1, <2>2 DEF RunPlain
<1>6. CASE Starting
  <2>1. boot = 1 /\ buffer = <<Item(SetLine, 0)>> /\ calls = <<>> /\ aliases = <<>> /\ server.state = "ss_dead"
    BY <1>1, <1>6 DEF Starting
  <2>2. it.cmd = SetLine /\ b = <<>>
    BY <2>1 DEF Item
  <2>3. buffer' = <<>> /\ aliases' = <<>> /\ calls' = <<>> /\ stop' = FALSE /\ boot' = 1 /\ aliases' = aliases
        /\ server'.state = "ss_dead"
    BY <1>1, <1>5, <2>1, <2>2
  <2>4. Starting'
    BY <2>3 DEF Starting
  <2>5. QED
    BY <1>1, <2>3, <2>4
<1>7. CASE Queued(C, L)
  <2>1. boot \in 2 .. 4 /\ boot' \in 2 .. 4 /\ calls = <<>> /\ server.state = "ss_dead" /\ ConfigAliases(aliases, C)
        /\ ((it.cmd = SetLine /\ Of(L, b)) \/ (it.cmd \in C /\ SetIn(b, C, L)))
    BY <1>1, <1>7, SetComes DEF Queued
  <2>2. CASE it.cmd = SetLine /\ Of(L, b)
    <3>1. buffer' = b /\ aliases' = aliases /\ calls' = <<>> /\ setting' = "line"
      BY <1>5, <2>1, <2>2
    <3>2. 1 .. Len(calls') = {}
      BY <3>1
    <3>3. Kept(L)'
      BY <2>1, <2>2, <3>1, <3>2 DEF Kept
    <3>4. QED
      BY <1>1, <3>1, <3>3
  <2>3. CASE it.cmd \in C /\ SetIn(b, C, L)
    <3>1. it.cmd.do # "map"
      BY <2>3 DEF FromConfig
    <3>2. ASSUME calls' = <<>>, server'.state = "ss_dead", LateAliases(aliases', L), ConfigAliases(aliases', C), \E f \in Seq(Items) : Of(C, f) /\ buffer' = f \o b
          PROVE  LateAliases(aliases', L) /\ Queued(C, L)'
      <4>1. SetIn(buffer', C, L)
        BY <1>2, <2>3, <3>2, SetStays
      <4>2. QED
        BY <2>1, <3>2, <4>1 DEF Queued
    <3>3. <<>> \in Seq(Items) /\ <<>> \o b = b /\ Of(C, <<>>)
      <4>1. <<>> \in Seq(Items) /\ <<>> \o b = b
        BY <1>2
      <4>2. QED
        BY <4>1, OfJoined
    <3>4. <<>> \in Seq(C)
      OBVIOUS
    <3> HIDE DEF it, b
    <3>5. ASSUME NEW t, Insert(b, t) PROVE server'.state = "ss_dead"
      BY <1>1, <2>1, <3>5 DEF Insert, Fatal, ServerOK
    <3>6. CASE RunAlias(it, b)
      <4>1. it.cmd.do \in DOMAIN aliases /\ UNCHANGED <<calls, aliases>>
        BY <3>6 DEF RunAlias
      <4>2. aliases[it.cmd.do] \in Seq(C)
        BY <2>1, <4>1 DEF ConfigAliases
      <4>3. Insert(b, Text(aliases[it.cmd.do], it.root)) \/ (buffer' = b /\ UNCHANGED server)
        BY <3>6 DEF RunAlias
      <4>4. \E f \in Seq(Items) : Of(C, f) /\ buffer' = f \o b
        BY <1>1, <1>2, <1>3, <4>2, <4>3, PutIn
      <4>5. server'.state = "ss_dead"
        BY <2>1, <3>5, <4>3
      <4>6. QED
        BY <1>1, <2>1, <3>2, <4>1, <4>4, <4>5
    <3>7. CASE RunExec(it, b)
      <4>1. UNCHANGED <<calls, aliases>>
        BY <3>7 DEF RunExec
      <4>2. CASE buffer' = b /\ UNCHANGED server
        BY <1>1, <2>1, <3>2, <3>3, <4>1, <4>2
      <4>3. CASE it.cmd.arg \in DOMAIN Files /\ Insert(b, Text(Files[it.cmd.arg], it.root))
        <5>1. it.cmd.do = "exec"
          BY <3>7 DEF RunExec
        <5>2. Files[it.cmd.arg] \in Seq(C)
          BY <2>3, <4>3, <5>1 DEF FromConfig
        <5>3. \E f \in Seq(Items) : Of(C, f) /\ buffer' = f \o b
          BY <1>1, <1>2, <1>3, <4>3, <5>2, PutIn
        <5>4. server'.state = "ss_dead"
          BY <3>5, <4>3
        <5>5. QED
          BY <1>1, <2>1, <3>2, <4>1, <5>3, <5>4
      <4>4. QED
        BY <3>7, <4>2, <4>3 DEF RunExec
    <3>8. CASE RunPlain(it, b)
      <4>1. calls' = calls /\ buffer' = b /\ (server' = server \/ server' = Dead)
        BY <3>8 DEF RunPlain
      <4>2. LateAliases(aliases', L) /\ ConfigAliases(aliases', C)
        BY <1>1, <1>2, <2>1, <2>3, <3>8, AliasesKeep
      <4>3. server'.state = "ss_dead"
        BY <1>1, <2>1, <4>1 DEF Dead, ServerOK
      <4>4. QED
        BY <2>1, <3>2, <3>3, <4>1, <4>2, <4>3
    <3>9. CASE RunUnknown(it, b)
      BY <1>1, <2>1, <3>2, <3>3, <3>9 DEF RunUnknown
    <3>10. CASE RunError(it, b, hook)
      <4>1. aliases' = aliases
        BY <3>10 DEF RunError
      <4>2. calls' = <<>> /\ buffer' = b /\ (Fatal \/ server' = Dead)
        BY <2>1, <3>10 DEF RunError
      <4>3. server'.state = "ss_dead"
        BY <1>1, <2>1, <4>2 DEF Fatal, Dead, ServerOK
      <4>4. QED
        BY <1>1, <2>1, <3>2, <3>3, <4>1, <4>2, <4>3
    <3>11. ~RunMap(it, b, hook)
      BY <3>1 DEF RunMap
    <3>12. QED
      BY <1>1, <3>6, <3>7, <3>8, <3>9, <3>10, <3>11
  <2>4. QED
    BY <2>1, <2>2, <2>3
<1>8. CASE Kept(L)
  <2>1. boot' \in 2 .. 4 /\ setting = "line" /\ LateCalls(calls, L) /\ it.cmd \in L /\ Of(L, b)
    <3>1. boot \in 2 .. 4 /\ setting = "line" /\ Of(L, buffer) /\ LateCalls(calls, L)
      BY <1>8 DEF Kept, LateCalls
    <3>2. QED
      BY <1>1, <3>1, OfJoined
  <2>2. ASSUME setting' = "line", LateCalls(calls', L), Of(L, buffer'), LateAliases(aliases', L)
        PROVE  LateAliases(aliases', L) /\ Kept(L)'
    BY <2>1, <2>2 DEF Kept, LateCalls
  <2>3. ASSUME \E f \in Seq(Items) : Of(L, f) /\ buffer' = f \o b
        PROVE  Of(L, buffer')
    BY <1>2, <2>1, <2>3, OfJoined
  <2> HIDE DEF it, b
  <2>4. CASE RunAlias(it, b)
    <3>1. it.cmd.do \in DOMAIN aliases /\ it.cmd.do \notin BuiltIn /\ UNCHANGED <<calls, aliases, setting>>
      BY <2>4 DEF RunAlias
    <3>2. aliases[it.cmd.do] \in Seq(L)
      BY <1>1, <2>1, <3>1 DEF LateAliases, Called
    <3>3. Insert(b, Text(aliases[it.cmd.do], it.root)) \/ buffer' = b
      BY <2>4 DEF RunAlias
    <3>4. Of(L, buffer')
      BY <1>1, <1>2, <1>3, <2>3, <3>2, <3>3, PutIn
    <3>5. QED
      BY <1>1, <2>1, <2>2, <3>1, <3>4
  <2>5. CASE RunExec(it, b)
    <3>1. UNCHANGED <<calls, aliases, setting>>
      BY <2>5 DEF RunExec
    <3>2. CASE buffer' = b
      BY <1>1, <2>1, <2>2, <3>1, <3>2
    <3>3. CASE it.cmd.arg \in DOMAIN Files /\ Insert(b, Text(Files[it.cmd.arg], it.root))
      <4>1. it.cmd.do = "exec"
        BY <2>5 DEF RunExec
      <4>2. Files[it.cmd.arg] \in Seq(L)
        BY <2>1, <3>3, <4>1 DEF ComesLate
      <4>3. Of(L, buffer')
        BY <1>1, <1>2, <1>3, <2>3, <3>3, <4>2, PutIn
      <4>4. QED
        BY <1>1, <2>1, <2>2, <3>1, <4>3
    <3>4. QED
      BY <2>5, <3>2, <3>3 DEF RunExec
  <2>6. CASE RunPlain(it, b)
    <3>1. calls' = calls /\ buffer' = b /\ setting' = (IF it.cmd.do = "set" THEN it.cmd.arg ELSE setting)
      BY <2>6 DEF RunPlain
    <3>2. LateAliases(aliases', L)
      BY <1>1, <1>2, <2>1, <2>6, AliasesKeep
    <3>3. setting' = "line"
      <4>1. it.cmd.do = "set" => it.cmd = SetLine
        BY <2>1 DEF ComesLate
      <4>2. QED
        BY <2>1, <3>1, <4>1 DEF SetLine
    <3>4. QED
      BY <2>1, <2>2, <3>1, <3>2, <3>3
  <2>7. CASE RunUnknown(it, b)
    BY <1>1, <2>1, <2>2, <2>7 DEF RunUnknown
  <2>8. CASE RunMap(it, b, hook)
    <3>1. StartMap(server, calls, b, FALSE, hook) /\ UNCHANGED <<aliases, setting>>
      BY <2>8 DEF RunMap
    <3>2. Of(L, buffer') /\ LateCalls(calls', L)
      BY <1>1, <1>4, <2>1, <3>1, StartKeeps
    <3>3. QED
      BY <1>1, <2>1, <2>2, <3>1, <3>2
  <2>9. CASE RunError(it, b, hook)
    <3>1. UNCHANGED <<aliases, setting>>
      BY <2>9 DEF RunError
    <3>2. CASE calls' = calls /\ buffer' = b
      BY <1>1, <2>1, <2>2, <3>1, <3>2
    <3>3. CASE StartMap([Dead EXCEPT !.recursive = TRUE], calls, b, TRUE, hook)
      <4>1. Of(L, buffer') /\ LateCalls(calls', L)
        BY <1>1, <1>4, <2>1, <3>3, StartKeeps
      <4>2. QED
        BY <1>1, <2>1, <2>2, <3>1, <4>1
    <3>4. CASE calls' = <<>> /\ buffer' = b
      <4>1. 1 .. Len(<<>>) = {}
        OBVIOUS
      <4>2. LateCalls(calls', L)
        BY <3>4, <4>1 DEF LateCalls
      <4>3. QED
        BY <1>1, <2>1, <2>2, <3>1, <3>4, <4>2
    <3>5. QED
      BY <2>9, <3>2, <3>3, <3>4 DEF RunError
  <2>10. QED
    BY <1>1, <2>4, <2>5, <2>6, <2>7, <2>8, <2>9
<1>9. QED
  BY <1>6, <1>7, <1>8 DEF LineInv

(* What the hook that ends leaves is late, too. *)
LEMMA EndKeeps ==
  ASSUME CbInv, NEW C \in SUBSET Cmds, NEW L \in SUBSET Cmds, ComesLate(L, C), LineInv(C, L), hist.added = 0,
         NEW hook \in Hooks, EndHook(hook)
  PROVE  hist'.added = 0 /\ LateAliases(aliases', L) /\ Kept(L)'
<1> DEFINE top == Last(calls)
           up == Front(calls)
           p == top.pending
           r == InsertText(buffer, p)
           b == IF p = <<>> THEN buffer ELSE r.buf
<1>1. buffer \in Seq(Items) /\ calls \in Seq(Call) /\ calls # <<>> /\ hist \in Histories /\ Hooks \subseteq Seq(L)
      /\ UNCHANGED <<aliases, setting, boot>> /\ LateAliases(aliases, L)
  BY DEF CbInv, Queue, InTurn, Nested, History, EndHook, LineInv, ComesLate
<1>2. boot \in 2 .. 4 /\ setting = "line" /\ Of(L, buffer) /\ LateCalls(calls, L)
  BY <1>1 DEF LineInv, Starting, Queued, Kept, LateCalls
<1>3. top \in Call /\ up \in Seq(Call) /\ Of(L, p) /\ LateCalls(up, L)
  <2>1. Len(calls) \in 1 .. Len(calls) /\ top = calls[Len(calls)]
    BY <1>1 DEF Last
  <2>2. Of(L, Last(calls).pending) /\ LateCalls(Front(calls), L) /\ Front(calls) \in Seq(Call)
    BY <1>1, <1>2, CallsKeep
  <2>3. QED
    BY <1>1, <2>1, <2>2
<1>4. p \in Seq(Items)
  BY <1>3 DEF Call
<1>5. Of(L, b)
  <2> DEFINE f == AddText(<<>>, p)
  <2>1. (f = <<>> \/ f = p) /\ f \in Seq(Items)
    BY <1>4, FirstTextIs
  <2>2. r.buf = f \o buffer
    BY DEF InsertText
  <2> HIDE DEF f, p, r
  <2>3. Of(L, f)
    BY <1>3, <2>1, OfJoined
  <2>4. Of(L, f \o buffer)
    BY <1>1, <1>2, <2>1, <2>3, OfJoined
  <2>5. QED
    BY <1>2, <2>2, <2>4
<1>6. hist'.added = 0
  BY <1>1 DEF EndHook, Histories
<1>7. Of(L, buffer') /\ LateCalls(calls', L)
  <2>1. CASE r.fatal
    <3>1. UNCHANGED <<buffer, calls>>
      BY <2>1 DEF EndHook
    <3>2. QED
      BY <1>2, <3>1
  <2>2. ASSUME NEW pc, CallHook(up, pc, b, top.aborts, hook) PROVE Of(L, buffer') /\ LateCalls(calls', L)
    <3>1. Of(L, buffer') /\ \E k : k.pending = b /\ calls' = Append(up, k)
      <4> HIDE DEF b, up, top
      <4>1. QED
        BY <1>1, <2>2, HookKeeps
    <3> HIDE DEF b, up
    <3>2. QED
      BY <1>3, <1>5, <3>1, CallsKeep
  <2>3. CASE ~r.fatal /\ top.pc = "end"
    <3>1. CallHook(up, "begin", b, top.aborts, hook)
      BY <2>3 DEF EndHook
    <3>2. QED
      BY <2>2, <3>1
  <2>4. CASE ~r.fatal /\ top.pc = "begin" /\ ~Abandoned
    <3>1. CallHook(up, "post", b, top.aborts, hook)
      BY <2>4 DEF EndHook
    <3>2. QED
      BY <2>2, <3>1
  <2>5. CASE ~r.fatal /\ top.pc # "end" /\ ~(top.pc = "begin" /\ ~Abandoned)
    <3>1. buffer' = b /\ calls' = (IF top.aborts THEN <<>> ELSE up)
      BY <2>5 DEF EndHook
    <3>2. LateCalls(<<>>, L)
      <4>1. 1 .. Len(<<>>) = {}
        OBVIOUS
      <4>2. QED
        BY <4>1 DEF LateCalls
    <3> HIDE DEF b, up, top
    <3>3. QED
      BY <1>3, <1>5, <3>1, <3>2
  <2>6. QED
    BY <2>1, <2>3, <2>4, <2>5
<1>8. QED
  BY <1>1, <1>2, <1>6, <1>7 DEF Kept, LateCalls

(* The texts of the start. *)
LEMMA BootKeeps ==
  ASSUME CbInv, NEW C \in SUBSET Cmds, NEW L \in SUBSET Cmds, FromConfig(C), ComesLate(L, C), LineInv(C, L), hist.added = 0, Boot
  PROVE  LateAliases(aliases', L) /\ (Starting' \/ Queued(C, L)' \/ Kept(L)')
<1>1. boot < 4 /\ ~drain /\ ~server.fatal /\ UNCHANGED <<stop, aliases, calls, server, setting, hist>>
      /\ buffer' = AddText(buffer, Text(BootText(boot), 0)) /\ boot' = boot + 1 /\ drain' = TRUE
  BY DEF Boot
<1>2. calls = <<>> /\ buffer \in Seq(Items) /\ LateAliases(aliases, L)
  BY <1>1, Idle DEF LineInv
<1>3. CASE Starting
  <2>1. buffer = <<>> /\ aliases = <<>> /\ ~stop /\ (boot = 0 \/ boot = 1) /\ server.state = "ss_dead"
    BY <1>1, <1>3 DEF Starting
  <2>2. MaxSize \in Nat /\ MaxSize > 2
    BY BufferSizes
  <2>3. CASE boot = 0
    <3>1. BootText(0) = <<SetLine>>
      BY DEF BootText, EarlyCommands, SetLine
    <3>2. Text(<<SetLine>>, 0) = <<Item(SetLine, 0)>>
      BY DEF Text
    <3>3. buffer' = <<Item(SetLine, 0)>>
      <4> DEFINE i == Item(SetLine, 0)
      <4>1. buffer' = AddText(<<>>, <<i>>)
        BY <1>1, <2>1, <2>3, <3>1, <3>2
      <4> HIDE DEF i
      <4>2. Len(<<>>) = 0 /\ Len(<<i>>) = 1 /\ <<>> \o <<i>> = <<i>>
        OBVIOUS
      <4>3. QED
        BY <2>2, <4>1, <4>2 DEF AddText, i
    <3>4. Starting'
      BY <1>1, <1>2, <2>1, <2>3, <3>3 DEF Starting
    <3>5. QED
      BY <1>1, <1>2, <3>4
  <2>4. CASE boot = 1
    <3> DEFINE e == [do |-> "exec", arg |-> "config"]
               x == Item(e, 0)
               y == Item(SetLine, 0)
    <3>1. BootText(1) = <<e, SetLine>>
      <4>1. BootText(1) = <<e>> \o <<SetLine>>
        BY DEF BootText, EarlyCommands, SetLine
      <4>2. ASSUME NEW c \in Cmds, NEW d \in Cmds PROVE <<c>> \o <<d>> = <<c, d>>
        <5> DEFINE f == <<c>> \o <<d>>
                   g == <<c, d>>
        <5>1. f \in Seq(Cmds) /\ Len(f) = 2 /\ f[1] = c /\ f[2] = d
          OBVIOUS
        <5>2. g \in Seq(Cmds) /\ Len(g) = 2 /\ g[1] = c /\ g[2] = d
          OBVIOUS
        <5> HIDE DEF f, g
        <5>3. \A i \in 1 .. 2 : f[i] = g[i]
          BY <5>1, <5>2
        <5>4. f = g
          BY <5>1, <5>2, <5>3, SeqEqual
        <5>5. QED
          BY <5>4 DEF f, g
      <4>3. e \in Cmds /\ SetLine \in Cmds
        BY CommandTexts DEF SetLine
      <4> HIDE DEF e
      <4>4. QED
        BY <4>1, <4>2, <4>3
    <3>2. Text(<<e, SetLine>>, 0) = <<x, y>>
      BY DEF Text
    <3>3. e \in C /\ x.cmd = e /\ y.cmd = SetLine
      BY DEF FromConfig, Item
    <3>4. buffer' = <<x, y>>
      <4>1. buffer' = AddText(<<>>, <<x, y>>)
        BY <1>1, <2>1, <2>4, <3>1, <3>2
      <4> HIDE DEF x, y
      <4>2. Len(<<>>) = 0 /\ Len(<<x, y>>) = 2 /\ <<>> \o <<x, y>> = <<x, y>>
        OBVIOUS
      <4>3. QED
        BY <2>2, <4>1, <4>2 DEF AddText
    <3>5. SetIn(buffer', C, L)
      <4> HIDE DEF x, y, e
      <4>1. Len(buffer') = 2 /\ buffer'[1] = x /\ buffer'[2] = y /\ 1 .. 2 = {1, 2} /\ 2 \in 1 .. 2
        BY <3>4
      <4>2. \A i \in 1 .. 2 : (i < 2 => i = 1) /\ ~(i > 2)
        OBVIOUS
      <4>3. QED
        BY <3>3, <4>1, <4>2 DEF SetIn
    <3>6. ConfigAliases(aliases', C)
      <4>1. DOMAIN aliases = {}
        BY <2>1
      <4>2. QED
        BY <1>1, <4>1 DEF ConfigAliases
    <3>7. Queued(C, L)'
      BY <1>1, <1>2, <2>1, <2>4, <3>5, <3>6 DEF Queued
    <3>8. QED
      BY <1>1, <1>2, <3>7
  <2>5. QED
    BY <2>1, <2>3, <2>4
<1>4. CASE boot \in 2 .. 4
  <2> DEFINE t == Text(BootText(boot), 0)
  <2>1. t \in Seq(Items) /\ Of(L, t)
    <3>1. BootText(boot) \in Seq(L)
      <4>1. Do("map") \in L /\ (boot = 2 \/ boot = 3)
        BY <1>1, <1>4 DEF ComesLate
      <4>2. <<Do("map")>> \in Seq(L) /\ <<>> \in Seq(L)
        BY <4>1
      <4>3. QED
        BY <4>1, <4>2 DEF BootText
    <3>2. QED
      BY <3>1, OfText
  <2>2. buffer' = AddText(buffer, t) /\ boot' \in 2 .. 4
    BY <1>1, <1>4
  <2> HIDE DEF t
  <2>3. buffer' = buffer \/ buffer' = buffer \o t
    BY <1>2, <2>1, <2>2, AddTextIs
  <2>4. CASE Queued(C, L)
    <3>1. SetIn(buffer, C, L) /\ ConfigAliases(aliases, C) /\ server.state = "ss_dead"
      BY <2>4 DEF Queued
    <3>2. SetIn(buffer', C, L)
      BY <1>2, <2>1, <2>3, <3>1, SetStays
    <3>3. Queued(C, L)'
      BY <1>1, <1>2, <2>2, <3>1, <3>2 DEF Queued
    <3>4. QED
      BY <1>1, <1>2, <3>3
  <2>5. CASE Kept(L)
    <3>1. setting = "line" /\ Of(L, buffer) /\ LateCalls(calls, L)
      BY <2>5 DEF Kept, LateCalls
    <3>2. Of(L, buffer')
      BY <1>2, <2>1, <2>3, <3>1, OfJoined
    <3>3. Kept(L)'
      BY <1>1, <2>2, <3>1, <3>2 DEF Kept, LateCalls
    <3>4. QED
      BY <1>1, <1>2, <3>3
  <2>6. QED
    BY <1>4, <2>4, <2>5 DEF LineInv, Starting
<1>5. QED
  BY <1>3, <1>4 DEF LineInv, Queued, Kept

LEMMA LineStep ==
  ASSUME NEW C \in SUBSET Cmds, NEW L \in SUBSET Cmds, FromConfig(C), ComesLate(L, C)
  PROVE  CbInv /\ LineInv(C, L) /\ [CbNext]_cbVars => LineInv(C, L)'
<1> SUFFICES ASSUME CbInv, LineInv(C, L), [CbNext]_cbVars, hist'.added = 0
             PROVE  LateAliases(aliases', L) /\ (Starting' \/ Queued(C, L)' \/ Kept(L)')
  BY DEF LineInv
<1>1. hist \in Histories /\ hist.added \in Nat
  BY DEF CbInv, Queue, History, Histories
<1>2. CASE UNCHANGED cbVars
  <2>1. UNCHANGED <<buffer, drain, stop, aliases, calls, server, setting, boot, hist>>
    BY <1>2 DEF cbVars
  <2>2. QED
    BY <2>1 DEF LineInv, Starting, Queued, Kept
<1>3. ASSUME NEW cs \in Lines, AddLine(cs) PROVE FALSE
  BY <1>1, <1>3 DEF AddLine, Histories
<1>4. CASE Boot
  <2>1. hist' = hist
    BY <1>4 DEF Boot
  <2>2. QED
    BY <1>4, <2>1, BootKeeps
<1>5. CASE Execute \/ EndDrain
  <2>1. UNCHANGED <<buffer, aliases, calls, server, setting, boot, hist>>
    BY <1>5 DEF Execute, EndDrain
  <2>2. CASE Starting
    <3>1. EndDrain /\ drain
      BY <1>5, <2>2 DEF Execute, EndDrain, DrainDone, Starting
    <3>2. buffer = <<>> /\ ~drain' /\ ~stop'
      BY <2>2, <3>1 DEF EndDrain, DrainDone, Starting
    <3>3. QED
      BY <2>1, <2>2, <3>2 DEF Starting, LineInv
  <2>3. QED
    BY <2>1, <2>2 DEF LineInv, Queued, Kept
<1>6. ASSUME NEW h \in Hooks, ExecuteLine(h) PROVE LateAliases(aliases', L) /\ (Starting' \/ Queued(C, L)' \/ Kept(L)')
  <2>1. hist'.added = hist.added
    BY <1>1, <1>6 DEF ExecuteLine, Histories
  <2>2. QED
    BY <1>6, <2>1, LineKeeps
<1>7. ASSUME NEW h \in Hooks, EndHook(h) PROVE LateAliases(aliases', L) /\ (Starting' \/ Queued(C, L)' \/ Kept(L)')
  <2>1. hist'.added = hist.added
    BY <1>1, <1>7 DEF EndHook, Histories
  <2>2. QED
    BY <1>7, <2>1, EndKeeps
<1>8. QED
  BY <1>2, <1>3, <1>4, <1>5, <1>6, <1>7 DEF CbNext

(* Once the server has started, and before the console adds a line, a variable that the command line *)
(* sets has that value, whatever waits, aliases and files the config file puts into the buffer, and  *)
(* whatever the first map and its hooks do there, except that they themselves set it again           *)
(* (Qcommon_Init, common.c:2637-2660).                                                               *)
THEOREM LineSettingsWin ==
  ASSUME NEW C \in SUBSET Cmds, NEW L \in SUBSET Cmds, FromConfig(C), ComesLate(L, C)
  PROVE  CbSpec => DrainsAreSound
<1>1. CbInit => CbInv /\ LineInv(C, L)
  <2> SUFFICES ASSUME CbInit PROVE CbInv /\ LineInv(C, L)
    OBVIOUS
  <2>1. boot = 0 /\ buffer = <<>> /\ ~drain /\ ~stop /\ calls = <<>> /\ aliases = <<>> /\ server.state = "ss_dead"
    BY DEF CbInit
  <2>2. DOMAIN aliases = {}
    BY <2>1
  <2>3. QED
    BY <2>1, <2>2, CbStarts DEF LineInv, Starting, LateAliases
<1>2. CbInv /\ LineInv(C, L) /\ [CbNext]_cbVars => CbInv' /\ LineInv(C, L)'
  BY CbStep, LineStep
<1>3. CbInv /\ LineInv(C, L) => CbTypeOK /\ NoLineForgotten /\ LevelHasServer /\ CommandLineWins
  <2>1. 1 .. Len(<<>>) = {}
    OBVIOUS
  <2>2. LineInv(C, L) => CommandLineWins
    BY <2>1 DEF LineInv, Starting, Queued, Kept, SetIn, CommandLineWins
  <2>3. QED
    BY <2>2, CbHolds
<1>4. CbSpec => HooksRunAlone /\ LinesInOrder
  BY DrainsHold DEF LinesAreKept
<1>5. QED
  BY <1>1, <1>2, <1>3, <1>4, PTL DEF CbSpec, DrainsAreSound

-----------------------------------------------------------------------------
(* UserMoves *)
(* What holds of 0 and is passed on holds up to N. *)
LEMMA StepByStep ==
  ASSUME NEW N \in Nat, NEW P \in [0 .. N -> BOOLEAN], P[0], \A i \in 1 .. N : P[i-1] => P[i]
  PROVE  \A i \in 0 .. N : P[i]
<1> DEFINE Bad == {i \in 0 .. N : ~P[i]}
<1>1. SUFFICES ASSUME Bad # {} PROVE FALSE
  OBVIOUS
<1>2. Bad \in SUBSET Nat
  OBVIOUS
<1>3. PICK i \in Bad : \A j \in Bad : i <= j
  <2> HIDE DEF Bad
  <2>1. QED
    BY <1>1, <1>2, LeastOf
<1>4. i \in 1 .. N /\ ~P[i] /\ i - 1 \in 0 .. N /\ ~(i <= i - 1)
  BY <1>3
<1>5. P[i-1]
  BY <1>3, <1>4
<1>6. QED
  BY <1>4, <1>5

(* A function defined by recursion over 0 .. N exists: f[i] is what the i-th step makes of f[i-1]. *)
Recurs(f, N, D, a, s) == f \in [0 .. N -> D] /\ f[0] = a /\ \A i \in 1 .. N : f[i] = s[i][f[i-1]]
LEMMA Recursion ==
  ASSUME NEW N \in Nat, NEW D, NEW a \in D, NEW s \in [1 .. N -> [D -> D]]
  PROVE  \E f : Recurs(f, N, D, a, s)
<1> DEFINE Reaches(n, f) == f \in [0 .. n -> D] /\ f[0] = a /\ \A i \in 1 .. n : f[i] = s[i][f[i-1]]
           P == [n \in 0 .. N |-> \E f : Reaches(n, f)]
<1>1. P \in [0 .. N -> BOOLEAN]
  OBVIOUS
<1>2. P[0]
  <2>1. Reaches(0, [i \in 0 .. 0 |-> a])
    OBVIOUS
  <2>2. 0 \in 0 .. N
    OBVIOUS
  <2>3. QED
    BY <2>1, <2>2
<1>3. ASSUME NEW n \in 1 .. N, P[n-1] PROVE P[n]
  <2>1. n - 1 \in 0 .. N /\ n \in 0 .. N /\ n \in Nat /\ n # 0
    OBVIOUS
  <2>2. PICK f : Reaches(n - 1, f)
    BY <1>3, <2>1
  <2> DEFINE g == [i \in 0 .. n |-> IF i = n THEN s[n][f[n-1]] ELSE f[i]]
  <2>3. n \in 1 .. N /\ n - 1 \in 0 .. n - 1
    BY <2>1
  <2>4. s[n] \in [D -> D] /\ f[n-1] \in D
    BY <2>2, <2>3
  <2>5. g \in [0 .. n -> D]
    <3>1. ASSUME NEW i \in 0 .. n PROVE (IF i = n THEN s[n][f[n-1]] ELSE f[i]) \in D
      <4>1. i # n => i \in 0 .. n - 1
        BY <2>1
      <4>2. QED
        BY <2>2, <2>4, <4>1
    <3>2. QED
      BY <3>1
  <2>6. g[0] = a
    <3>1. 0 \in 0 .. n /\ 0 # n
      BY <2>1
    <3>2. QED
      BY <2>2, <3>1
  <2>7. ASSUME NEW i \in 1 .. n PROVE g[i] = s[i][g[i-1]]
    <3>1. i \in 0 .. n /\ i - 1 \in 0 .. n /\ i - 1 # n /\ (i # n => i \in 1 .. n - 1)
      BY <2>1
    <3>2. g[i-1] = f[i-1]
      BY <3>1
    <3>3. g[i] = IF i = n THEN s[n][f[n-1]] ELSE f[i]
      BY <3>1
    <3>4. QED
      BY <2>2, <3>1, <3>2, <3>3
  <2>8. Reaches(n, g)
    BY <2>5, <2>6, <2>7
  <2>9. QED
    BY <2>1, <2>8
<1>4. P[N]
  <2> HIDE DEF P
  <2>1. QED
    BY <1>1, <1>2, <1>3, StepByStep
<1>5. QED
  BY <1>4 DEF Recurs

LEMMA MinOfTwo ==
  ASSUME NEW a \in Int, NEW b \in Int
  PROVE  Min({a, b}) = (IF a <= b THEN a ELSE b)
<1>1. \E x \in {a, b} : \A y \in {a, b} : x <= y
  OBVIOUS
<1>2. Min({a, b}) \in {a, b} /\ \A y \in {a, b} : Min({a, b}) <= y
  BY <1>1 DEF Min
<1>3. QED
  BY <1>2

Command == [n : Nat, ms : Nat]
Account == [left : Int, used : Nat, done : Nat]
(* The account of a client, as long as it is not overdrawn, has what it was not moved for. *)
Accounted(left, done) == done <= Budget /\ (left >= 0 => done + left <= Budget)
UmTypes ==
  /\ curtime \in Nat /\ sent \in Seq(Nat) /\ sentAt \in Nat /\ net \in SUBSET [n : Nat, at : Nat] /\ incoming \in Nat
  /\ lastReceived \in Nat /\ moved \in BOOLEAN /\ umPaused \in BOOLEAN /\ netdrop \in Nat /\ predict \in BOOLEAN
  /\ lastMsec \in Nat /\ totalUsed \in Nat /\ initialTime \in Nat /\ commandMsec \in Int /\ umKicked \in BOOLEAN
  /\ ran \in Seq(Nat) /\ movedMs \in Nat /\ accepted \in SUBSET Nat /\ waived \in SUBSET Nat /\ gapRun \in BOOLEAN

LEMMA ChargeIs ==
  ASSUME NEW acc \in Account, NEW c \in Command
  PROVE  /\ Charge(acc, c) \in Account /\ Charge(acc, c).used = acc.used + c.ms
         /\ Accounted(acc.left, acc.done) => Accounted(Charge(acc, c).left, Charge(acc, c).done)
<1> DEFINE l == acc.left - c.ms
           u == acc.used + c.ms
           d == acc.done + IF l < 0 THEN 0 ELSE c.ms
<1>1. acc.left \in Int /\ acc.used \in Nat /\ acc.done \in Nat /\ c.ms \in Nat /\ Budget \in Nat
  BY UmAssumption DEF Account, Command
<1>2. l \in Int /\ u \in Nat /\ d \in Nat
  BY <1>1
<1>3. Charge(acc, c) = [left |-> l, used |-> u, done |-> d]
  BY DEF Charge
<1>4. Accounted(acc.left, acc.done) => Accounted(l, d)
  BY <1>1 DEF Accounted
<1> HIDE DEF l, u, d
<1>5. Charge(acc, c).left = l /\ Charge(acc, c).used = u /\ Charge(acc, c).done = d /\ Charge(acc, c) \in Account
  BY <1>2, <1>3 DEF Account
<1>6. QED
  BY <1>4, <1>5 DEF u

(* SV_ClientThink charges the commands one after the other. *)
Charged(run, cmds) ==
  /\ run \in [0 .. Len(cmds) -> Account]
  /\ run[0].left = commandMsec /\ run[0].used = totalUsed /\ run[0].done = movedMs
  /\ \A i \in 1 .. Len(cmds) : run[i] = Charge(run[i-1], cmds[i])
LEMMA ThinkIs ==
  ASSUME UmTypes, NEW cmds \in Seq(Command)
  PROVE  \E run : Charged(run, cmds) /\ Think(cmds) = run[Len(cmds)]
<1> DEFINE N == Len(cmds)
           a0 == [left |-> commandMsec, used |-> totalUsed, done |-> movedMs]
           Body(g) == [i \in 0 .. N |-> IF i = 0 THEN a0 ELSE Charge(g[i-1], cmds[i])]
           s == [i \in 1 .. N |-> [acc \in Account |-> Charge(acc, cmds[i])]]
           u == CHOOSE g : g = Body(g)
<1>1. N \in Nat /\ \A i \in 1 .. N : cmds[i] \in Command
  OBVIOUS
<1>2. a0 \in Account /\ a0.left = commandMsec /\ a0.used = totalUsed /\ a0.done = movedMs
  BY DEF UmTypes, Account
<1>3. \A i \in 1 .. N : \A acc \in Account : Charge(acc, cmds[i]) \in Account
  BY <1>1, ChargeIs
<1>4. s \in [1 .. N -> [Account -> Account]]
  BY <1>3
<1>5. Think(cmds) = u[N]
  BY DEF Think
<1> HIDE DEF a0
<1>6. PICK h : Recurs(h, N, Account, a0, s)
  <2> HIDE DEF s, N
  <2>1. QED
    BY <1>1, <1>2, <1>4, Recursion
<1>7. h = Body(h)
  <2>1. h \in [0 .. N -> Account] /\ h[0] = a0 /\ \A i \in 1 .. N : h[i] = s[i][h[i-1]]
    BY <1>6 DEF Recurs
  <2>2. ASSUME NEW i \in 1 .. N PROVE h[i] = Charge(h[i-1], cmds[i])
    <3>1. i - 1 \in 0 .. N
      BY <1>1
    <3>2. h[i-1] \in Account
      BY <2>1, <3>1
    <3>3. QED
      BY <2>1, <3>2
  <2>3. \A i \in 0 .. N : h[i] = IF i = 0 THEN a0 ELSE Charge(h[i-1], cmds[i])
    BY <1>1, <2>1, <2>2
  <2>4. QED
    BY <2>1, <2>3
<1>8. u = Body(u)
  <2> HIDE DEF Body
  <2>1. QED
    BY <1>7
<1> HIDE DEF u, s
<1>9. DOMAIN u = 0 .. N /\ u[0] = a0 /\ \A i \in 1 .. N : u[i] = Charge(u[i-1], cmds[i])
  <2>1. \A i \in 0 .. N : u[i] = IF i = 0 THEN a0 ELSE Charge(u[i-1], cmds[i])
    BY <1>8
  <2>2. 0 \in 0 .. N /\ \A i \in 1 .. N : i \in 0 .. N /\ i # 0
    BY <1>1
  <2>3. QED
    BY <1>8, <2>1, <2>2
<1> HIDE DEF Body, N
<1>10. \A i \in 0 .. N : u[i] \in Account
  <2> DEFINE P == [i \in 0 .. N |-> u[i] \in Account]
  <2>1. P \in [0 .. N -> BOOLEAN]
    OBVIOUS
  <2>1a. \A i \in 0 .. N : P[i] <=> u[i] \in Account
    BY Zenon
  <2>2. P[0]
    BY <1>1, <1>2, <1>9, <2>1a
  <2>3. ASSUME NEW i \in 1 .. N, P[i-1] PROVE P[i]
    <3>1. i \in 0 .. N /\ i - 1 \in 0 .. N
      BY <1>1
    <3>2. QED
      BY <1>3, <1>9, <2>1a, <2>3, <3>1
  <2> HIDE DEF P
  <2>4. QED
    BY <1>1, <2>1, <2>1a, <2>2, <2>3, StepByStep
<1>11. u \in [0 .. N -> Account]
  <2>1. u = [i \in 0 .. N |-> u[i]]
    BY <1>8 DEF Body
  <2>2. QED
    BY <1>10, <2>1
<1>12. Charged(u, cmds)
  BY <1>2, <1>9, <1>11 DEF Charged, N
<1>13. QED
  BY <1>5, <1>12 DEF N

(* W pieces of 100 ms and a rest, which is what the last command is repeated in. *)
Piece(ms) == [n |-> 0, ms |-> ms]
Pieces(s, W, r) == s = [i \in 1 .. W |-> Piece(4)] \o (IF r = 0 THEN <<>> ELSE <<Piece(r)>>)
LEMMA RepeatsIs ==
  ASSUME UmTypes, NEW drop \in Nat, NEW new \in Nat, NEW old \in Nat, NEW oldest \in Nat
  PROVE  /\ Repeats(drop, new, old, oldest) \in Seq(Command)
         /\ Repeats(drop, new, old, oldest) # <<>> =>
              /\ drop > 2
              /\ \E W \in Nat, r \in Nat :
                   /\ Pieces(Repeats(drop, new, old, oldest), W, r)
                   /\ 4 * W + r <= curtime - initialTime - totalUsed - new - old - oldest
<1> DEFINE gap == curtime - initialTime - totalUsed - new - old - oldest
           k == (drop - 2) * (lastMsec + oldest)
           h == k \div 2
           msec == Min({h, gap})
           W == msec \div 4
           r == msec % 4
           S == [i \in 1 .. W |-> Piece(4)] \o (IF r = 0 THEN <<>> ELSE <<Piece(r)>>)
<1>1. gap \in Int /\ k \in Int
  BY DEF UmTypes
<1>2. Repeats(drop, new, old, oldest) = IF drop <= 2 \/ initialTime = 0 \/ msec <= 0 THEN <<>> ELSE S
  BY DEF Repeats, RepeatCap, Piece
<1> HIDE DEF k, gap
<1>3. h \in Int
  BY <1>1
<1> HIDE DEF h
<1>4. msec \in Int /\ msec <= gap
  BY <1>1, <1>3, MinOfTwo
<1> HIDE DEF msec
<1>5. CASE msec > 0
  <2>1. W \in Nat /\ r \in Nat /\ 4 * W + r = msec
    BY <1>4, <1>5
  <2> HIDE DEF W, r
  <2>2. Piece(4) \in Command /\ Piece(r) \in Command
    BY <2>1 DEF Piece, Command
  <2>3. [i \in 1 .. W |-> Piece(4)] \in Seq(Command) /\ (IF r = 0 THEN <<>> ELSE <<Piece(r)>>) \in Seq(Command)
    <3>1. \A i \in 1 .. W : Piece(4) \in Command
      BY <2>2
    <3>2. [i \in 1 .. W |-> Piece(4)] \in Seq(Command)
      BY <2>1, <3>1
    <3>3. <<Piece(r)>> \in Seq(Command) /\ <<>> \in Seq(Command)
      BY <2>2
    <3>4. QED
      BY <3>2, <3>3
  <2>4. S \in Seq(Command)
    BY <2>3, ConcatProperties
  <2>5. Pieces(S, W, r) /\ 4 * W + r <= gap
    BY <1>1, <1>4, <2>1 DEF Pieces
  <2>6. drop <= 2 \/ initialTime = 0 => Repeats(drop, new, old, oldest) = <<>>
    BY <1>2
  <2>7. ~(drop <= 2 \/ initialTime = 0) => Repeats(drop, new, old, oldest) = S
    <3>1. ~(msec <= 0)
      BY <1>4, <1>5
    <3> HIDE DEF S
    <3>2. QED
      BY <1>2, <3>1, Zenon
  <2>8. <<>> \in Seq(Command)
    OBVIOUS
  <2> HIDE DEF S
  <2>9. Repeats(drop, new, old, oldest) \in Seq(Command)
    BY <2>4, <2>6, <2>7, <2>8
  <2>10. ASSUME Repeats(drop, new, old, oldest) # <<>> PROVE drop > 2 /\ Repeats(drop, new, old, oldest) = S
    BY <2>6, <2>7, <2>10
  <2>11. QED
    BY <2>1, <2>5, <2>9, <2>10 DEF gap
<1>6. CASE ~(msec > 0)
  <2>1. Repeats(drop, new, old, oldest) = <<>>
    BY <1>2, <1>4, <1>6
  <2>2. QED
    BY <2>1
<1>7. QED
  BY <1>5, <1>6

(* Whatever the packet and the loss, the commands charged leave the account with what was not moved. *)
LEMMA ThinkAccounts ==
  ASSUME UmTypes, Accounted(commandMsec, movedMs), NEW cmds \in Seq(Command)
  PROVE  Think(cmds) \in Account /\ Accounted(Think(cmds).left, Think(cmds).done)
<1> DEFINE N == Len(cmds)
<1>1. PICK run : Charged(run, cmds) /\ Think(cmds) = run[N]
  BY ThinkIs
<1>2. N \in Nat /\ N \in 0 .. N /\ 0 \in 0 .. N /\ \A i \in 1 .. N : i \in 0 .. N /\ i - 1 \in 0 .. N /\ cmds[i] \in Command
  OBVIOUS
<1>3. /\ run \in [0 .. N -> Account] /\ run[0].left = commandMsec /\ run[0].done = movedMs
      /\ \A i \in 1 .. N : run[i] = Charge(run[i-1], cmds[i])
  BY <1>1 DEF Charged
<1> HIDE DEF N
<1> DEFINE Good(a) == Accounted(a.left, a.done)
           P == [i \in 0 .. N |-> Good(run[i])]
<1>4. Good(run[0])
  BY <1>3
<1>5. ASSUME NEW i \in 1 .. N, Good(run[i-1]) PROVE Good(run[i])
  BY <1>2, <1>3, <1>5, ChargeIs
<1> HIDE DEF Good
<1>6. \A i \in 0 .. N : P[i] <=> Good(run[i])
  BY Zenon
<1>7. \A i \in 0 .. N : P[i]
  <2>1. P \in [0 .. N -> BOOLEAN]
    BY Zenon DEF Good, Accounted
  <2>2. P[0] /\ \A i \in 1 .. N : P[i-1] => P[i]
    BY <1>2, <1>4, <1>5, <1>6
  <2> HIDE DEF P
  <2>3. QED
    BY <1>2, <2>1, <2>2, StepByStep
<1>8. Good(run[N]) /\ run[N] \in Account
  BY <1>2, <1>3, <1>6, <1>7
<1>9. QED
  BY <1>1, <1>8 DEF Good

LEMMA OneMore ==
  ASSUME NEW S, NEW s \in Seq(S), NEW c \in S
  PROVE  /\ s \o <<c>> \in Seq(S) /\ Len(s \o <<c>>) = Len(s) + 1
         /\ \A i \in 1 .. Len(s) : (s \o <<c>>)[i] = s[i]
         /\ (s \o <<c>>)[Len(s) + 1] = c
<1>1. <<c>> \in Seq(S) /\ Len(<<c>>) = 1 /\ <<c>>[1] = c
  OBVIOUS
<1>2. /\ s \o <<c>> \in Seq(S) /\ Len(s \o <<c>>) = Len(s) + Len(<<c>>)
      /\ \A i \in 1 .. Len(s) + Len(<<c>>) : (s \o <<c>>)[i] = IF i <= Len(s) THEN s[i] ELSE <<c>>[i - Len(s)]
  BY <1>1, ConcatProperties
<1> DEFINE N == Len(s)
           t == <<c>>
           j == s \o t
<1>3. N \in Nat
  OBVIOUS
<1> HIDE DEF N, t, j
<1>4. Len(j) = N + 1 /\ \A i \in 1 .. N + 1 : j[i] = IF i <= N THEN s[i] ELSE t[i - N]
  BY <1>1, <1>2 DEF N, t, j
<1>5. /\ \A i \in 1 .. N : i \in 1 .. N + 1 /\ i <= N
      /\ N + 1 \in 1 .. N + 1 /\ ~(N + 1 <= N) /\ N + 1 - N = 1
  BY <1>3
<1>6. (\A i \in 1 .. N : j[i] = s[i]) /\ j[N + 1] = t[1]
  <2>1. \A i \in 1 .. N : j[i] = s[i]
    BY <1>4, <1>5
  <2> DEFINE k == N + 1
  <2>2. k \in 1 .. N + 1 /\ ~(k <= N) /\ k - N = 1
    BY <1>3
  <2> HIDE DEF k
  <2>3. j[k] = t[k - N]
    BY <1>4, <2>2
  <2>4. j[k] = t[1]
    BY <2>2, <2>3
  <2>5. QED
    BY <2>1, <2>4 DEF k
<1>7. QED
  BY <1>1, <1>2, <1>6 DEF N, t, j

(* What a packet over a gap charges: the pieces of the repetition and its three commands. *)
LEMMA ThinkAdds ==
  ASSUME UmTypes, NEW again \in Seq(Command), NEW fresh \in Seq(Command), NEW W \in Nat, NEW r \in Nat,
         Pieces(again, W, r), Len(fresh) = 3
  PROVE  Think(again \o fresh).used = totalUsed + 4 * W + r + fresh[1].ms + fresh[2].ms + fresh[3].ms
<1> DEFINE M == Len(again)
           cmds == again \o fresh
<1>1. /\ M = W + (IF r = 0 THEN 0 ELSE 1)
      /\ \A i \in 1 .. W : again[i] = Piece(4)
      /\ r # 0 => again[W + 1] = Piece(r)
  <2> DEFINE A == [i \in 1 .. W |-> Piece(4)]
             B == IF r = 0 THEN <<>> ELSE <<Piece(r)>>
  <2>1. Piece(4) \in Command /\ Piece(r) \in Command
    BY DEF Piece, Command
  <2>2. A \in Seq(Command) /\ B \in Seq(Command) /\ Len(A) = W /\ Len(B) = IF r = 0 THEN 0 ELSE 1
    <3>1. A \in Seq(Command) /\ Len(A) = W
      BY <2>1
    <3>2. B \in Seq(Command) /\ Len(B) = IF r = 0 THEN 0 ELSE 1
      BY <2>1
    <3>3. QED
      BY <3>1, <3>2
  <2>3. \A i \in 1 .. W : A[i] = Piece(4)
    OBVIOUS
  <2>4. r # 0 => B[1] = Piece(r)
    OBVIOUS
  <2>5. again = A \o B
    BY DEF Pieces
  <2> HIDE DEF A, B
  <2>6. /\ Len(again) = W + Len(B)
        /\ \A i \in 1 .. W : again[i] = A[i]
        /\ \A i \in W + 1 .. W + Len(B) : again[i] = B[i - W]
    <3>1. /\ Len(again) = W + Len(B)
          /\ \A i \in 1 .. Len(A) + Len(B) : again[i] = IF i <= Len(A) THEN A[i] ELSE B[i - Len(A)]
      BY <2>2, <2>5, ConcatProperties
    <3> DEFINE b == Len(B)
    <3>2. b \in Nat
      BY <2>2
    <3> HIDE DEF b
    <3>3. /\ \A i \in 1 .. W : i \in 1 .. W + b /\ i <= W
          /\ \A i \in W + 1 .. W + b : i \in 1 .. W + b /\ ~(i <= W)
      BY <3>2
    <3>4. QED
      BY <2>2, <3>1, <3>3 DEF b
  <2>7. r # 0 => W + 1 \in W + 1 .. W + Len(B) /\ W + 1 - W = 1
    BY <2>2
  <2>8. r # 0 => again[W + 1] = B[1]
    BY <2>6, <2>7
  <2>9. QED
    BY <2>2, <2>3, <2>4, <2>6, <2>8
<1>2. /\ cmds \in Seq(Command) /\ Len(cmds) = M + 3 /\ M \in Nat
      /\ \A i \in 1 .. M : cmds[i] = again[i]
      /\ cmds[M + 1] = fresh[1] /\ cmds[M + 2] = fresh[2] /\ cmds[M + 3] = fresh[3]
  <2>1. /\ cmds \in Seq(Command) /\ Len(cmds) = M + 3 /\ M \in Nat
        /\ \A i \in 1 .. M : cmds[i] = again[i]
        /\ \A i \in M + 1 .. M + 3 : cmds[i] = fresh[i - M]
    <3>1. /\ cmds \in Seq(Command) /\ Len(cmds) = Len(again) + Len(fresh)
          /\ \A i \in 1 .. Len(again) + Len(fresh) : cmds[i] = IF i <= Len(again) THEN again[i] ELSE fresh[i - Len(again)]
      BY ConcatProperties
    <3>2. M \in Nat
      OBVIOUS
    <3> HIDE DEF M, cmds
    <3>3. /\ \A i \in 1 .. M : i \in 1 .. M + 3 /\ i <= M
          /\ \A i \in M + 1 .. M + 3 : i \in 1 .. M + 3 /\ ~(i <= M)
      BY <3>2
    <3>4. QED
      BY <3>1, <3>2, <3>3 DEF M
  <2> HIDE DEF M, cmds
  <2>2. /\ M + 1 \in M + 1 .. M + 3 /\ M + 2 \in M + 1 .. M + 3 /\ M + 3 \in M + 1 .. M + 3
        /\ M + 1 - M = 1 /\ M + 2 - M = 2 /\ M + 3 - M = 3
    BY <2>1
  <2>3. QED
    BY <2>1, <2>2
<1> HIDE DEF M, cmds
<1>3. PICK run : Charged(run, cmds) /\ Think(cmds) = run[Len(cmds)]
  BY <1>2, ThinkIs
<1>4. run \in [0 .. M + 3 -> Account] /\ run[0].used = totalUsed /\ \A i \in 1 .. M + 3 : run[i] = Charge(run[i-1], cmds[i])
  BY <1>2, <1>3 DEF Charged
<1>5. \A i \in 1 .. M + 3 : run[i].used = run[i-1].used + cmds[i].ms
  <2> SUFFICES ASSUME NEW i \in 1 .. M + 3 PROVE run[i].used = run[i-1].used + cmds[i].ms
    OBVIOUS
  <2>1. i - 1 \in 0 .. M + 3 /\ cmds[i] \in Command
    BY <1>2
  <2>2. QED
    BY <1>4, <2>1, ChargeIs
<1> DEFINE u == [i \in 0 .. M + 3 |-> run[i].used]
<1>6. /\ \A i \in 0 .. M + 3 : u[i] \in Nat
      /\ u[0] = totalUsed
      /\ \A i \in 1 .. M + 3 : u[i] = u[i-1] + cmds[i].ms
  <2>1. \A i \in 0 .. M + 3 : run[i].used \in Nat
    BY <1>4 DEF Account
  <2>2. 0 \in 0 .. M + 3 /\ \A i \in 1 .. M + 3 : i \in 0 .. M + 3 /\ i - 1 \in 0 .. M + 3
    BY <1>2
  <2>3. QED
    BY <1>4, <1>5, <2>1, <2>2
<1>7. Think(cmds).used = u[M + 3]
  BY <1>2, <1>3
<1> HIDE DEF u
<1>8. u[W] = totalUsed + 4 * W
  <2> DEFINE P == [i \in 0 .. W |-> u[i] = totalUsed + 4 * i]
  <2>1. W <= M /\ 0 \in 0 .. W /\ W \in 0 .. W
    BY <1>1, <1>2
  <2>2. P \in [0 .. W -> BOOLEAN] /\ \A i \in 0 .. W : P[i] <=> u[i] = totalUsed + 4 * i
    OBVIOUS
  <2>3. u[0] = totalUsed + 4 * 0
    BY <1>6 DEF UmTypes
  <2>4. ASSUME NEW i \in 1 .. W, u[i-1] = totalUsed + 4 * (i - 1) PROVE u[i] = totalUsed + 4 * i
    <3>1. i \in 1 .. M /\ i \in 1 .. M + 3
      BY <1>2, <2>1
    <3>2. cmds[i].ms = 4
      BY <1>1, <1>2, <3>1 DEF Piece
    <3>3. u[i] = u[i-1] + 4
      BY <1>6, <3>1, <3>2
    <3>4. QED
      BY <2>4, <3>3 DEF UmTypes
  <2> HIDE DEF P
  <2>5. P[0] /\ \A i \in 1 .. W : P[i-1] => P[i]
    <3>1. \A i \in 1 .. W : i \in 0 .. W /\ i - 1 \in 0 .. W
      OBVIOUS
    <3>2. QED
      BY <2>1, <2>2, <2>3, <2>4, <3>1
  <2>6. P[W]
    BY <2>1, <2>2, <2>5, StepByStep
  <2>7. QED
    BY <2>1, <2>2, <2>6
<1>9. u[M] = totalUsed + 4 * W + r
  <2>1. CASE r = 0
    BY <1>1, <1>8, <2>1 DEF UmTypes
  <2>2. CASE r # 0
    <3>1. M = W + 1 /\ M \in 1 .. M /\ M \in 1 .. M + 3 /\ M - 1 = W
      BY <1>1, <1>2, <2>2
    <3>2. cmds[M].ms = r
      BY <1>1, <1>2, <2>2, <3>1 DEF Piece
    <3>3. QED
      BY <1>6, <1>8, <3>1, <3>2 DEF UmTypes
  <2>3. QED
    BY <2>1, <2>2
<1>10. /\ M + 1 \in 1 .. M + 3 /\ M + 2 \in 1 .. M + 3 /\ M + 3 \in 1 .. M + 3
       /\ M + 1 - 1 = M /\ M + 2 - 1 = M + 1 /\ M + 3 - 1 = M + 2
  BY <1>2
<1>11. u[M + 3] = u[M] + fresh[1].ms + fresh[2].ms + fresh[3].ms
  <2>1. u[M + 1] = u[M] + fresh[1].ms /\ u[M + 2] = u[M + 1] + fresh[2].ms /\ u[M + 3] = u[M + 2] + fresh[3].ms
    BY <1>2, <1>6, <1>10
  <2>2. QED
    BY <2>1
<1>12. QED
  BY <1>7, <1>9, <1>11 DEF cmds

LEMMA MsecIs ==
  ASSUME UmTypes, NEW k \in Int, k <= Len(sent), NEW cap \in Nat, NEW dropped \in Nat
  PROVE  Msec(k) \in Nat /\ MsecOf(k, cap, dropped) \in Nat /\ (~Clamp(dropped) => MsecOf(k, cap, dropped) = Msec(k))
<1>1. Msec(k) \in Nat
  BY DEF UmTypes, Msec
<1>2. Min({Msec(k), cap}) \in Nat
  BY <1>1, MinOfTwo
<1>3. QED
  BY <1>1, <1>2 DEF MsecOf

(* Of the packets lost, at most as many as the server allows, and two if it predicts, are made good. *)
LEMMA NetDropIs ==
  ASSUME UmTypes, NEW dropped \in Nat
  PROVE  /\ NetDrop(dropped) \in Nat /\ NetDrop(dropped) <= dropped
         /\ NetDrop(dropped) > 2 => ~Clamp(dropped)
         /\ netdrop >= 2 => NetDrop(dropped) >= 2 \/ NetDrop(dropped) = dropped
<1> DEFINE l == Limited(dropped)
<1>1. l = IF dropped <= netdrop THEN dropped ELSE netdrop
  BY MinOfTwo DEF Limited, UmTypes
<1>2. l \in Nat
  BY <1>1 DEF UmTypes
<1>3. NetDrop(dropped) = IF Clamp(dropped) THEN Min({l, 2}) ELSE l
  BY DEF NetDrop
<1> HIDE DEF l
<1>4. Min({l, 2}) = IF l <= 2 THEN l ELSE 2
  BY <1>2, MinOfTwo
<1>5. QED
  BY <1>1, <1>2, <1>3, <1>4 DEF UmTypes

(* The commands of a packet that are new are the last ones made, in their order. *)
LEMMA FreshIs ==
  ASSUME UmTypes, NEW n \in Nat, n <= Len(sent), NEW dropped \in Nat, dropped < n
  PROVE  /\ Fresh(n, dropped) \in Seq(Command) /\ Len(Fresh(n, dropped)) \in 1 .. 3
         /\ Len(Fresh(n, dropped)) <= dropped + 1
         /\ netdrop >= 2 => Len(Fresh(n, dropped)) = 3 \/ Len(Fresh(n, dropped)) = dropped + 1
         /\ \A i \in 1 .. Len(Fresh(n, dropped)) : Fresh(n, dropped)[i].n = n - Len(Fresh(n, dropped)) + i
         /\ NetDrop(dropped) > 1 =>
              /\ Len(Fresh(n, dropped)) = 3
              /\ Fresh(n, dropped)[1].ms = MsecOf(n-2, OldCap, dropped)
              /\ Fresh(n, dropped)[2].ms = MsecOf(n-1, OldCap, dropped)
              /\ Fresh(n, dropped)[3].ms = MsecOf(n, NewCap, dropped)
<1> DEFINE d == NetDrop(dropped)
           m0 == MsecOf(n, NewCap, dropped)
           m1 == MsecOf(n-1, OldCap, dropped)
           m2 == MsecOf(n-2, OldCap, dropped)
           F == Fresh(n, dropped)
<1>1. d \in Nat /\ d <= dropped /\ (netdrop >= 2 => d >= 2 \/ d = dropped)
  BY NetDropIs
<1>2. m0 \in Nat /\ m1 \in Nat /\ m2 \in Nat
  <2>1. n - 1 \in Int /\ n - 2 \in Int /\ n - 1 <= Len(sent) /\ n - 2 <= Len(sent)
    BY DEF UmTypes
  <2>2. n \in Int /\ OldCap \in Nat /\ NewCap \in Nat
    BY DEF OldCap, NewCap
  <2>3. MsecOf(n, NewCap, dropped) \in Nat
    BY <2>2, MsecIs
  <2>4. MsecOf(n-1, OldCap, dropped) \in Nat /\ MsecOf(n-2, OldCap, dropped) \in Nat
    BY <2>1, <2>2, MsecIs
  <2>5. QED
    BY <2>3, <2>4
<1>3. F = (IF d > 1 THEN <<[n |-> n-2, ms |-> m2]>> ELSE <<>>)
          \o (IF d > 0 THEN <<[n |-> n-1, ms |-> m1]>> ELSE <<>>) \o <<[n |-> n, ms |-> m0]>>
  BY DEF Fresh
<1> HIDE DEF d, m0, m1, m2
<1> DEFINE c0 == [n |-> n, ms |-> m0]
           c1 == [n |-> n-1, ms |-> m1]
           c2 == [n |-> n-2, ms |-> m2]
           X == IF d > 1 THEN <<c2>> ELSE <<>>
           Y == IF d > 0 THEN <<c1>> ELSE <<>>
<1>3a. F = X \o Y \o <<c0>>
  BY <1>3
<1>3b. c0 \in Command /\ (n >= 1 => c1 \in Command) /\ (n >= 2 => c2 \in Command)
  <2>1. (n >= 1 => n - 1 \in Nat) /\ (n >= 2 => n - 2 \in Nat)
    OBVIOUS
  <2>2. QED
    BY <1>2, <2>1 DEF Command
<1>3c. c0.n = n /\ c1.n = n - 1 /\ c2.n = n - 2 /\ c0.ms = m0 /\ c1.ms = m1 /\ c2.ms = m2
  OBVIOUS
<1>3d. (d > 1 => X = <<c2>>) /\ (~(d > 1) => X = <<>>) /\ (d > 0 => Y = <<c1>>) /\ (~(d > 0) => Y = <<>>)
  OBVIOUS
<1> HIDE DEF F, c0, c1, c2, X, Y
<1>4. CASE d > 1
  <2>1. c1 \in Command /\ c2 \in Command
    BY <1>1, <1>3b, <1>4
  <2> DEFINE p == <<c2>> \o <<c1>>
  <2>2. <<c2>> \in Seq(Command) /\ Len(<<c2>>) = 1 /\ <<c2>>[1] = c2
    BY <2>1
  <2>3. p \in Seq(Command) /\ Len(p) = 2 /\ p[1] = c2 /\ p[2] = c1
    <3>1. /\ p \in Seq(Command) /\ Len(p) = 1 + 1
          /\ \A i \in 1 .. 1 : p[i] = <<c2>>[i]
          /\ p[1 + 1] = c1
      BY <2>1, <2>2, OneMore
    <3>2. QED
      BY <2>2, <3>1
  <2>4. F = p \o <<c0>>
    <3>1. d > 0
      BY <1>1, <1>4
    <3>2. X = <<c2>> /\ Y = <<c1>>
      BY <1>3d, <1>4, <3>1
    <3>3. QED
      BY <1>3a, <3>2, Zenon
  <2> HIDE DEF p
  <2>5. F \in Seq(Command) /\ Len(F) = 3 /\ F[1] = c2 /\ F[2] = c1 /\ F[3] = c0
    <3>1. /\ p \o <<c0>> \in Seq(Command) /\ Len(p \o <<c0>>) = Len(p) + 1
          /\ \A i \in 1 .. Len(p) : (p \o <<c0>>)[i] = p[i]
          /\ (p \o <<c0>>)[Len(p) + 1] = c0
      BY <1>3b, <2>3, OneMore
    <3>2. /\ F \in Seq(Command) /\ Len(F) = Len(p) + 1
          /\ \A i \in 1 .. Len(p) : F[i] = p[i]
          /\ F[Len(p) + 1] = c0
      BY <2>4, <3>1, Zenon
    <3>3. QED
      BY <2>3, <3>2
  <2>6. \A i \in 1 .. 3 : F[i].n = n - 3 + i
    <3>1. \A i \in 1 .. 3 : i = 1 \/ i = 2 \/ i = 3
      OBVIOUS
    <3>2. F[1].n = n - 3 + 1 /\ F[2].n = n - 3 + 2 /\ F[3].n = n - 3 + 3
      BY <1>3c, <2>5
    <3>3. QED
      BY <3>1, <3>2
  <2>7. QED
    BY <1>1, <1>3c, <1>4, <2>5, <2>6 DEF d, m0, m1, m2, F
<1>5. CASE d = 1
  <2>1. c1 \in Command
    BY <1>1, <1>3b, <1>5
  <2> DEFINE p == <<c1>>
  <2>2. <<>> \o p = p /\ p \in Seq(Command) /\ Len(p) = 1 /\ p[1] = c1
    BY <2>1, ConcatEmptySeq
  <2>3. F = p \o <<c0>>
    <3>1. d > 0 /\ ~(d > 1)
      BY <1>5
    <3>2. X = <<>> /\ Y = p
      BY <1>3d, <3>1
    <3>3. QED
      BY <1>3a, <2>2, <3>2, Zenon
  <2> HIDE DEF p
  <2>4. F \in Seq(Command) /\ Len(F) = 2 /\ F[1] = c1 /\ F[2] = c0
    <3>1. /\ p \o <<c0>> \in Seq(Command) /\ Len(p \o <<c0>>) = Len(p) + 1
          /\ \A i \in 1 .. Len(p) : (p \o <<c0>>)[i] = p[i]
          /\ (p \o <<c0>>)[Len(p) + 1] = c0
      BY <1>3b, <2>2, OneMore
    <3>2. /\ F \in Seq(Command) /\ Len(F) = Len(p) + 1
          /\ \A i \in 1 .. Len(p) : F[i] = p[i]
          /\ F[Len(p) + 1] = c0
      BY <2>3, <3>1, Zenon
    <3>3. QED
      BY <2>2, <3>2
  <2>5. \A i \in 1 .. 2 : F[i].n = n - 2 + i
    <3>1. \A i \in 1 .. 2 : i = 1 \/ i = 2
      OBVIOUS
    <3>2. F[1].n = n - 2 + 1 /\ F[2].n = n - 2 + 2
      BY <1>3c, <2>4
    <3>3. QED
      BY <3>1, <3>2
  <2>6. QED
    BY <1>1, <1>5, <2>4, <2>5 DEF d, F
<1>6. CASE d = 0
  <2> DEFINE p == <<>>
  <2>1. p \o p = p /\ p \in Seq(Command) /\ Len(p) = 0
    BY ConcatEmptySeq
  <2>2. F = p \o <<c0>>
    BY <1>3a, <1>3d, <1>6, <2>1
  <2> HIDE DEF p
  <2>3. F \in Seq(Command) /\ Len(F) = 1 /\ F[1] = c0
    <3>1. F \in Seq(Command) /\ Len(F) = 0 + 1 /\ F[0 + 1] = c0
      BY <1>3b, <2>1, <2>2, OneMore
    <3>2. QED
      BY <3>1
  <2>4. \A i \in 1 .. 1 : F[i].n = n - 1 + i
    <3>1. \A i \in 1 .. 1 : i = 1
      OBVIOUS
    <3>2. F[1].n = n - 1 + 1
      BY <1>3c, <2>3
    <3>3. QED
      BY <3>1, <3>2
  <2>5. QED
    BY <1>1, <1>6, <2>3, <2>4 DEF d, F
<1>7. QED
  BY <1>1, <1>4, <1>5, <1>6

Times == sentAt <= curtime /\ lastReceived <= curtime /\ initialTime <= curtime
(* Packets are numbered as the commands; what is under way is newer than what came. *)
Numbered == incoming <= Len(sent) /\ \A p \in net : incoming < p.n /\ p.n <= Len(sent)
Came == accepted \subseteq 1 .. incoming /\ waived \subseteq 1 .. incoming /\ (incoming = 0 \/ incoming \in accepted)
RanCame == \A i \in DOMAIN ran : ran[i] \in 1 .. incoming
UmInv ==
  /\ UmTypes /\ Times /\ Numbered /\ Came /\ RanCame /\ Accounted(commandMsec, movedMs)
  /\ InOrder /\ NoMoveLost /\ GapIsTheLimit /\ (KickLimit = 0 => ~umKicked)

LEMMA InitUm == UmInit => UmInv
<1> SUFFICES ASSUME UmInit PROVE UmInv
  OBVIOUS
<1>1. UmTypes
  <2>1. <<>> \in Seq(Nat) /\ netdrop \in Nat /\ Budget \in Int
    BY UmAssumption DEF UmInit
  <2>2. QED
    BY <2>1 DEF UmInit, UmTypes
<1>2. Times /\ Numbered /\ Came
  BY DEF UmInit, Times, Numbered, Came
<1>3. RanCame /\ InOrder /\ NoMoveLost
  BY DEF UmInit, RanCame, InOrder, NoMoveLost
<1>4. Accounted(commandMsec, movedMs) /\ GapIsTheLimit /\ ~umKicked
  BY UmAssumption DEF UmInit, Accounted, GapIsTheLimit
<1>5. QED
  BY <1>1, <1>2, <1>3, <1>4 DEF UmInv

LEMMA TimePassesUm == UmInv /\ TimePasses => UmInv'
<1> SUFFICES ASSUME UmInv, TimePasses PROVE UmInv'
  OBVIOUS
<1>1. /\ curtime' = curtime + 1 /\ net' \subseteq net
      /\ UNCHANGED <<sent, sentAt, incoming, lastReceived, moved, umPaused, netdrop, predict, lastMsec, ran, accepted, waived, gapRun>>
  BY DEF TimePasses
<1>2. UmTypes /\ Times /\ Numbered /\ Came /\ RanCame /\ Accounted(commandMsec, movedMs)
      /\ InOrder /\ NoMoveLost /\ GapIsTheLimit /\ (KickLimit = 0 => ~umKicked)
  BY DEF UmInv
<1>3. /\ totalUsed' \in Nat /\ initialTime' \in Nat /\ commandMsec' \in Int /\ umKicked' \in BOOLEAN /\ movedMs' \in Nat
      /\ initialTime' <= curtime /\ Accounted(commandMsec', movedMs')
      /\ (gapRun => totalUsed' <= curtime + 1 - initialTime')
      /\ (KickLimit = 0 => ~umKicked')
  <2>1. CASE UNCHANGED <<totalUsed, initialTime, commandMsec, overflow, umKicked, movedMs>>
    <3>1. gapRun => totalUsed <= curtime + 1 - initialTime
      BY <1>2 DEF GapIsTheLimit, UmTypes
    <3>2. QED
      BY <1>2, <2>1, <3>1 DEF UmTypes, Times
  <2>2. CASE KickLimit # 0 /\ umKicked' = TRUE /\ UNCHANGED <<totalUsed, initialTime, commandMsec, movedMs>>
    <3>1. gapRun => totalUsed <= curtime + 1 - initialTime
      BY <1>2 DEF GapIsTheLimit, UmTypes
    <3>2. QED
      BY <1>2, <2>2, <3>1 DEF UmTypes, Times
  <2>3. CASE /\ totalUsed' = 0 /\ initialTime' = lastReceived
             /\ commandMsec' = Budget /\ movedMs' = 0 /\ UNCHANGED umKicked
    <3>1. Accounted(Budget, 0)
      BY UmAssumption DEF Accounted
    <3>2. QED
      BY <1>2, <2>3, <3>1, UmAssumption DEF UmTypes, Times
  <2>4. QED
    BY <2>1, <2>2, <2>3 DEF TimePasses, GiveMsec
<1>4. UmTypes'
  BY <1>1, <1>2, <1>3 DEF UmTypes
<1>5. Times'
  BY <1>1, <1>2, <1>3 DEF Times, UmTypes
<1>6. Numbered' /\ Came' /\ RanCame' /\ InOrder' /\ NoMoveLost'
  BY <1>1, <1>2 DEF Numbered, Came, RanCame, InOrder, NoMoveLost
<1>7. GapIsTheLimit' /\ Accounted(commandMsec, movedMs)' /\ (KickLimit = 0 => ~umKicked')
  <2>1. gapRun' = gapRun /\ curtime' = curtime + 1
    BY <1>1
  <2>2. GapIsTheLimit'
    <3>1. SUFFICES ASSUME gapRun' PROVE totalUsed' <= curtime' - initialTime'
      BY DEF GapIsTheLimit
    <3>2. totalUsed' <= curtime + 1 - initialTime'
      BY <1>3, <2>1, <3>1
    <3>3. curtime \in Nat /\ initialTime' \in Nat /\ totalUsed' \in Nat
      BY <1>2, <1>3 DEF UmTypes
    <3>4. curtime' = curtime + 1
      BY <1>1
    <3> DEFINE u == totalUsed'
               i == initialTime'
               c == curtime'
    <3>5. u <= curtime + 1 - i /\ c = curtime + 1 /\ u \in Nat /\ i \in Nat /\ curtime \in Nat
      BY <3>2, <3>3, <3>4
    <3> HIDE DEF u, i, c
    <3>6. u <= c - i
      BY <3>5
    <3>7. QED
      BY <3>6 DEF u, i, c
  <2>3. QED
    BY <1>3, <2>2, Zenon DEF Accounted
<1>8. QED
  BY <1>2, <1>4, <1>5, <1>6, <1>7 DEF UmInv

LEMMA ClientSendsUm == UmInv /\ ClientSends => UmInv'
<1> SUFFICES ASSUME UmInv, ClientSends PROVE UmInv'
  OBVIOUS
<1>1. /\ sent' = Append(sent, curtime - sentAt) /\ sentAt' = curtime
      /\ net' = net \union {[n |-> Len(sent) + 1, at |-> curtime]}
      /\ UNCHANGED <<curtime, incoming, lastReceived, moved, umPaused, netdrop, predict, lastMsec, totalUsed,
                     initialTime, commandMsec, overflow, umKicked, ran, movedMs, accepted, waived, gapRun>>
  BY DEF ClientSends
<1>2. UmTypes /\ Times /\ Numbered /\ Came /\ RanCame /\ Accounted(commandMsec, movedMs)
      /\ InOrder /\ NoMoveLost /\ GapIsTheLimit /\ (KickLimit = 0 => ~umKicked)
  BY DEF UmInv
<1>3. curtime - sentAt \in Nat /\ Len(sent) \in Nat
  BY <1>2 DEF UmTypes, Times
<1>4. sent' \in Seq(Nat) /\ Len(sent') = Len(sent) + 1
  BY <1>1, <1>2, <1>3 DEF UmTypes
<1>5. [n |-> Len(sent) + 1, at |-> curtime] \in [n : Nat, at : Nat]
  BY <1>2, <1>3 DEF UmTypes
<1>6. UmTypes'
  BY <1>1, <1>2, <1>4, <1>5 DEF UmTypes
<1>7. Times'
  BY <1>1, <1>2 DEF Times, UmTypes
<1>8. Numbered'
  <2>1. \A p \in net : p.n <= Len(sent) + 1
    BY <1>2, <1>3 DEF Numbered, UmTypes
  <2>2. incoming < Len(sent) + 1 /\ incoming <= Len(sent) + 1
    BY <1>2, <1>3 DEF Numbered, UmTypes
  <2>3. QED
    BY <1>1, <1>2, <1>4, <2>1, <2>2 DEF Numbered
<1>9. Came' /\ RanCame' /\ InOrder' /\ NoMoveLost' /\ GapIsTheLimit' /\ Accounted(commandMsec, movedMs)' /\ (KickLimit = 0 => ~umKicked')
  BY <1>1, <1>2 DEF Came, RanCame, InOrder, NoMoveLost, GapIsTheLimit, Accounted
<1>10. QED
  BY <1>6, <1>7, <1>8, <1>9 DEF UmInv

LEMMA PauseUm == UmInv /\ Pause => UmInv'
<1> SUFFICES ASSUME UmInv, Pause PROVE UmInv'
  OBVIOUS
<1>1. /\ umPaused' = ~umPaused
      /\ UNCHANGED <<curtime, sent, sentAt, net, incoming, lastReceived, moved, netdrop, predict, lastMsec, totalUsed,
                     initialTime, commandMsec, overflow, umKicked, ran, movedMs, accepted, waived, gapRun>>
  BY DEF Pause
<1>2. UmTypes /\ Times /\ Numbered /\ Came /\ RanCame /\ Accounted(commandMsec, movedMs)
      /\ InOrder /\ NoMoveLost /\ GapIsTheLimit /\ (KickLimit = 0 => ~umKicked)
  BY DEF UmInv
<1>3. umPaused' \in BOOLEAN
  BY <1>1
<1>4. UmTypes'
  BY <1>1, <1>2, <1>3 DEF UmTypes
<1>5. Times' /\ Numbered' /\ Came' /\ RanCame' /\ InOrder' /\ NoMoveLost' /\ GapIsTheLimit' /\ Accounted(commandMsec, movedMs)' /\ (KickLimit = 0 => ~umKicked')
  BY <1>1, <1>2 DEF Times, Numbered, Came, RanCame, InOrder, NoMoveLost, GapIsTheLimit, Accounted
<1>6. QED
  BY <1>4, <1>5 DEF UmInv

Nums(cmds) == [i \in DOMAIN cmds |-> cmds[i].n]
(* What is new in a packet: its last L commands, as many as are due. *)
NewIn(cmds, n, L) ==
  /\ Len(cmds) = L /\ L <= n - incoming /\ (netdrop >= 2 => L = 3 \/ L = n - incoming)
  /\ \A i \in 1 .. L : cmds[i].n = n - L + i
RunTo(seen, n) ==
  /\ \A i \in DOMAIN seen : seen[i] \in 1 .. n
  /\ \A i, j \in DOMAIN seen : i < j => seen[i] < seen[j]
  /\ netdrop >= 2 => \A m \in 1 .. n :
       (\E i \in DOMAIN seen : seen[i] = m) \/ m \in waived \/ {m, m+1, m+2} \intersect (accepted \union {n}) = {}
(* The commands of a packet go to the end of those that were run: none twice, none too late, and none
   is missing that one of the three packets with it could bring. *)
LEMMA FreshFollow ==
  ASSUME UmInv, NEW n \in Nat, n <= Len(sent), incoming < n,
         NEW fresh \in Seq(Command), NEW seen \in Seq(Nat), NEW L \in 1 .. 3, NewIn(fresh, n, L),
         seen = ran \o Nums(fresh)
  PROVE  RunTo(seen, n)
<1> DEFINE R == Len(ran)
           b == n - L
           t == Nums(fresh)
<1>0. /\ Len(fresh) = L /\ L <= n - incoming /\ (netdrop >= 2 => L = 3 \/ L = n - incoming)
      /\ \A i \in 1 .. L : fresh[i].n = n - L + i
  BY DEF NewIn
<1>1. UmTypes /\ Came /\ RanCame /\ InOrder /\ NoMoveLost
  BY DEF UmInv
<1>2. R \in Nat /\ b \in Nat /\ incoming \in Nat /\ incoming <= b /\ ran \in Seq(Nat) /\ DOMAIN ran = 1 .. R
  BY <1>0, <1>1 DEF UmTypes
<1>3. DOMAIN t = 1 .. L /\ \A i \in 1 .. L : t[i] = b + i
  BY <1>0 DEF b, Nums
<1> HIDE DEF b
<1>4. t \in Seq(Nat) /\ Len(t) = L
  <2>1. t = [i \in 1 .. L |-> t[i]]
    BY <1>3 DEF Nums
  <2>2. \A i \in 1 .. L : t[i] \in Nat
    BY <1>2, <1>3
  <2> HIDE DEF t
  <2>3. t \in [1 .. L -> Nat]
    BY <2>1, <2>2
  <2>4. L \in Nat
    OBVIOUS
  <2>5. t \in Seq(Nat)
    BY <2>3, <2>4, SeqDef
  <2>6. QED
    BY <1>3, <2>4, <2>5, LenProperties
<1>5. Len(seen) = Len(ran) + Len(t) /\ \A i \in 1 .. Len(ran) + Len(t) : seen[i] = IF i <= Len(ran) THEN ran[i] ELSE t[i - Len(ran)]
  BY <1>2, <1>4, ConcatProperties
<1> HIDE DEF t
<1>6. DOMAIN seen = 1 .. R + L /\ \A i \in 1 .. R + L : seen[i] = IF i <= R THEN ran[i] ELSE b + (i - R)
  <2>1. DOMAIN seen = 1 .. R + L
    BY <1>4, <1>5 DEF R
  <2>2. ASSUME NEW i \in 1 .. R + L PROVE seen[i] = IF i <= R THEN ran[i] ELSE b + (i - R)
    <3>1. seen[i] = IF i <= R THEN ran[i] ELSE t[i - R]
      BY <1>4, <1>5 DEF R
    <3>2. ~(i <= R) => i - R \in 1 .. L
      BY <1>2
    <3>3. QED
      BY <1>3, <3>1, <3>2
  <2>3. QED
    BY <2>1, <2>2
<1>7. \A i \in 1 .. R : ran[i] \in 1 .. incoming
  BY <1>1, <1>2 DEF RanCame
<1>8. \A i, j \in 1 .. R : i < j => ran[i] < ran[j]
  BY <1>1, <1>2 DEF InOrder
<1>9. b + L = n
  BY <1>2 DEF b
<1> HIDE DEF R
<1>10. \A i \in 1 .. R + L : seen[i] \in 1 .. n
  <2> SUFFICES ASSUME NEW i \in 1 .. R + L PROVE seen[i] \in 1 .. n
    OBVIOUS
  <2>1. CASE i <= R
    <3>1. i \in 1 .. R
      BY <1>2, <2>1
    <3>2. QED
      BY <1>2, <1>6, <1>7, <1>9, <2>1, <3>1
  <2>2. CASE ~(i <= R)
    <3>1. seen[i] = b + (i - R)
      BY <1>6, <2>2
    <3>2. b + (i - R) \in 1 .. n
      BY <1>2, <1>9, <2>2
    <3>3. QED
      BY <3>1, <3>2
  <2>3. QED
    BY <2>1, <2>2
<1>11. ASSUME NEW i \in 1 .. R + L, NEW j \in 1 .. R + L, i < j PROVE seen[i] < seen[j]
  <2>1. CASE j <= R
    <3>1. i \in 1 .. R /\ j \in 1 .. R /\ i <= R
      BY <1>2, <1>11, <2>1
    <3>2. QED
      BY <1>6, <1>8, <1>11, <2>1, <3>1
  <2>2. CASE i <= R /\ ~(j <= R)
    <3>1. i \in 1 .. R
      BY <1>2, <2>2
    <3>2. seen[i] \in 1 .. incoming
      BY <1>6, <1>7, <2>2, <3>1
    <3>3. seen[j] = b + (j - R)
      BY <1>6, <2>2
    <3>4. QED
      BY <1>2, <2>2, <3>2, <3>3
  <2>3. CASE ~(i <= R) /\ ~(j <= R)
    <3>1. seen[i] = b + (i - R) /\ seen[j] = b + (j - R)
      BY <1>6, <2>3
    <3>2. QED
      BY <1>2, <1>11, <3>1
  <2>4. QED
    BY <1>2, <1>11, <2>1, <2>2, <2>3
<1>12. ASSUME netdrop >= 2, NEW m \in 1 .. n
       PROVE (\E i \in DOMAIN seen : seen[i] = m) \/ m \in waived \/ {m, m+1, m+2} \intersect (accepted \union {n}) = {}
  <2>1. m \in Nat /\ accepted \subseteq 1 .. incoming /\ (incoming = 0 \/ incoming \in accepted)
    BY <1>1 DEF Came
  <2>2. CASE m <= incoming
    <3>1. m \in 1 .. incoming
      BY <1>2, <2>1, <2>2
    <3>2. (\E i \in DOMAIN ran : ran[i] = m) \/ m \in waived \/ {m, m+1, m+2} \intersect accepted = {}
      BY <1>1, <1>12, <3>1 DEF NoMoveLost
    <3>3. ASSUME NEW i \in DOMAIN ran, ran[i] = m PROVE \E k \in DOMAIN seen : seen[k] = m
      <4>1. i \in 1 .. R + L /\ i <= R
        BY <1>2
      <4>2. QED
        BY <1>6, <3>3, <4>1
    <3>4. ASSUME {m, m+1, m+2} \intersect accepted = {} PROVE n \notin {m, m+1, m+2}
      <4>1. incoming \notin {m, m+1}
        BY <2>1, <2>2, <3>4
      <4>2. QED
        BY <1>2, <2>1, <2>2, <4>1
    <3>5. QED
      BY <3>2, <3>3, <3>4
  <2>3. CASE m > b
    <3> DEFINE k == R + (m - b)
    <3>1a. k \in 1 .. R + L /\ ~(k <= R) /\ b + (k - R) = m
      BY <1>2, <1>9, <2>1, <2>3
    <3> HIDE DEF k
    <3>2. k \in 1 .. R + L /\ seen[k] = b + (k - R) /\ b + (k - R) = m
      BY <1>6, <3>1a
    <3>3. QED
      BY <1>6, <3>2
  <2>4. CASE incoming < m /\ m <= b
    <3>1. L = 3
      BY <1>0, <1>2, <1>9, <1>12, <2>1, <2>4
    <3>2. m \notin accepted /\ m + 1 \notin accepted /\ m + 2 \notin accepted
      BY <1>2, <2>1, <2>4
    <3>3. n # m /\ n # m + 1 /\ n # m + 2
      BY <1>2, <1>9, <2>1, <2>4, <3>1
    <3>4. QED
      BY <3>2, <3>3
  <2>5. m <= incoming \/ m > b \/ (incoming < m /\ m <= b)
    BY <1>2, <2>1
  <2>6. QED
    BY <2>2, <2>3, <2>4, <2>5
<1>13. QED
  BY <1>6, <1>10, <1>11, <1>12 DEF RunTo

LEMMA ReceiveUm == ASSUME UmInv, NEW p \in net, Receive(p) PROVE UmInv'
<1> DEFINE n == p.n
           dropped == n - incoming - 1
           again == IF umPaused THEN <<>> ELSE Repeated(n, dropped)
           fresh == IF umPaused THEN <<>> ELSE Fresh(n, dropped)
           t == Think(again \o fresh)
<1>1. UmTypes /\ Times /\ Numbered /\ Came /\ RanCame /\ Accounted(commandMsec, movedMs)
      /\ InOrder /\ NoMoveLost /\ GapIsTheLimit /\ (KickLimit = 0 => ~umKicked)
  BY DEF UmInv
<1>2. /\ net' = {q \in net : q.n > n} /\ incoming' = n /\ lastReceived' = curtime /\ moved' = TRUE
      /\ commandMsec' = t.left /\ totalUsed' = t.used /\ movedMs' = t.done
      /\ ran' = ran \o Nums(fresh)
      /\ accepted' = accepted \union {n} /\ gapRun' = (again # <<>>)
      /\ waived' = IF umPaused THEN 1 .. n ELSE waived
      /\ UNCHANGED <<curtime, sent, sentAt, umPaused, netdrop, predict, initialTime, overflow, umKicked>>
  BY DEF Receive, Nums
<1>3. lastMsec' = IF predict /\ ~umPaused /\ n - incoming > 1 /\ netdrop > 0 THEN Min({Msec(n), NewCap}) ELSE Msec(n)
  BY DEF Receive
<1>4. n \in Nat /\ incoming < n /\ n <= Len(sent) /\ incoming \in Nat /\ Len(sent) \in Nat
  BY <1>1 DEF UmTypes, Numbered
<1>5. dropped \in Nat /\ dropped < n /\ dropped + 1 = n - incoming
  BY <1>4
<1> HIDE DEF n, dropped
<1>6. /\ ~umPaused => fresh = Fresh(n, dropped) /\ again = Repeated(n, dropped)
      /\ umPaused => fresh = <<>> /\ again = <<>>
  OBVIOUS
<1> HIDE DEF fresh, again
<1>7. /\ MsecOf(n, NewCap, dropped) \in Nat /\ MsecOf(n-1, OldCap, dropped) \in Nat /\ MsecOf(n-2, OldCap, dropped) \in Nat
      /\ Msec(n) \in Nat /\ Min({Msec(n), NewCap}) \in Nat
  <2>1. n \in Int /\ n - 1 \in Int /\ n - 2 \in Int /\ n - 1 <= Len(sent) /\ n - 2 <= Len(sent) /\ OldCap \in Nat /\ NewCap \in Nat
    BY <1>4 DEF OldCap, NewCap
  <2>2. MsecOf(n, NewCap, dropped) \in Nat /\ Msec(n) \in Nat
    BY <1>1, <1>4, <1>5, <2>1, MsecIs
  <2>3. MsecOf(n-1, OldCap, dropped) \in Nat /\ MsecOf(n-2, OldCap, dropped) \in Nat
    BY <1>1, <1>4, <1>5, <2>1, MsecIs
  <2>4. Min({Msec(n), NewCap}) \in Nat
    BY <2>1, <2>2, MinOfTwo
  <2>5. QED
    BY <2>2, <2>3, <2>4
<1>8. /\ fresh \in Seq(Command) /\ again \in Seq(Command) /\ again \o fresh \in Seq(Command)
      /\ gapRun' => t.used <= curtime - initialTime
  <2>1. CASE umPaused
    <3>1. fresh = <<>> /\ again = <<>> /\ <<>> \in Seq(Command) /\ <<>> \o <<>> = <<>>
      BY <1>6, <2>1
    <3>2. QED
      BY <1>2, <3>1
  <2>2. CASE ~umPaused
    <3>1. fresh = Fresh(n, dropped) /\ again = Repeats(NetDrop(dropped), MsecOf(n, NewCap, dropped), MsecOf(n-1, OldCap, dropped), MsecOf(n-2, OldCap, dropped))
      BY <1>6, <2>2 DEF Repeated
    <3>2. NetDrop(dropped) \in Nat
      BY <1>1, <1>5, NetDropIs
    <3>3. /\ again \in Seq(Command)
          /\ again # <<>> =>
               /\ NetDrop(dropped) > 2
               /\ \E W \in Nat, r \in Nat :
                    /\ Pieces(again, W, r)
                    /\ 4 * W + r <= curtime - initialTime - totalUsed - MsecOf(n, NewCap, dropped) - MsecOf(n-1, OldCap, dropped) - MsecOf(n-2, OldCap, dropped)
      BY <1>1, <1>7, <3>1, <3>2, RepeatsIs
    <3>4. /\ fresh \in Seq(Command)
          /\ NetDrop(dropped) > 1 => /\ Len(fresh) = 3 /\ fresh[1].ms = MsecOf(n-2, OldCap, dropped)
                                     /\ fresh[2].ms = MsecOf(n-1, OldCap, dropped) /\ fresh[3].ms = MsecOf(n, NewCap, dropped)
      BY <1>1, <1>4, <1>5, <3>1, FreshIs
    <3>5. again \o fresh \in Seq(Command)
      BY <3>3, <3>4, ConcatProperties
    <3>6. ASSUME again # <<>> PROVE t.used <= curtime - initialTime
      <4>1. PICK W \in Nat, r \in Nat :
              /\ Pieces(again, W, r)
              /\ 4 * W + r <= curtime - initialTime - totalUsed - MsecOf(n, NewCap, dropped) - MsecOf(n-1, OldCap, dropped) - MsecOf(n-2, OldCap, dropped)
        BY <3>3, <3>6
      <4>2. Len(fresh) = 3 /\ fresh[1].ms = MsecOf(n-2, OldCap, dropped)
            /\ fresh[2].ms = MsecOf(n-1, OldCap, dropped) /\ fresh[3].ms = MsecOf(n, NewCap, dropped)
        BY <3>2, <3>3, <3>4, <3>6
      <4>3. t.used = totalUsed + 4 * W + r + fresh[1].ms + fresh[2].ms + fresh[3].ms
        BY <1>1, <3>3, <3>4, <4>1, <4>2, ThinkAdds
      <4>4. t.used = totalUsed + 4 * W + r + MsecOf(n-2, OldCap, dropped) + MsecOf(n-1, OldCap, dropped) + MsecOf(n, NewCap, dropped)
        BY <4>2, <4>3
      <4> DEFINE x == MsecOf(n-2, OldCap, dropped)
                 y == MsecOf(n-1, OldCap, dropped)
                 z == MsecOf(n, NewCap, dropped)
                 q == t.used
      <4>5. q = totalUsed + 4 * W + r + x + y + z /\ 4 * W + r <= curtime - initialTime - totalUsed - z - y - x
            /\ x \in Nat /\ y \in Nat /\ z \in Nat
        BY <1>7, <4>1, <4>4
      <4> HIDE DEF x, y, z, q
      <4>6. q <= curtime - initialTime
        BY <1>1, <4>1, <4>5 DEF UmTypes
      <4>7. QED
        BY <4>6 DEF q
    <3>7. QED
      BY <1>2, <3>3, <3>4, <3>5, <3>6
  <2>3. QED
    BY <1>1, <2>1, <2>2 DEF UmTypes
<1>9. t \in Account /\ Accounted(t.left, t.done)
  BY <1>1, <1>8, ThinkAccounts
<1> DEFINE seen == ran \o Nums(fresh)
<1>10. /\ seen \in Seq(Nat) /\ \A i \in DOMAIN seen : seen[i] \in 1 .. n
       /\ \A i, j \in DOMAIN seen : i < j => seen[i] < seen[j]
       /\ ~umPaused => RunTo(seen, n)
  <2>1. CASE umPaused
    <3>1. fresh = <<>>
      BY <1>6, <2>1
    <3>2. Nums(fresh) = <<>>
      BY <3>1 DEF Nums
    <3>3. ran \in Seq(Nat) /\ incoming \in Nat
      BY <1>1 DEF UmTypes
    <3>4. seen = ran
      BY <3>2, <3>3, ConcatEmptySeq
    <3> HIDE DEF seen
    <3>5. \A k \in 1 .. incoming : k \in 1 .. n
      BY <1>4
    <3>6. QED
      BY <1>1, <2>1, <3>3, <3>4, <3>5 DEF RanCame, InOrder
  <2>2. CASE ~umPaused
    <3>1. fresh = Fresh(n, dropped)
      BY <1>6, <2>2
    <3>2. /\ fresh \in Seq(Command) /\ Len(fresh) \in 1 .. 3 /\ Len(fresh) <= dropped + 1
          /\ netdrop >= 2 => Len(fresh) = 3 \/ Len(fresh) = dropped + 1
          /\ \A i \in 1 .. Len(fresh) : fresh[i].n = n - Len(fresh) + i
      BY <1>1, <1>4, <1>5, <3>1, FreshIs
    <3>3. seen \in Seq(Nat)
      <4>1. \A i \in 1 .. Len(fresh) : fresh[i] \in Command
        BY <3>2, ElementOfSeq
      <4>2. \A i \in 1 .. Len(fresh) : fresh[i].n \in Nat
        BY <4>1 DEF Command
      <4>3. Nums(fresh) = [i \in 1 .. Len(fresh) |-> fresh[i].n]
        BY <3>2 DEF Nums
      <4>4. Nums(fresh) \in Seq(Nat) /\ ran \in Seq(Nat)
        BY <1>1, <3>2, <4>2, <4>3, IsASeq DEF UmTypes
      <4>5. QED
        BY <4>4, ConcatProperties
    <3> DEFINE L == Len(fresh)
    <3>4. L \in 1 .. 3 /\ NewIn(fresh, n, L)
      BY <1>5, <3>2 DEF NewIn
    <3> HIDE DEF L
    <3>5. RunTo(seen, n)
      <4>1. seen = ran \o Nums(fresh)
        OBVIOUS
      <4> HIDE DEF seen
      <4>2. QED
        BY <1>4, <3>2, <3>3, <3>4, <4>1, FreshFollow
    <3> HIDE DEF seen
    <3>6. QED
      BY <2>2, <3>3, <3>5 DEF RunTo
  <2>3. QED
    BY <2>1, <2>2
<1>11. ran' = seen
  BY <1>2
<1> HIDE DEF seen, t
<1>12. t.left \in Int /\ t.used \in Nat /\ t.done \in Nat
  BY <1>9 DEF Account
<1>13. UmTypes'
  <2>1. accepted' \in SUBSET Nat /\ waived' \in SUBSET Nat /\ net' \in SUBSET [n : Nat, at : Nat]
    BY <1>1, <1>2, <1>4 DEF UmTypes
  <2>2. gapRun' \in BOOLEAN /\ lastMsec' \in Nat
    BY <1>2, <1>3, <1>7
  <2>3. ran' \in Seq(Nat)
    BY <1>10, <1>11
  <2>4. QED
    BY <1>1, <1>2, <1>4, <1>12, <2>1, <2>2, <2>3 DEF UmTypes
<1>14. Times'
  BY <1>1, <1>2 DEF Times, UmTypes
<1>15. Numbered'
  BY <1>1, <1>2, <1>4 DEF Numbered, UmTypes
<1>16. Came'
  <2>1. \A k \in 1 .. incoming : k \in 1 .. n
    BY <1>4
  <2>2. n \in 1 .. n
    BY <1>4
  <2>3. QED
    BY <1>1, <1>2, <2>1, <2>2 DEF Came
<1>17. RanCame' /\ InOrder'
  BY <1>2, <1>10, <1>11 DEF RanCame, InOrder
<1>18. NoMoveLost'
  BY <1>2, <1>10, <1>11 DEF NoMoveLost, RunTo
<1>19. Accounted(commandMsec, movedMs)' /\ (KickLimit = 0 => ~umKicked')
  BY <1>1, <1>2, <1>9 DEF Accounted
<1>20. GapIsTheLimit'
  <2>1. SUFFICES ASSUME gapRun' PROVE totalUsed' <= curtime' - initialTime'
    BY DEF GapIsTheLimit
  <2>2. QED
    BY <1>2, <1>8, <2>1
<1>21. QED
  BY <1>13, <1>14, <1>15, <1>16, <1>17, <1>18, <1>19, <1>20 DEF UmInv

LEMMA StepUm == UmInv /\ [UmNext]_umVars => UmInv'
<1> SUFFICES ASSUME UmInv, [UmNext]_umVars PROVE UmInv'
  OBVIOUS
<1>1. CASE UNCHANGED umVars
  BY <1>1 DEF umVars, UmInv, UmTypes, Times, Numbered, Came, RanCame, Accounted, InOrder, NoMoveLost, GapIsTheLimit
<1>2. CASE UmNext
  BY <1>2, TimePassesUm, ClientSendsUm, PauseUm, ReceiveUm DEF UmNext
<1>3. QED
  BY <1>1, <1>2

(* The moves of a client are run once and in their order, none is missing that a packet brought, the game
   moves it for no longer than is allowed, and what is repeated over a gap ends with the clock
   (SV_ExecuteClientMessage, SV_ClientThink, SV_GiveMsec). *)
THEOREM MovesInOrder == UmSpec => [](InOrder /\ NoMoveLost /\ WithinBudget /\ GapIsTheLimit)
<1>1. UmInv => InOrder /\ NoMoveLost /\ WithinBudget /\ GapIsTheLimit
  BY DEF UmInv, Accounted, WithinBudget
<1>2. QED
  BY <1>1, InitUm, StepUm, PTL DEF UmSpec

(* With sv_enforcetime_kick at its default, which kicks nobody, all that is said of moves holds. *)
THEOREM MovesStayFair == ASSUME KickLimit = 0 PROVE UmSpec => []MovesAreFair
<1>1. UmInv => MovesAreFair
  BY DEF UmInv, Accounted, WithinBudget, HonestNotKicked, MovesAreFair
<1>2. QED
  BY <1>1, InitUm, StepUm, PTL DEF UmSpec

-----------------------------------------------------------------------------
(* Commands *)
Keys == InfoKeys \union {Console}
KeyCommand == [name : {"+activate", "-activate"}, key : Keys]
Slot == [state : {"connected", "spawned", "zombie"}, keys : (Keys \union {0}) \X (Keys \union {0}),
         held : BOOLEAN, pressed : BOOLEAN, owed : BOOLEAN, missed : BOOLEAN]
(* What can be held at once, and a key pressed or released. *)
HeldSets == {d \in SUBSET Keys : IsFiniteSet(d) /\ Cardinality(d) <= 2}
Touches(d, c, e) ==
  /\ e = Touch(d, c.key) /\ c.name = (IF c.key \in d THEN "-activate" ELSE "+activate")
  /\ c.key = Console => d \subseteq {Console}
(* What is held goes from d to e with the commands of a packet, and with packets. *)
Leads(p, g, d, e) ==
  g \in [0 .. Len(p) -> HeldSets] /\ g[0] = d /\ g[Len(p)] = e /\ \A i \in 1 .. Len(p) : Touches(g[i-1], p[i], g[i])
Carries(p, d, e) == \E g : Leads(p, g, d, e)
Follows(ps, f, d, e) ==
  f \in [0 .. Len(ps) -> HeldSets] /\ f[0] = d /\ f[Len(ps)] = e /\ \A i \in 1 .. Len(ps) : Carries(ps[i], f[i-1], f[i])
(* The keys the server knows of. *)
KeysOf(s) == {s.keys[1], s.keys[2]} \ {0}
InStep(s) == /\ s.keys[1] = s.keys[2] => s.keys[1] = 0
             /\ s.held <=> KeysOf(s) # {}
Lives(s) == ~s.missed /\ s.state # "zombie"

LEMMA KeysAre == 0 \notin Keys /\ Console \in Keys /\ Keys \subseteq Int /\ \A k \in InfoKeys : k # Console
BY CmAssumption DEF Keys, Console

LEMMA AtMostTwo ==
  ASSUME NEW d \in HeldSets, NEW a \in d, NEW b \in d, NEW c \in d
  PROVE  a = b \/ a = c \/ b = c
<1>1. SUFFICES ASSUME a # b, a # c, b # c PROVE FALSE
  OBVIOUS
<1>2. IsFiniteSet({}) /\ Cardinality({}) = 0
  BY FS_EmptySet
<1>3. IsFiniteSet({a}) /\ Cardinality({a}) = 1
  BY FS_Singleton
<1>4. IsFiniteSet({a} \union {b}) /\ Cardinality({a} \union {b}) = 2
  BY <1>1, <1>3, FS_AddElement
<1>5. Cardinality(({a} \union {b}) \union {c}) = 3
  BY <1>1, <1>4, FS_AddElement
<1>6. ({a} \union {b}) \union {c} \in SUBSET d
  OBVIOUS
<1>7. IsFiniteSet(d) /\ Cardinality(d) <= 2
  BY DEF HeldSets
<1>8. Cardinality(({a} \union {b}) \union {c}) <= Cardinality(d) /\ Cardinality(d) \in Nat
  BY <1>6, <1>7, FS_Subset, FS_CardinalityType
<1>9. QED
  BY <1>5, <1>7, <1>8

(* The parts of a slot, and slots made from one. *)
LEMMA SlotIs ==
  ASSUME NEW s \in Slot
  PROVE  /\ s.state \in {"connected", "spawned", "zombie"} /\ s.held \in BOOLEAN /\ s.pressed \in BOOLEAN
         /\ s.owed \in BOOLEAN /\ s.missed \in BOOLEAN
         /\ s.keys[1] \in Keys \union {0} /\ s.keys[2] \in Keys \union {0} /\ s.keys = <<s.keys[1], s.keys[2]>>
BY DEF Slot

(* A slot that a key was pressed or released in. *)
Remains(s, t) == /\ t \in Slot /\ t.state = s.state /\ t.missed = s.missed
                 /\ (s.owed => s.pressed) => (t.owed => t.pressed)

LEMMA DownIs ==
  ASSUME NEW s \in Slot, NEW k \in Keys
  PROVE  LET t == ActivateDown(s, k)
         IN  /\ Remains(s, t)
             /\ (k \in KeysOf(s) \/ (s.keys[1] # 0 /\ s.keys[2] # 0)) \/
                  /\ t.held /\ t.keys = IF s.keys[1] = 0 THEN <<k, s.keys[2]>> ELSE <<s.keys[1], k>>
<1> DEFINE t == ActivateDown(s, k)
           new == IF s.keys[1] = 0 THEN <<k, s.keys[2]>> ELSE <<s.keys[1], k>>
<1>1. new \in (Keys \union {0}) \X (Keys \union {0})
  BY SlotIs
<1>2. CASE k \in {s.keys[1], s.keys[2]} \/ (s.keys[1] # 0 /\ s.keys[2] # 0)
  <2>1. t = s
    BY <1>2 DEF ActivateDown
  <2>2. k \in KeysOf(s) \/ (s.keys[1] # 0 /\ s.keys[2] # 0)
    BY <1>2, KeysAre DEF KeysOf
  <2>3. QED
    BY <2>1, <2>2 DEF Remains
<1>3. CASE ~(k \in {s.keys[1], s.keys[2]} \/ (s.keys[1] # 0 /\ s.keys[2] # 0))
  <2>1. t = [s EXCEPT !.keys = new, !.held = TRUE, !.pressed = TRUE, !.owed = TRUE]
    BY <1>3 DEF ActivateDown
  <2> HIDE DEF new, t
  <2>2. /\ t \in Slot /\ t.state = s.state /\ t.missed = s.missed /\ t.pressed = TRUE
        /\ t.held = TRUE /\ t.keys = new
    BY <1>1, <2>1 DEF Slot
  <2>3. QED
    BY <2>2 DEF t, new, Remains
<1>4. QED
  BY <1>2, <1>3

LEMMA UpIs ==
  ASSUME NEW s \in Slot, NEW k \in Keys
  PROVE  LET t == ActivateUp(s, k)
             left == IF s.keys[1] = k THEN <<0, s.keys[2]>> ELSE <<s.keys[1], 0>>
         IN  /\ Remains(s, t)
             /\ k = Console => ~t.held /\ t.keys = <<0, 0>>
             /\ k # Console /\ k \in {s.keys[1], s.keys[2]} => (t.held <=> s.held /\ left # <<0, 0>>) /\ t.keys = left
<1> DEFINE t == ActivateUp(s, k)
           left == IF s.keys[1] = k THEN <<0, s.keys[2]>> ELSE <<s.keys[1], 0>>
           h == s.held /\ left # <<0, 0>>
           none == <<0, 0>>
<1>1. left \in (Keys \union {0}) \X (Keys \union {0}) /\ h \in BOOLEAN /\ none \in (Keys \union {0}) \X (Keys \union {0})
  BY SlotIs
<1>2. CASE k = Console
  <2>1. t = [s EXCEPT !.keys = none, !.held = FALSE]
    BY <1>2 DEF ActivateUp
  <2> HIDE DEF none, t
  <2>2. /\ t \in Slot /\ t.state = s.state /\ t.missed = s.missed /\ t.owed = s.owed /\ t.pressed = s.pressed
        /\ t.held = FALSE /\ t.keys = none
    BY <1>1, <2>1 DEF Slot
  <2>3. QED
    BY <1>2, <2>2 DEF t, none, Remains
<1>3. CASE k # Console /\ k \notin {s.keys[1], s.keys[2]}
  <2>1. t = s
    BY <1>3 DEF ActivateUp
  <2>2. QED
    BY <1>3, <2>1 DEF Remains
<1>4. CASE k # Console /\ k \in {s.keys[1], s.keys[2]}
  <2>1. t = [s EXCEPT !.keys = left, !.held = h]
    BY <1>4 DEF ActivateUp
  <2> HIDE DEF left, h, t
  <2>2. /\ t \in Slot /\ t.state = s.state /\ t.missed = s.missed /\ t.owed = s.owed /\ t.pressed = s.pressed
        /\ t.held = h /\ t.keys = left
    BY <1>1, <2>1 DEF Slot
  <2>3. QED
    BY <1>4, <2>2 DEF t, left, h, Remains
<1>5. QED
  BY <1>2, <1>3, <1>4

(* A command changes the slot by what was pressed, and the key is followed while it is in step. *)
LEMMA FollowIs ==
  ASSUME NEW s \in Slot, NEW c \in KeyCommand
  PROVE  Remains(s, Follow(s, c))
<1>1. c.key \in Keys /\ c.name \in {"+activate", "-activate"}
  BY DEF KeyCommand
<1>2. CASE c.name = "+activate"
  <2>1. Follow(s, c) = ActivateDown(s, c.key)
    BY <1>2 DEF Follow
  <2>2. QED
    BY <1>1, <2>1, DownIs
<1>3. CASE c.name = "-activate"
  <2>1. Follow(s, c) = ActivateUp(s, c.key)
    BY <1>3 DEF Follow
  <2>2. QED
    BY <1>1, <2>1, UpIs
<1>4. QED
  BY <1>1, <1>2, <1>3

LEMMA StaysInStep ==
  ASSUME NEW s \in Slot, NEW c \in KeyCommand, NEW d \in HeldSets, NEW e \in HeldSets,
         InStep(s), KeysOf(s) = d, Touches(d, c, e)
  PROVE  InStep(Follow(s, c)) /\ KeysOf(Follow(s, c)) = e
<1> DEFINE t == Follow(s, c)
           k == c.key
           a == s.keys[1]
           b == s.keys[2]
<1>1. k \in Keys /\ k # 0 /\ a \in Keys \union {0} /\ b \in Keys \union {0} /\ 0 \notin Keys /\ Console \in Keys
  BY KeysAre, SlotIs DEF KeyCommand
<1>2. /\ d = {a, b} \ {0} /\ (a = b => a = 0) /\ (s.held <=> d # {})
      /\ e = Touch(d, k) /\ c.name = (IF k \in d THEN "-activate" ELSE "+activate") /\ (k = Console => d \subseteq {Console})
  BY DEF InStep, KeysOf, Touches
<1>3. CASE k \notin d
  <2>1. t = ActivateDown(s, k) /\ e = d \union {k}
    BY <1>2, <1>3 DEF Follow, Touch
  <2>2. a = 0 \/ b = 0
    <3>1. SUFFICES ASSUME a # 0, b # 0 PROVE FALSE
      OBVIOUS
    <3>2. a \in e /\ b \in e /\ k \in e /\ a # b /\ a # k /\ b # k
      BY <1>2, <1>3, <2>1, <3>1
    <3>3. QED
      BY <3>2, AtMostTwo
  <2>3. k \notin KeysOf(s) /\ ~(a # 0 /\ b # 0)
    BY <1>3, <2>2
  <2>4. t.held /\ t.keys = IF a = 0 THEN <<k, b>> ELSE <<a, k>>
    BY <1>1, <2>1, <2>3, DownIs
  <2>5. CASE a = 0
    <3>1. t.keys[1] = k /\ t.keys[2] = b /\ b # k
      BY <1>1, <1>2, <1>3, <2>4, <2>5
    <3>2. KeysOf(t) = {k, b} \ {0}
      BY <3>1 DEF KeysOf
    <3>3. {k, b} \ {0} = e
      BY <1>1, <1>2, <2>1, <2>5
    <3>4. QED
      BY <1>1, <2>4, <3>1, <3>2, <3>3 DEF InStep
  <2>6. CASE a # 0
    <3>1. t.keys[1] = a /\ t.keys[2] = k /\ a # k /\ b = 0
      BY <1>1, <1>2, <1>3, <2>2, <2>4, <2>6
    <3>2. KeysOf(t) = {a, k} \ {0}
      BY <3>1 DEF KeysOf
    <3>3. {a, k} \ {0} = e
      BY <1>1, <1>2, <2>1, <2>6, <3>1
    <3>4. QED
      BY <1>1, <2>4, <3>1, <3>2, <3>3 DEF InStep
  <2>7. QED
    BY <2>5, <2>6
<1>4. CASE k \in d /\ k = Console
  <2>1. t = ActivateUp(s, k) /\ e = {}
    BY <1>2, <1>4 DEF Follow, Touch
  <2>2. ~t.held /\ t.keys = <<0, 0>>
    BY <1>4, <2>1 DEF ActivateUp, Slot
  <2>3. t.keys[1] = 0 /\ t.keys[2] = 0
    BY <2>2
  <2>4. KeysOf(t) = {}
    BY <2>3 DEF KeysOf
  <2>5. QED
    BY <2>1, <2>2, <2>3, <2>4 DEF InStep
<1>5. CASE k \in d /\ k # Console
  <2> DEFINE left == IF a = k THEN <<0, b>> ELSE <<a, 0>>
  <2>1. t = ActivateUp(s, k) /\ e = d \ {k} /\ k \in {a, b} /\ s.held
    BY <1>2, <1>5 DEF Follow, Touch
  <2>2. (t.held <=> s.held /\ left # <<0, 0>>) /\ t.keys = left
    BY <1>1, <1>5, <2>1, UpIs
  <2>3. left = <<0, 0>> <=> left[1] = 0 /\ left[2] = 0
    OBVIOUS
  <2>4. left[1] = (IF a = k THEN 0 ELSE a) /\ left[2] = (IF a = k THEN b ELSE 0)
    OBVIOUS
  <2>5. KeysOf(t) = {left[1], left[2]} \ {0}
    BY <2>2 DEF KeysOf
  <2>6. {left[1], left[2]} \ {0} = e
    <3> HIDE DEF left
    <3>1. CASE a = k
      <4>1. left[1] = 0 /\ left[2] = b /\ b # k
        BY <1>1, <1>2, <2>4, <3>1
      <4>2. QED
        BY <1>2, <2>1, <3>1, <4>1
    <3>2. CASE a # k
      <4>1. left[1] = a /\ left[2] = 0 /\ b = k
        BY <2>1, <2>4, <3>2
      <4>2. QED
        BY <1>2, <2>1, <3>2, <4>1
    <3>3. QED
      BY <3>1, <3>2
  <2>7. left[1] = left[2] => left[1] = 0
    BY <2>4
  <2>8. t.held <=> e # {}
    <3>1. left # <<0, 0>> <=> {left[1], left[2]} \ {0} # {}
      <4> HIDE DEF left
      <4>1. QED
        BY <2>3
    <3>2. QED
      BY <2>1, <2>2, <2>6, <3>1
  <2>9. QED
    BY <2>2, <2>5, <2>6, <2>7, <2>8 DEF InStep
<1>6. QED
  BY <1>3, <1>4, <1>5

(* What a packet does to a slot, from a function that reads it command by command. *)
LEMMA PacketIs ==
  ASSUME NEW s \in Slot, NEW p \in Seq(KeyCommand)
  PROVE  \E after \in [0 .. Len(p) -> Slot] :
           /\ after[0] = s /\ ReadPacket(s, p) = after[Len(p)]
           /\ \A i \in 1 .. Len(p) : after[i] = ReadCommand(after[i-1], p[i], i)
<1> DEFINE N == Len(p)
           step == [i \in 1 .. N |-> [t \in Slot |-> ReadCommand(t, p[i], i)]]
<1>1. N \in Nat /\ \A i \in 1 .. N : p[i] \in KeyCommand
  OBVIOUS
<1>2. ASSUME NEW i \in 1 .. N, NEW t \in Slot PROVE ReadCommand(t, p[i], i) \in Slot
  <2>1. [t EXCEPT !.missed = TRUE] \in Slot
    BY DEF Slot
  <2>2. ExecuteUserCommand(t, p[i]) \in Slot
    <3>1. Follow(t, p[i]) \in Slot
      BY <1>1, FollowIs DEF Remains
    <3> DEFINE q == IF \E j \in BanOf(p[i].name) : bannedcommands[j].kickmethod = "kick" THEN "zombie" ELSE t.state
    <3>2. q \in {"connected", "spawned", "zombie"}
      BY SlotIs
    <3> HIDE DEF q
    <3>3. [t EXCEPT !.missed = TRUE, !.state = q] \in Slot
      BY <3>2 DEF Slot
    <3>4. QED
      BY <3>1, <3>3 DEF ExecuteUserCommand, q
  <2>3. QED
    BY <2>1, <2>2 DEF ReadCommand
<1>3. step \in [1 .. N -> [Slot -> Slot]]
  BY <1>2
<1>4. PICK f : Recurs(f, N, Slot, s, step)
  <2> HIDE DEF step, N
  <2>1. QED
    BY <1>1, <1>3, Recursion
<1>5. f \in [0 .. N -> Slot] /\ f[0] = s /\ \A i \in 1 .. N : f[i] = step[i][f[i-1]]
  BY <1>4 DEF Recurs
<1>6. ASSUME NEW g, NEW i \in 1 .. N, g \in [0 .. N -> Slot], g[i] = step[i][g[i-1]]
      PROVE  g[i] = ReadCommand(g[i-1], p[i], i)
  <2>1. g[i-1] \in Slot
    BY <1>1, <1>6
  <2>2. QED
    BY <1>6, <2>1
<1> DEFINE Body(g) == [i \in 0 .. N |-> IF i = 0 THEN s ELSE ReadCommand(g[i-1], p[i], i)]
<1>7. \A i \in 1 .. N : f[i] = ReadCommand(f[i-1], p[i], i)
  <2> HIDE DEF step
  <2>1. QED
    BY <1>5, <1>6
<1>8. f = Body(f)
  <2>1. f = [i \in 0 .. N |-> f[i]]
    BY <1>5
  <2>2. ASSUME NEW i \in 0 .. N PROVE f[i] = IF i = 0 THEN s ELSE ReadCommand(f[i-1], p[i], i)
    <3>1. i = 0 \/ i \in 1 .. N
      BY <1>1
    <3>2. QED
      BY <1>1, <1>5, <1>7, <3>1
  <2>3. QED
    BY <2>1, <2>2
<1> DEFINE h == CHOOSE g : g = Body(g)
<1>9. h = Body(h)
  BY <1>8
<1>10. ReadPacket(s, p) = h[N]
  BY DEF ReadPacket
<1>11. h[0] = s /\ \A i \in 1 .. N : h[i] = ReadCommand(h[i-1], p[i], i)
  <2> HIDE DEF h
  <2>1. \A i \in 0 .. N : h[i] = IF i = 0 THEN s ELSE ReadCommand(h[i-1], p[i], i)
    BY <1>9
  <2>2. QED
    BY <1>1, <2>1
<1>12. DOMAIN h = 0 .. N /\ h = [i \in 0 .. N |-> h[i]]
  <2> HIDE DEF h
  <2>1. DOMAIN h = 0 .. N
    BY <1>9
  <2>2. h = [i \in DOMAIN h |-> h[i]]
    BY <1>9
  <2>3. QED
    BY <2>1, <2>2
<1>13. \A i \in 0 .. N : h[i] \in Slot
  <2> DEFINE P == [i \in 0 .. N |-> h[i] \in Slot]
  <2> HIDE DEF h
  <2>1. P \in [0 .. N -> BOOLEAN] /\ P[0]
    <3>1. P \in [0 .. N -> BOOLEAN] /\ 0 \in 0 .. N
      BY <1>1
    <3>2. P[0] = (h[0] \in Slot)
      BY <3>1
    <3>3. h[0] \in Slot
      BY <1>11
    <3>4. QED
      BY <3>1, <3>2, <3>3
  <2>2. ASSUME NEW i \in 1 .. N, P[i-1] PROVE P[i]
    <3>1. i - 1 \in 0 .. N /\ i \in 0 .. N
      BY <1>1
    <3>2. h[i-1] \in Slot
      BY <2>2, <3>1
    <3>3. h[i] \in Slot
      BY <1>2, <1>11, <3>2
    <3>4. QED
      BY <3>1, <3>3
  <2>3. \A i \in 0 .. N : P[i]
    <3> HIDE DEF P, N
    <3>1. QED
      BY <1>1, <2>1, <2>2, StepByStep
  <2>4. QED
    BY <2>3
<1>14. h \in [0 .. N -> Slot]
  <2> HIDE DEF h
  <2>1. QED
    BY <1>12, <1>13
<1>15. QED
  <2> HIDE DEF h
  <2>1. QED
    BY <1>10, <1>11, <1>14

(* A command read: either the client is no longer followed, or its key is. *)
LEMMA CommandIs ==
  ASSUME NEW s \in Slot, NEW c \in KeyCommand, NEW i
  PROVE  LET t == ReadCommand(s, c, i)
         IN  /\ (s.owed => s.pressed) => (t.owed => t.pressed)
             /\ Lives(t) => Lives(s) /\ t = Follow(s, c)
<1> DEFINE t == ReadCommand(s, c, i)
           z == IF \E j \in BanOf(c.name) : bannedcommands[j].kickmethod = "kick" THEN "zombie" ELSE s.state
<1>1. Remains(s, Follow(s, c))
  BY FollowIs
<1>2. CASE s.state = "zombie"
  <2>1. t = s
    BY <1>2 DEF ReadCommand
  <2>2. QED
    BY <1>2, <2>1 DEF Lives
<1>3. CASE s.state # "zombie" /\ i >= MaxStringCmds
  <2>1. t = [s EXCEPT !.missed = TRUE]
    BY <1>3 DEF ReadCommand
  <2>2. t.owed = s.owed /\ t.pressed = s.pressed /\ t.missed
    BY <2>1 DEF Slot
  <2>3. QED
    BY <2>2 DEF Lives
<1>4. CASE s.state # "zombie" /\ ~(i >= MaxStringCmds) /\ BanOf(c.name) # {}
  <2>1. t = [s EXCEPT !.missed = TRUE, !.state = z]
    BY <1>4 DEF ReadCommand, ExecuteUserCommand
  <2> HIDE DEF z
  <2>2. t.owed = s.owed /\ t.pressed = s.pressed /\ t.missed
    BY <2>1 DEF Slot
  <2>3. QED
    BY <2>2 DEF Lives
<1>5. CASE s.state # "zombie" /\ ~(i >= MaxStringCmds) /\ BanOf(c.name) = {}
  <2>1. t = Follow(s, c)
    BY <1>5 DEF ReadCommand, ExecuteUserCommand
  <2>2. QED
    BY <1>1, <2>1 DEF Lives, Remains
<1>6. QED
  BY <1>2, <1>3, <1>4, <1>5

(* A packet read brings the key of a client that is followed to the end of what the packet says. *)
Brings(s, p, t) == /\ t \in Slot
                   /\ (s.owed => s.pressed) => (t.owed => t.pressed)
                   /\ Lives(t) => Lives(s)
                   /\ Lives(t) => \A e : InStep(s) /\ Carries(p, KeysOf(s), e) => InStep(t) /\ KeysOf(t) = e
LEMMA PacketKeeps ==
  ASSUME NEW s \in Slot, NEW p \in Seq(KeyCommand)
  PROVE  Brings(s, p, ReadPacket(s, p))
<1> DEFINE N == Len(p)
<1>1. N \in Nat /\ \A i \in 1 .. N : p[i] \in KeyCommand
  OBVIOUS
<1>2. PICK a \in [0 .. N -> Slot] : /\ a[0] = s /\ ReadPacket(s, p) = a[N]
                                    /\ \A i \in 1 .. N : a[i] = ReadCommand(a[i-1], p[i], i)
  BY PacketIs
<1>3. ASSUME NEW i \in 1 .. N
      PROVE  /\ i \in 0 .. N /\ i - 1 \in 0 .. N /\ a[i] \in Slot /\ a[i-1] \in Slot
             /\ (a[i-1].owed => a[i-1].pressed) => (a[i].owed => a[i].pressed)
             /\ Lives(a[i]) => Lives(a[i-1]) /\ a[i] = Follow(a[i-1], p[i])
  <2>1. i \in 0 .. N /\ i - 1 \in 0 .. N
    BY <1>1
  <2>2. a[i] \in Slot /\ a[i-1] \in Slot /\ p[i] \in KeyCommand /\ a[i] = ReadCommand(a[i-1], p[i], i)
    BY <1>1, <1>2, <2>1
  <2>3. QED
    BY <2>1, <2>2, CommandIs
<1>4. N \in 0 .. N /\ 0 \in 0 .. N
  BY <1>1
<1> HIDE DEF N
<1>5. (s.owed => s.pressed) => (a[N].owed => a[N].pressed)
  <2> DEFINE P == [i \in 0 .. N |-> (s.owed => s.pressed) => (a[i].owed => a[i].pressed)]
  <2>1. P \in [0 .. N -> BOOLEAN]
    BY <1>2, SlotIs
  <2>2. P[0]
    BY <1>2, <1>4
  <2>3. \A i \in 1 .. N : P[i-1] => P[i]
    BY <1>3
  <2>4. \A i \in 0 .. N : P[i]
    <3> HIDE DEF P
    <3>1. QED
      BY <1>1, <2>1, <2>2, <2>3, StepByStep
  <2>5. QED
    BY <1>4, <2>4
<1>6. \A i \in 0 .. N : Lives(a[i]) => Lives(s)
  <2> DEFINE P == [i \in 0 .. N |-> Lives(a[i]) => Lives(s)]
  <2>1. P \in [0 .. N -> BOOLEAN]
    BY DEF Lives
  <2>2. P[0]
    BY <1>2, <1>4
  <2>3. \A i \in 1 .. N : P[i-1] => P[i]
    BY <1>3
  <2>4. \A i \in 0 .. N : P[i]
    <3> HIDE DEF P
    <3>1. QED
      BY <1>1, <2>1, <2>2, <2>3, StepByStep
  <2>5. QED
    BY <2>4
<1>7. ASSUME NEW e, InStep(s), Carries(p, KeysOf(s), e), Lives(a[N]) PROVE InStep(a[N]) /\ KeysOf(a[N]) = e
  <2>1. PICK g : Leads(p, g, KeysOf(s), e)
    BY <1>7 DEF Carries
  <2>2. /\ g \in [0 .. N -> HeldSets] /\ g[0] = KeysOf(s) /\ g[N] = e
        /\ \A i \in 1 .. N : Touches(g[i-1], p[i], g[i])
    BY <2>1 DEF Leads, N
  <2> DEFINE P == [i \in 0 .. N |-> Lives(a[i]) => InStep(a[i]) /\ KeysOf(a[i]) = g[i]]
  <2>3. P \in [0 .. N -> BOOLEAN]
    BY DEF Lives, InStep
  <2>4. P[0]
    BY <1>2, <1>4, <1>7, <2>2
  <2>5. ASSUME NEW i \in 1 .. N, P[i-1] PROVE P[i]
    <3>1. i \in 0 .. N /\ i - 1 \in 0 .. N
      BY <1>3
    <3>2. SUFFICES ASSUME Lives(a[i]) PROVE InStep(a[i]) /\ KeysOf(a[i]) = g[i]
      BY <3>1
    <3>3. a[i-1] \in Slot /\ Lives(a[i-1]) /\ a[i] = Follow(a[i-1], p[i])
      BY <1>3, <3>2
    <3>4. InStep(a[i-1]) /\ KeysOf(a[i-1]) = g[i-1]
      BY <2>5, <3>1, <3>3
    <3>5. g[i-1] \in HeldSets /\ g[i] \in HeldSets /\ p[i] \in KeyCommand /\ Touches(g[i-1], p[i], g[i])
      BY <1>1, <2>2, <3>1
    <3>6. QED
      BY <3>3, <3>4, <3>5, StaysInStep
  <2>6. \A i \in 0 .. N : P[i]
    <3> HIDE DEF P
    <3>1. QED
      BY <1>1, <2>3, <2>4, <2>5, StepByStep
  <2>7. QED
    BY <1>4, <1>7, <2>2, <2>6
<1>8. QED
  BY <1>2, <1>4, <1>5, <1>6, <1>7 DEF Brings

(* What is pressed at the client, key by key, and the packet that tells of it. *)
DownsOf(p, d) == CHOOSE h : h = [i \in 0 .. Len(p) |-> IF i = 0 THEN d ELSE Touch(h[i-1], p[i])]
Pressed(p, d, g) == /\ g = [i \in 0 .. Len(p) |-> g[i]] /\ g[0] = d /\ \A i \in 1 .. Len(p) : g[i] = Touch(g[i-1], p[i])
                    /\ \A i \in 0 .. Len(p) : g[i] \in SUBSET Keys /\ IsFiniteSet(g[i])
LEMMA PressesAre ==
  ASSUME NEW p \in Seq(Keys), NEW d \in HeldSets
  PROVE  Pressed(p, d, DownsOf(p, d))
<1> DEFINE N == Len(p)
           D == {e \in SUBSET Keys : IsFiniteSet(e)}
           step == [i \in 1 .. N |-> [e \in D |-> Touch(e, p[i])]]
           Body(h) == [i \in 0 .. N |-> IF i = 0 THEN d ELSE Touch(h[i-1], p[i])]
           g == CHOOSE h : h = Body(h)
<1>1. N \in Nat /\ (\A i \in 1 .. N : p[i] \in Keys) /\ d \in D
  BY DEF HeldSets
<1>2. ASSUME NEW e \in D, NEW k \in Keys PROVE Touch(e, k) \in D
  <2>1. IsFiniteSet(e \ {k}) /\ IsFiniteSet(e \union {k})
    BY FS_AddElement, FS_RemoveElement
  <2>2. QED
    BY <2>1 DEF Touch
<1>3. step \in [1 .. N -> [D -> D]]
  BY <1>1, <1>2
<1>4. PICK f : Recurs(f, N, D, d, step)
  <2> HIDE DEF step, N, D
  <2>1. QED
    BY <1>1, <1>3, Recursion
<1>5. f \in [0 .. N -> D] /\ f[0] = d /\ \A i \in 1 .. N : f[i] = step[i][f[i-1]]
  BY <1>4 DEF Recurs
<1>6. \A i \in 1 .. N : f[i] = Touch(f[i-1], p[i])
  <2>1. TAKE i \in 1 .. N
  <2>2. i - 1 \in 0 .. N
    BY <1>1
  <2>3. f[i-1] \in D
    BY <1>5, <2>2
  <2>4. QED
    BY <1>5, <2>3
<1>7. f = Body(f)
  <2>1. f = [i \in 0 .. N |-> f[i]]
    BY <1>5
  <2>2. ASSUME NEW i \in 0 .. N PROVE f[i] = IF i = 0 THEN d ELSE Touch(f[i-1], p[i])
    <3>1. i = 0 \/ i \in 1 .. N
      BY <1>1
    <3>2. QED
      BY <1>1, <1>5, <1>6, <3>1
  <2>3. QED
    BY <2>1, <2>2
<1>8. g = Body(g)
  BY <1>7
<1>9. g = [i \in 0 .. N |-> g[i]] /\ \A i \in 0 .. N : g[i] = IF i = 0 THEN d ELSE Touch(g[i-1], p[i])
  <2> HIDE DEF g
  <2>1. DOMAIN g = 0 .. N /\ g = [i \in DOMAIN g |-> g[i]]
    BY <1>8
  <2>2. QED
    BY <1>8, <2>1
<1>10. g[0] = d /\ \A i \in 1 .. N : g[i] = Touch(g[i-1], p[i])
  <2> HIDE DEF g
  <2>1. QED
    BY <1>1, <1>9
<1>11. \A i \in 0 .. N : g[i] \in D
  <2> DEFINE P == [i \in 0 .. N |-> g[i] \in D]
  <2> HIDE DEF g, D
  <2>1. P \in [0 .. N -> BOOLEAN]
    OBVIOUS
  <2>2. P[0]
    <3>1. 0 \in 0 .. N
      BY <1>1
    <3>2. QED
      BY <1>1, <1>10, <3>1
  <2>3. ASSUME NEW i \in 1 .. N, P[i-1] PROVE P[i]
    <3>1. i - 1 \in 0 .. N /\ i \in 0 .. N
      BY <1>1
    <3>2. g[i-1] \in D /\ p[i] \in Keys
      BY <1>1, <2>3, <3>1
    <3>3. g[i] \in D
      BY <1>2, <1>10, <3>2
    <3>4. QED
      BY <3>1, <3>3
  <2>4. \A i \in 0 .. N : P[i]
    <3> HIDE DEF P, N
    <3>1. QED
      BY <1>1, <2>1, <2>2, <2>3, StepByStep
  <2>5. QED
    BY <2>4
<1>12. g = DownsOf(p, d)
  BY DEF DownsOf
<1>13. QED
  <2> HIDE DEF g
  <2>1. QED
    BY <1>9, <1>10, <1>11, <1>12 DEF Pressed

(* The last packet carries what is held on; the first one, once read, is done with. *)
LEMMA OnePacketMore ==
  ASSUME NEW ps \in Seq(Seq(KeyCommand)), NEW p \in Seq(KeyCommand), NEW d, NEW m, NEW e \in HeldSets,
         \E f : Follows(ps, f, d, m), Carries(p, m, e)
  PROVE  \E f : Follows(Append(ps, p), f, d, e)
<1> DEFINE N == Len(ps)
           q == Append(ps, p)
<1>1. PICK f : Follows(ps, f, d, m)
  OBVIOUS
<1>2. N \in Nat /\ f \in [0 .. N -> HeldSets] /\ f[0] = d /\ f[N] = m /\ \A i \in 1 .. N : Carries(ps[i], f[i-1], f[i])
  BY <1>1 DEF Follows
<1>3. Len(q) = N + 1 /\ q[N+1] = p /\ \A i \in 1 .. N : q[i] = ps[i]
  OBVIOUS
<1> DEFINE h == [i \in 0 .. N + 1 |-> IF i = N + 1 THEN e ELSE f[i]]
<1>4. ASSUME NEW i \in 0 .. N + 1 PROVE i # N + 1 => i \in 0 .. N
  BY <1>2
<1>5. h \in [0 .. N + 1 -> HeldSets]
  BY <1>2, <1>4
<1>6. h[0] = d /\ h[N+1] = e
  BY <1>2
<1>7. ASSUME NEW i \in 1 .. N + 1 PROVE Carries(q[i], h[i-1], h[i])
  <2>1. i \in 0 .. N + 1 /\ i - 1 \in 0 .. N + 1 /\ i - 1 # N + 1
    BY <1>2
  <2>2. h[i-1] = f[i-1]
    BY <2>1
  <2>3. CASE i = N + 1
    <3>1. h[i] = e /\ i - 1 = N /\ q[i] = p
      BY <1>2, <1>3, <2>1, <2>3
    <3>2. QED
      BY <1>2, <2>2, <3>1
  <2>4. CASE i # N + 1
    <3>1. i \in 1 .. N /\ h[i] = f[i]
      BY <1>2, <2>1, <2>4
    <3>2. QED
      BY <1>2, <1>3, <2>2, <3>1
  <2>5. QED
    BY <2>3, <2>4
<1>8. Follows(q, h, d, e)
  <2> HIDE DEF h, q, N
  <2>1. QED
    BY <1>3, <1>5, <1>6, <1>7 DEF Follows
<1>9. QED
  BY <1>8

LEMMA OnePacketLess ==
  ASSUME NEW ps \in Seq(Seq(KeyCommand)), ps # <<>>, NEW d, NEW e, NEW f, Follows(ps, f, d, e)
  PROVE  /\ Head(ps) \in Seq(KeyCommand) /\ Tail(ps) \in Seq(Seq(KeyCommand))
         /\ \E m \in HeldSets : \E h : Carries(Head(ps), d, m) /\ Follows(Tail(ps), h, m, e)
<1> DEFINE N == Len(ps)
           q == Tail(ps)
           M == N - 1
<1>1. /\ N \in Nat \ {0} /\ M \in Nat /\ q \in Seq(Seq(KeyCommand)) /\ Len(q) = M /\ Head(ps) = ps[1] /\ Head(ps) \in Seq(KeyCommand)
      /\ \A i \in 1 .. M : q[i] = ps[i+1]
  OBVIOUS
<1>2. f \in [0 .. N -> HeldSets] /\ f[0] = d /\ f[N] = e /\ \A i \in 1 .. N : Carries(ps[i], f[i-1], f[i])
  BY DEF Follows
<1> DEFINE h == [i \in 0 .. M |-> f[i+1]]
<1>3. ASSUME NEW i \in 0 .. M PROVE i + 1 \in 1 .. N /\ i + 1 \in 0 .. N
  BY <1>1
<1>4. h \in [0 .. M -> HeldSets]
  BY <1>2, <1>3
<1>5. h[0] = f[1] /\ h[M] = e
  <2>1. 0 \in 0 .. M /\ M \in 0 .. M /\ 0 + 1 = 1 /\ M + 1 = N
    BY <1>1
  <2>2. h[M] = f[M + 1] /\ h[0] = f[0 + 1]
    BY <2>1
  <2>3. QED
    BY <1>2, <2>1, <2>2
<1>6. ASSUME NEW i \in 1 .. M PROVE Carries(q[i], h[i-1], h[i])
  <2>1. i \in 0 .. M /\ i - 1 \in 0 .. M /\ (i - 1) + 1 = i /\ i + 1 \in 1 .. N /\ (i + 1) - 1 = i
    BY <1>1
  <2>2. h[i-1] = f[(i-1)+1] /\ h[i] = f[i+1]
    BY <2>1
  <2>3. Carries(ps[i+1], f[(i+1)-1], f[i+1])
    BY <1>2, <2>1
  <2>4. QED
    BY <1>1, <2>1, <2>2, <2>3
<1>7. 1 \in 1 .. N /\ 1 \in 0 .. N /\ 1 - 1 = 0
  BY <1>1
<1>8. Carries(ps[1], f[0], f[1]) /\ f[1] \in HeldSets
  <2>1. Carries(ps[1], f[1-1], f[1])
    BY <1>2, <1>7
  <2>2. QED
    BY <1>2, <1>7, <2>1
<1>9. Follows(q, h, f[1], e)
  <2> HIDE DEF h, q, M
  <2>1. QED
    BY <1>1, <1>4, <1>5, <1>6 DEF Follows
<1>10. QED
  BY <1>1, <1>2, <1>8, <1>9

(* The stuffed text, as places where its commands end. *)
Nls(t) == {i \in 1 .. Len(t) : t[i] = Nl}
Next2(t, a, b) == a \in Nls(t) \union {0} /\ b \in Nls(t) /\ a < b /\ \A f \in Nls(t) : ~(a < f /\ f < b)
Whole(t) ==
  /\ \A a, b : Next2(t, a, b) => SubSeq(t, a + 1, b - 1) \in Stuffable
  /\ t # <<>> => t[Len(t)] = Nl

Alike(t, x, u, y, n) == \A i \in 1 .. n : t[x + i] = u[y + i]
LEMMA SamePart ==
  ASSUME NEW t \in Seq(Nat), NEW u \in Seq(Nat), NEW x \in Nat, NEW y \in Nat, NEW n \in Nat,
         x + n <= Len(t), y + n <= Len(u), Alike(t, x, u, y, n)
  PROVE  SubSeq(t, x + 1, x + n) = SubSeq(u, y + 1, y + n)
<1> DEFINE p == SubSeq(t, x + 1, x + n)
           q == SubSeq(u, y + 1, y + n)
<1>1. p \in Seq(Nat) /\ Len(p) = n /\ \A i \in 1 .. n : p[i] = t[x + i]
  <2>1. x + 1 \in Int /\ x + n \in Int /\ \A i \in x + 1 .. x + n : t[i] \in Nat
    OBVIOUS
  <2>2. /\ p \in Seq(Nat) /\ Len(p) = (IF x + 1 <= x + n THEN x + n - (x + 1) + 1 ELSE 0)
        /\ \A i \in 1 .. x + n - (x + 1) + 1 : p[i] = t[x + 1 + i - 1]
    BY <2>1, SubSeqProperties
  <2>3. x + n - (x + 1) + 1 = n /\ \A i \in 1 .. n : x + 1 + i - 1 = x + i
    OBVIOUS
  <2> HIDE DEF p
  <2>4. QED
    BY <2>2, <2>3
<1>2. q \in Seq(Nat) /\ Len(q) = n /\ \A i \in 1 .. n : q[i] = u[y + i]
  <2>1. y + 1 \in Int /\ y + n \in Int /\ \A i \in y + 1 .. y + n : u[i] \in Nat
    OBVIOUS
  <2>2. /\ q \in Seq(Nat) /\ Len(q) = (IF y + 1 <= y + n THEN y + n - (y + 1) + 1 ELSE 0)
        /\ \A i \in 1 .. y + n - (y + 1) + 1 : q[i] = u[y + 1 + i - 1]
    BY <2>1, SubSeqProperties
  <2>3. y + n - (y + 1) + 1 = n /\ \A i \in 1 .. n : y + 1 + i - 1 = y + i
    OBVIOUS
  <2> HIDE DEF q
  <2>4. QED
    BY <2>2, <2>3
<1>3. QED
  <2> HIDE DEF p, q
  <2>1. p = q
    BY <1>1, <1>2, SeqEqual DEF Alike
  <2>2. QED
    BY <2>1 DEF p, q

LEMMA NlsAre ==
  ASSUME NEW t \in Seq(Nat)
  PROVE  Nls(t) \in SUBSET (1 .. Len(t)) /\ Nls(t) \in SUBSET Nat /\ IsFiniteSet(Nls(t)) /\ Len(t) \in Nat
<1>1. Len(t) \in Nat
  OBVIOUS
<1>2. IsFiniteSet(1 .. Len(t))
  BY <1>1, FS_Interval
<1>3. QED
  BY <1>1, <1>2, FS_Subset DEF Nls

(* Every number of the elements of a finite set has one that so many are below. *)
LEMMA Ranked ==
  ASSUME NEW S \in SUBSET Nat, IsFiniteSet(S)
  PROVE  /\ Cardinality(S) \in Nat
         /\ \A n \in 0 .. Cardinality(S) - 1 : \E e \in S : Cardinality({f \in S : f < e}) = n
<1> DEFINE N == Cardinality(S)
           Rank(e) == Cardinality({f \in S : f < e})
           P == [n \in 0 .. N - 1 |-> \E e \in S : Rank(e) = n]
<1>1. N \in Nat
  BY FS_CardinalityType
<1>2. CASE N = 0
  BY <1>1, <1>2
<1>3. CASE N # 0
  <2>1. N - 1 \in Nat /\ P \in [0 .. N - 1 -> BOOLEAN]
    BY <1>1, <1>3
  <2>2. P[0]
    <3>1. S # {}
      BY <1>3, FS_EmptySet
    <3>2. PICK e \in S : \A f \in S : e <= f
      BY <3>1, LeastOf
    <3>3. {f \in S : f < e} = {}
      <4>1. \A f \in S : f \in Nat /\ e \in Nat /\ ~(f < e)
        BY <3>2
      <4>2. QED
        BY <4>1
    <3>4. Rank(e) = 0
      BY <3>3, FS_EmptySet
    <3>5. 0 \in 0 .. N - 1
      BY <2>1
    <3> HIDE DEF Rank
    <3>6. QED
      BY <3>4, <3>5
  <2>3. ASSUME NEW n \in 1 .. N - 1, P[n-1] PROVE P[n]
    <3>1. n \in 0 .. N - 1 /\ n - 1 \in 0 .. N - 1 /\ n < N /\ n \in Nat
      BY <1>1
    <3>2. PICK e \in S : Rank(e) = n - 1
      BY <2>3, <3>1
    <3> DEFINE L == {f \in S : f < e}
               T == {f \in S : f > e}
    <3>3. L \in SUBSET S /\ IsFiniteSet(L) /\ e \notin L
      BY FS_Subset
    <3>4. IsFiniteSet(L \union {e}) /\ Cardinality(L \union {e}) = n
      <4>1. Cardinality(L) = n - 1
        BY <3>2
      <4> HIDE DEF L
      <4>2. Cardinality(L \union {e}) = Cardinality(L) + 1 /\ IsFiniteSet(L \union {e})
        BY <3>3, FS_AddElement
      <4>3. QED
        BY <3>1, <4>1, <4>2
    <3>5. T # {}
      <4>1. SUFFICES ASSUME T = {} PROVE FALSE
        OBVIOUS
      <4>2. \A f \in S : f < e \/ f = e
        <5>1. \A f \in S : f \in Nat /\ e \in Nat /\ ~(f > e)
          BY <4>1
        <5>2. QED
          BY <5>1
      <4>3. \A f \in S : f \in L \union {e}
        BY <4>2
      <4>4. L \union {e} \subseteq S
        OBVIOUS
      <4>5. S = L \union {e}
        <5> HIDE DEF L
        <5>1. QED
          BY <4>3, <4>4
      <4>6. QED
        BY <3>1, <3>4, <4>5
    <3>6. PICK x \in T : \A f \in T : x <= f
      <4>1. T \in SUBSET Nat
        OBVIOUS
      <4> HIDE DEF T
      <4>2. QED
        BY <3>5, <4>1, LeastOf
    <3>7. {f \in S : f < x} = L \union {e}
      <4>1. x \in S /\ x \in Nat /\ e \in Nat /\ x > e
        BY <3>6
      <4>2. ASSUME NEW f \in S PROVE f < x <=> (f < e \/ f = e)
        <5>1. f \in Nat /\ (f > e => x <= f)
          BY <3>6
        <5>2. QED
          BY <4>1, <5>1
      <4>3. QED
        BY <4>2
    <3>8. x \in S /\ Rank(x) = n
      BY <3>4, <3>6, <3>7
    <3>9. QED
      BY <3>1, <3>8
  <2>4. \A n \in 0 .. N - 1 : P[n]
    <3> HIDE DEF P
    <3>1. QED
      BY <2>1, <2>2, <2>3, StepByStep
  <2>5. QED
    BY <1>1, <2>4
<1>4. QED
  BY <1>2, <1>3

LEMMA RankOrders ==
  ASSUME NEW S \in SUBSET Nat, IsFiniteSet(S), NEW x \in S, NEW y \in S,
         Cardinality({f \in S : f < x}) < Cardinality({f \in S : f < y})
  PROVE  /\ x < y
         /\ Cardinality({f \in S : f < y}) = Cardinality({f \in S : f < x}) + 1 => \A g \in S : ~(x < g /\ g < y)
<1> DEFINE X == {f \in S : f < x}
           Y == {f \in S : f < y}
<1>1. IsFiniteSet(X) /\ IsFiniteSet(Y) /\ Cardinality(X) \in Nat /\ Cardinality(Y) \in Nat
  <2>1. X \in SUBSET S /\ Y \in SUBSET S
    OBVIOUS
  <2> HIDE DEF X, Y
  <2>2. QED
    BY <2>1, FS_Subset, FS_CardinalityType
<1>2. x < y
  <2>1. SUFFICES ASSUME y <= x PROVE FALSE
    OBVIOUS
  <2>2. Y \in SUBSET X
    <3>1. ASSUME NEW f \in S, f < y PROVE f < x
      <4>1. f \in Nat /\ x \in Nat /\ y \in Nat
        OBVIOUS
      <4>2. QED
        BY <2>1, <3>1, <4>1
    <3>2. QED
      BY <3>1
  <2>3. Cardinality(Y) <= Cardinality(X)
    <3> HIDE DEF X, Y
    <3>1. QED
      BY <1>1, <2>2, FS_Subset
  <2>4. QED
    BY <1>1, <2>3
<1>3. ASSUME NEW g \in S, x < g, g < y PROVE Cardinality(Y) > Cardinality(X) + 1
  <2> DEFINE Z == (X \union {x}) \union {g}
  <2>1. x \notin X /\ g \notin X \union {x} /\ Z \in SUBSET Y
    <3>1. x \in Nat /\ y \in Nat /\ g \in Nat
      OBVIOUS
    <3>2. x \notin X /\ g \notin X /\ g # x
      BY <1>3, <3>1
    <3>3. ASSUME NEW f \in S, f < x \/ f = x \/ f = g PROVE f < y
      <4>1. f \in Nat
        OBVIOUS
      <4>2. QED
        BY <1>2, <1>3, <3>1, <3>3, <4>1
    <3>4. QED
      BY <3>2, <3>3
  <2>2. Cardinality(X \union {x}) = Cardinality(X) + 1 /\ IsFiniteSet(X \union {x})
    <3> HIDE DEF X
    <3>1. QED
      BY <1>1, <2>1, FS_AddElement
  <2>3. Cardinality(Z) = Cardinality(X) + 2
    <3> HIDE DEF X
    <3>1. Cardinality((X \union {x}) \union {g}) = Cardinality(X \union {x}) + 1
      BY <2>1, <2>2, FS_AddElement
    <3>2. QED
      BY <1>1, <2>2, <3>1
  <2>4. Cardinality(Z) <= Cardinality(Y)
    <3> HIDE DEF X, Y, Z
    <3>1. QED
      BY <1>1, <2>1, FS_Subset
  <2>5. QED
    BY <1>1, <2>3, <2>4
<1>4. Cardinality(Y) = Cardinality(X) + 1 => \A g \in S : ~(x < g /\ g < y)
  <2> HIDE DEF X, Y
  <2>1. QED
    BY <1>1, <1>3
<1>5. QED
  BY <1>2, <1>4

(* The ends of the commands, by their numbers, follow each other. *)
LEMMA EndsFollow ==
  ASSUME stuffString \in Seq(Nat), NEW n \in 0 .. Cardinality(Ends) - 1
  PROVE  /\ Cardinality(Ends) \in Nat /\ EndOf(n) \in Ends /\ EndOf(n - 1) \in Ends \union {0}
         /\ Next2(stuffString, EndOf(n - 1), EndOf(n))
<1> DEFINE S == Ends
           Rank(e) == Cardinality({f \in S : f < e})
<1>1. S = Nls(stuffString) /\ S \in SUBSET Nat /\ IsFiniteSet(S) /\ S \in SUBSET (1 .. Len(stuffString))
  BY NlsAre DEF Ends, Nls
<1> HIDE DEF S
<1>2. Cardinality(S) \in Nat /\ \A m \in 0 .. Cardinality(S) - 1 : \E e \in S : Rank(e) = m
  BY <1>1, Ranked
<1>3. ASSUME NEW m \in 0 .. Cardinality(S) - 1 PROVE EndOf(m) \in S /\ Rank(EndOf(m)) = m
  <2>1. EndOf(m) = CHOOSE e \in S : Rank(e) = m
    <3>1. ~(m < 0)
      BY <1>2
    <3>2. QED
      BY <3>1 DEF EndOf, S
  <2>2. QED
    BY <1>2, <2>1
<1>4. n \in 0 .. Cardinality(S) - 1
  BY DEF S
<1>5. EndOf(n) \in S /\ Rank(EndOf(n)) = n
  BY <1>3, <1>4
<1>6. CASE n = 0
  <2>1. EndOf(n - 1) = 0
    BY <1>6 DEF EndOf
  <2>2. \A f \in S : ~(f < EndOf(n))
    <3>1. {f \in S : f < EndOf(n)} \in SUBSET S
      OBVIOUS
    <3>2. IsFiniteSet({f \in S : f < EndOf(n)})
      BY <1>1, <3>1, FS_Subset
    <3>3. {f \in S : f < EndOf(n)} = {}
      BY <1>5, <1>6, <3>2, FS_EmptySet
    <3>4. QED
      BY <3>3
  <2>3. 0 < EndOf(n)
    BY <1>1, <1>5
  <2>4. QED
    BY <1>1, <1>2, <1>5, <2>1, <2>2, <2>3 DEF Next2, S
<1>7. CASE n # 0
  <2>1. n - 1 \in 0 .. Cardinality(S) - 1
    BY <1>2, <1>4, <1>7
  <2>2. EndOf(n-1) \in S /\ Rank(EndOf(n-1)) = n - 1
    BY <1>3, <2>1
  <2> DEFINE x == EndOf(n-1)
             y == EndOf(n)
  <2>3. x \in S /\ y \in S /\ Rank(x) < Rank(y) /\ Rank(y) = Rank(x) + 1
    BY <1>2, <1>4, <1>5, <2>2
  <2> HIDE DEF x, y
  <2>4. x < y /\ \A g \in S : ~(x < g /\ g < y)
    BY <1>1, <2>3, RankOrders
  <2>5. QED
    BY <1>1, <1>2, <2>3, <2>4 DEF Next2, S, x, y
<1>8. QED
  BY <1>6, <1>7

(* A command added at the end of a text. *)
LEMMA AddsCommand ==
  ASSUME NEW t \in Seq(Nat), Whole(t), NEW s \in Stuffable
  PROVE  LET u == t \o s \o <<Nl>>
         IN  /\ u \in Seq(Nat) /\ Whole(u) /\ Len(u) = Len(t) + Len(s) + 1
             /\ Cardinality(Nls(u)) \in Nat /\ Cardinality(Nls(u)) <= Cardinality(Nls(t)) + 1
<1> DEFINE v == t \o s
           u == v \o <<Nl>>
           L == Len(t)
           M == Len(s)
<1>1. s \in Seq(Nat \ {0}) /\ s \in Seq(Nat) /\ L \in Nat /\ M \in Nat
  BY CmAssumption
<1>2. v \in Seq(Nat) /\ Len(v) = L + M /\ \A i \in 1 .. L + M : v[i] = IF i <= L THEN t[i] ELSE s[i - L]
  BY <1>1, ConcatProperties
<1>3. u \in Seq(Nat) /\ Len(u) = L + M + 1 /\ (\A i \in 1 .. L + M : u[i] = v[i]) /\ u[L + M + 1] = Nl
  <2> HIDE DEF v
  <2>1. Nl \in Nat
    BY DEF Nl
  <2>2. /\ u \in Seq(Nat) /\ Len(u) = Len(v) + 1 /\ (\A i \in 1 .. Len(v) : u[i] = v[i])
        /\ u[Len(v) + 1] = Nl
    <3>1. v \in Seq(Nat)
      BY <1>2
    <3>2. QED
      BY <2>1, <3>1, OneMore
  <2>3. QED
    BY <1>2, <2>2
<1>4. ASSUME NEW i \in 1 .. L PROVE u[i] = t[i]
  <2>1. i \in 1 .. L + M /\ i <= L
    BY <1>1
  <2>2. QED
    BY <1>2, <1>3, <2>1
<1>5. ASSUME NEW i \in 1 .. M PROVE u[L + i] = s[i] /\ u[L + i] # Nl
  <2>1. L + i \in 1 .. L + M /\ ~(L + i <= L) /\ (L + i) - L = i
    BY <1>1
  <2>2. u[L + i] = s[i]
    BY <1>2, <1>3, <2>1
  <2>3. s[i] \in Nat \ {0}
    BY <1>1
  <2>4. QED
    BY <2>2, <2>3 DEF Nl
<1> HIDE DEF u, v
<1>6. Nls(u) = Nls(t) \union {L + M + 1}
  <2>1. ASSUME NEW i \in Nls(u) PROVE i \in Nls(t) \union {L + M + 1}
    <3>1. i \in 1 .. L + M + 1 /\ u[i] = Nl
      BY <1>3 DEF Nls
    <3>2. CASE i <= L
      <4>1. i \in 1 .. L
        BY <1>1, <3>1, <3>2
      <4>2. QED
        BY <1>4, <3>1, <4>1 DEF Nls
    <3>3. CASE L < i /\ i <= L + M
      <4>1. i - L \in 1 .. M /\ L + (i - L) = i
        BY <1>1, <3>1, <3>3
      <4>2. u[L + (i - L)] # Nl
        BY <1>5, <4>1
      <4>3. QED
        BY <3>1, <4>1, <4>2
    <3>4. QED
      BY <1>1, <3>1, <3>2, <3>3
  <2>2. ASSUME NEW i \in Nls(t) PROVE i \in Nls(u)
    <3>1. i \in 1 .. L /\ t[i] = Nl
      BY DEF Nls
    <3>2. i \in 1 .. Len(u) /\ u[i] = t[i]
      BY <1>1, <1>3, <1>4, <3>1
    <3>3. QED
      BY <3>1, <3>2 DEF Nls
  <2>3. L + M + 1 \in Nls(u)
    <3>1. L + M + 1 \in 1 .. Len(u)
      BY <1>1, <1>3
    <3>2. QED
      BY <1>3, <3>1 DEF Nls
  <2>4. QED
    BY <2>1, <2>2, <2>3
<1>7. L = 0 \/ L \in Nls(t)
  <2>1. SUFFICES ASSUME L # 0 PROVE L \in Nls(t)
    OBVIOUS
  <2>2. t # <<>> /\ L \in 1 .. L
    BY <1>1, <2>1
  <2>3. QED
    BY <2>2 DEF Whole, Nls
<1>8. ASSUME NEW a, NEW b, Next2(u, a, b) PROVE SubSeq(u, a + 1, b - 1) \in Stuffable
  <2>1. a \in Nls(u) \union {0} /\ b \in Nls(u) /\ a < b /\ \A f \in Nls(u) : ~(a < f /\ f < b)
    BY <1>8 DEF Next2
  <2>2. Nls(t) \in SUBSET (1 .. L) /\ L + M + 1 > L
    BY <1>1, NlsAre
  <2>3. CASE b \in Nls(t)
    <3>1. b \in 1 .. L /\ a \in Nls(t) \union {0}
      BY <1>1, <1>6, <2>1, <2>2, <2>3
    <3>2. Next2(t, a, b)
      BY <1>6, <2>1, <2>3, <3>1 DEF Next2
    <3>3. a \in Nat /\ b - 1 - a \in Nat /\ a + (b - 1 - a) = b - 1 /\ b - 1 <= L /\ L <= Len(u) /\ b \in Nat
      <4>1. a \in Nat /\ b \in Nat /\ b <= L /\ a < b
        BY <1>1, <2>1, <2>2, <3>1
      <4>2. L <= Len(u)
        BY <1>1, <1>3
      <4>3. QED
        BY <1>1, <4>1, <4>2
    <3> DEFINE n == b - 1 - a
    <3>4. \A i \in 1 .. n : u[a + i] = t[a + i]
      <4>1. ASSUME NEW i \in 1 .. n PROVE a + i \in 1 .. L
        BY <1>1, <3>3
      <4>2. QED
        BY <1>4, <4>1
    <3> HIDE DEF n
    <3>5. a \in Nat /\ n \in Nat /\ a + n = b - 1 /\ a + n <= Len(u) /\ a + n <= Len(t)
      <4>1. Len(u) \in Nat
        BY <1>1, <1>3
      <4>2. QED
        BY <1>1, <3>3, <4>1 DEF n
    <3>6. SubSeq(u, a + 1, a + n) = SubSeq(t, a + 1, a + n)
      BY <1>3, <3>4, <3>5, SamePart DEF Alike
    <3>7. QED
      BY <3>2, <3>5, <3>6 DEF Whole
  <2>4. CASE b \notin Nls(t)
    <3>1. b = L + M + 1
      BY <1>6, <2>1, <2>4
    <3>2. a = L
      <4>1. a \in Nls(t) \union {0}
        BY <1>6, <2>1, <3>1, <1>1
      <4>2. a \in Nat /\ a <= L
        BY <1>1, <2>2, <4>1
      <4>3. ~(a < L)
        <5>1. SUFFICES ASSUME a < L PROVE FALSE
          OBVIOUS
        <5>2. L \in Nls(u)
          BY <1>6, <1>7, <4>2, <5>1
        <5>3. QED
          BY <1>1, <2>1, <3>1, <5>1, <5>2
      <4>4. QED
        BY <1>1, <4>2, <4>3
    <3>3. \A i \in 1 .. M : u[L + i] = s[0 + i]
      BY <1>5
    <3>4. SubSeq(u, L + 1, L + M) = SubSeq(s, 0 + 1, 0 + M)
      <4>1. L + M <= Len(u) /\ 0 + M <= Len(s) /\ 0 \in Nat
        BY <1>1, <1>3
      <4> HIDE DEF L, M
      <4>2. QED
        BY <1>1, <1>3, <3>3, <4>1, SamePart DEF Alike
    <3>5. SubSeq(s, 0 + 1, 0 + M) = s
      BY <1>1
    <3>6. b - 1 = L + M
      BY <1>1, <3>1
    <3>7. QED
      BY <3>2, <3>4, <3>5, <3>6
  <2>5. QED
    BY <2>3, <2>4
<1>9. Whole(u)
  BY <1>3, <1>8 DEF Whole
<1>10. Cardinality(Nls(u)) \in Nat /\ Cardinality(Nls(u)) <= Cardinality(Nls(t)) + 1
  <2>1. IsFiniteSet(Nls(t)) /\ Cardinality(Nls(t)) \in Nat
    BY NlsAre, FS_CardinalityType
  <2>2. Cardinality(Nls(t) \union {L + M + 1}) = IF L + M + 1 \in Nls(t) THEN Cardinality(Nls(t)) ELSE Cardinality(Nls(t)) + 1
    BY <2>1, FS_AddElement
  <2>3. QED
    BY <1>6, <2>1, <2>2
<1>11. QED
  BY <1>3, <1>9, <1>10 DEF u, v

(* A command taken out, between two ends that follow each other. *)
LEMMA TakesCommand ==
  ASSUME NEW t \in Seq(Nat), Whole(t), NEW A, NEW B, Next2(t, A, B)
  PROVE  LET u == SubSeq(t, 1, A) \o SubSeq(t, B + 1, Len(t))
         IN  /\ u \in Seq(Nat) /\ Whole(u) /\ Len(u) <= Len(t)
             /\ Cardinality(Nls(u)) \in Nat /\ Cardinality(Nls(u)) <= Cardinality(Nls(t))
<1> DEFINE L == Len(t)
           x == SubSeq(t, 1, A)
           y == SubSeq(t, B + 1, L)
           u == x \o y
           D == B - A
<1>1. /\ A \in Nls(t) \union {0} /\ B \in Nls(t) /\ A < B /\ \A f \in Nls(t) : ~(A < f /\ f < B)
      /\ Nls(t) \in SUBSET (1 .. L)
  BY NlsAre DEF Next2
<1>2. L \in Nat /\ A \in Nat /\ B \in Nat /\ A < B /\ B <= L /\ 1 <= B
  BY <1>1
<1>3. D \in Nat /\ D > 0 /\ A + D = B
  BY <1>2
<1>4. x \in Seq(Nat) /\ Len(x) = A /\ \A i \in 1 .. A : x[i] = t[i]
  BY <1>2
<1>5. y \in Seq(Nat) /\ Len(y) = L - B /\ \A i \in 1 .. L - B : y[i] = t[B + i]
  BY <1>2
<1>6. u \in Seq(Nat) /\ Len(u) = L - D /\ \A i \in 1 .. L - D : u[i] = t[IF i <= A THEN i ELSE i + D]
  <2> HIDE DEF x, y
  <2>1. u \in Seq(Nat) /\ Len(u) = Len(x) + Len(y)
        /\ \A i \in 1 .. Len(x) + Len(y) : u[i] = IF i <= Len(x) THEN x[i] ELSE y[i - Len(x)]
    BY <1>4, <1>5, ConcatProperties
  <2> HIDE DEF u
  <2>2. Len(x) + Len(y) = L - D /\ Len(u) = L - D
    BY <1>2, <1>4, <1>5, <2>1
  <2>3. ASSUME NEW i \in 1 .. L - D PROVE u[i] = t[IF i <= A THEN i ELSE i + D]
    <3>1. u[i] = IF i <= A THEN x[i] ELSE y[i - A]
      BY <1>4, <2>1, <2>2
    <3>2. CASE i <= A
      <4>1. i \in 1 .. A
        BY <1>2, <3>2
      <4>2. QED
        BY <1>4, <3>1, <3>2, <4>1
    <3>3. CASE ~(i <= A)
      <4>1. i - A \in 1 .. L - B /\ B + (i - A) = i + D
        BY <1>2, <3>3
      <4>2. y[i - A] = t[B + (i - A)]
        BY <1>5, <4>1
      <4>3. QED
        BY <3>1, <3>3, <4>1, <4>2
    <3>4. QED
      BY <3>2, <3>3
  <2>4. QED
    BY <2>1, <2>2, <2>3
<1> DEFINE old == [i \in Nat |-> IF i <= A THEN i ELSE i + D]
<1>7. ASSUME NEW i \in 1 .. L - D
      PROVE  old[i] \in 1 .. L /\ u[i] = t[old[i]]
  <2>1. i \in Nat /\ old[i] = IF i <= A THEN i ELSE i + D
    BY <1>2
  <2>2. old[i] \in 1 .. L
    BY <1>2, <1>3, <2>1
  <2>3. QED
    BY <1>6, <2>1, <2>2
<1> HIDE DEF u, D
<1>8. ASSUME NEW i PROVE i \in Nls(u) <=> i \in 1 .. L - D /\ old[i] \in Nls(t)
  <2>1. i \in Nls(u) <=> i \in 1 .. L - D /\ u[i] = Nl
    BY <1>6 DEF Nls
  <2>2. CASE i \in 1 .. L - D
    <3>1. old[i] \in 1 .. L /\ u[i] = t[old[i]]
      BY <1>7, <2>2
    <3>2. QED
      BY <2>1, <2>2, <3>1 DEF Nls
  <2>3. QED
    BY <2>1, <2>2
<1>9. ASSUME NEW f \in Nls(t), f <= A PROVE f \in Nls(u)
  <2>1. f \in 1 .. L /\ f \in Nat /\ f \in 1 .. L - D /\ old[f] = f
    BY <1>1, <1>2, <1>3, <1>9
  <2>2. QED
    BY <1>8, <2>1
<1>10. ASSUME NEW f \in Nls(t), B < f PROVE f - D \in Nls(u)
  <2>1. f \in 1 .. L
    BY <1>1
  <2>2. f - D \in 1 .. L - D /\ f - D \in Nat /\ ~(f - D <= A) /\ (f - D) + D = f
    BY <1>2, <1>3, <1>10, <2>1
  <2>3. old[f - D] = f
    BY <2>2
  <2>4. QED
    BY <1>8, <2>2, <2>3
<1>11. ASSUME NEW a, NEW b, Next2(u, a, b) PROVE SubSeq(u, a + 1, b - 1) \in Stuffable
  <2>1. a \in Nls(u) \union {0} /\ b \in Nls(u) /\ a < b /\ \A f \in Nls(u) : ~(a < f /\ f < b)
    BY <1>11 DEF Next2
  <2>2. b \in 1 .. L - D /\ old[b] \in Nls(t) /\ a \in Nat /\ b \in Nat /\ a <= L - D /\ (a # 0 => a \in 1 .. L - D /\ old[a] \in Nls(t))
    <3>1. b \in 1 .. L - D /\ old[b] \in Nls(t) /\ (a # 0 => a \in 1 .. L - D /\ old[a] \in Nls(t))
      BY <1>8, <2>1
    <3>2. QED
      BY <1>2, <1>3, <3>1
  (* Where the command is read in the old text. *)
  <2> DEFINE z == IF b <= A THEN a ELSE IF a <= A THEN B ELSE a + D
  <2>3. z \in Nat /\ z + (b - a) = old[b] /\ Next2(t, z, old[b]) /\ \A i \in 1 .. (b - a) - 1 : old[a + i] = z + i
    <3>1. CASE b <= A
      <4>1. z = a /\ old[b] = b /\ a + (b - a) = b /\ old[a] = a
        BY <1>2, <2>1, <2>2, <3>1
      <4>2. a \in Nls(t) \union {0} /\ b \in Nls(t)
        BY <2>2, <4>1
      <4>3. ASSUME NEW f \in Nls(t) PROVE ~(a < f /\ f < b)
        <5>1. f \in 1 .. L
          BY <1>1
        <5>2. f < b => f <= A
          BY <1>2, <2>2, <3>1, <5>1
        <5>3. QED
          BY <1>9, <2>1, <5>2
      <4>4. ASSUME NEW i \in 1 .. (b - a) - 1 PROVE old[a + i] = a + i
        <5>1. a + i \in Nat /\ a + i <= A
          BY <1>2, <2>2, <3>1
        <5>2. QED
          BY <5>1
      <4>5. QED
        BY <2>1, <2>2, <4>1, <4>2, <4>3, <4>4 DEF Next2
    <3>2. CASE ~(b <= A) /\ a <= A
      <4>1. a = A
        <5>1. SUFFICES ASSUME a < A PROVE FALSE
          BY <1>2, <2>2, <3>2
        <5>2. A \in Nls(t)
          BY <1>1, <2>2, <5>1
        <5>3. A \in Nls(u)
          BY <1>2, <1>9, <5>2
        <5>4. QED
          BY <1>2, <2>1, <2>2, <3>2, <5>1, <5>3
      <4>2. z = B /\ old[b] = b + D /\ B + (b - a) = b + D
        BY <1>2, <1>3, <2>2, <3>2, <4>1
      <4>3. B \in Nls(t) /\ b + D \in Nls(t) /\ B < b + D
        BY <1>1, <1>2, <1>3, <2>2, <3>2, <4>2
      <4>4. ASSUME NEW f \in Nls(t) PROVE ~(B < f /\ f < b + D)
        <5>1. SUFFICES ASSUME B < f, f < b + D PROVE FALSE
          OBVIOUS
        <5>2. f - D \in Nls(u) /\ f \in 1 .. L
          BY <1>1, <1>10, <5>1
        <5>3. a < f - D /\ f - D < b
          BY <1>2, <1>3, <2>2, <4>1, <5>1, <5>2
        <5>4. QED
          BY <2>1, <5>2, <5>3
      <4>5. ASSUME NEW i \in 1 .. (b - a) - 1 PROVE old[a + i] = B + i
        <5>1. a + i \in Nat /\ ~(a + i <= A) /\ (a + i) + D = B + i
          BY <1>2, <1>3, <2>2, <4>1
        <5>2. QED
          BY <5>1
      <4>6. QED
        BY <1>2, <4>2, <4>3, <4>4, <4>5 DEF Next2
    <3>3. CASE ~(b <= A) /\ ~(a <= A)
      <4>1. z = a + D /\ old[b] = b + D /\ old[a] = a + D /\ (a + D) + (b - a) = b + D /\ a # 0 /\ a + D \in Nat
        BY <1>2, <1>3, <2>2, <3>3
      <4>2. a + D \in Nls(t) /\ b + D \in Nls(t) /\ a + D < b + D
        BY <1>3, <2>1, <2>2, <4>1
      <4>3. ASSUME NEW f \in Nls(t) PROVE ~(a + D < f /\ f < b + D)
        <5>1. SUFFICES ASSUME a + D < f, f < b + D PROVE FALSE
          OBVIOUS
        <5>2. B < f /\ f \in 1 .. L
          BY <1>1, <1>2, <1>3, <2>2, <3>3, <5>1
        <5>3. f - D \in Nls(u)
          BY <1>10, <5>2
        <5>4. a < f - D /\ f - D < b
          BY <1>3, <2>2, <5>1, <5>2
        <5>5. QED
          BY <2>1, <5>3, <5>4
      <4>4. ASSUME NEW i \in 1 .. (b - a) - 1 PROVE old[a + i] = (a + D) + i
        <5>1. a + i \in Nat /\ ~(a + i <= A) /\ (a + i) + D = (a + D) + i
          BY <1>2, <1>3, <2>2, <3>3
        <5>2. QED
          BY <5>1
      <4>5. QED
        BY <4>1, <4>2, <4>3, <4>4 DEF Next2
    <3>4. QED
      BY <3>1, <3>2, <3>3
  <2> DEFINE n == (b - a) - 1
             e == old[b]
  <2> HIDE DEF z, old
  <2>4. n \in Nat /\ a + n = b - 1 /\ b - 1 <= L - D /\ e \in 1 .. L /\ z + n = e - 1 /\ e - 1 <= L
    <3>1. e \in 1 .. L /\ z + (b - a) = e
      BY <1>1, <2>2, <2>3
    <3>2. QED
      BY <1>2, <1>3, <2>1, <2>2, <2>3, <3>1
  <2>5. ASSUME NEW i \in 1 .. n PROVE u[a + i] = t[z + i]
    <3>1. a + i \in 1 .. L - D /\ old[a + i] = z + i
      BY <1>2, <1>3, <2>2, <2>3, <2>4
    <3>2. QED
      BY <1>7, <3>1
  <2>6. a + n <= Len(u) /\ z + n <= Len(t)
    BY <1>6, <2>4
  <2>7. SubSeq(t, z + 1, e - 1) \in Stuffable
    BY <2>3 DEF Whole
  <2> HIDE DEF n, e
  <2>8. SubSeq(u, a + 1, a + n) = SubSeq(t, z + 1, z + n)
    <3>1. u \in Seq(Nat) /\ a \in Nat /\ z \in Nat /\ n \in Nat
      BY <1>6, <2>2, <2>3, <2>4
    <3>2. Alike(u, a, t, z, n)
      BY <2>5 DEF Alike
    <3>3. QED
      BY <2>6, <3>1, <3>2, SamePart
  <2>9. QED
    BY <2>4, <2>7, <2>8
<1>12. u # <<>> => u[Len(u)] = Nl
  <2>1. SUFFICES ASSUME u # <<>> PROVE u[L - D] = Nl
    BY <1>6
  <2>2. L - D \in 1 .. L - D
    BY <1>2, <1>3, <1>6, <2>1
  <2>3. t[L] = Nl
    <3>1. t # <<>>
      BY <1>2
    <3>2. QED
      BY <3>1 DEF Whole
  <2>4. CASE L - D <= A
    <3>1. L - D = A /\ old[L - D] = A /\ A # 0
      BY <1>2, <1>3, <2>2, <2>4
    <3>2. A \in Nls(t)
      BY <1>1, <3>1
    <3>3. QED
      BY <1>7, <2>2, <3>1, <3>2 DEF Nls
  <2>5. CASE ~(L - D <= A)
    <3>1. old[L - D] = L
      BY <1>2, <1>3, <2>2, <2>5
    <3>2. QED
      BY <1>7, <2>2, <2>3, <3>1
  <2>6. QED
    BY <2>4, <2>5
<1>13. Cardinality(Nls(u)) \in Nat /\ Cardinality(Nls(u)) <= Cardinality(Nls(t))
  <2> DEFINE g == [i \in Nls(u) |-> old[i]]
  <2>1. Nls(u) \in SUBSET Nat /\ IsFiniteSet(Nls(u)) /\ IsFiniteSet(Nls(t))
    BY <1>6, NlsAre
  <2>2. g \in [Nls(u) -> Nls(t)]
    BY <1>8
  <2>3. ASSUME NEW i \in Nls(u), NEW j \in Nls(u), g[i] = g[j] PROVE i = j
    <3>1. i \in Nat /\ j \in Nat /\ old[i] = old[j]
      BY <2>1, <2>3
    <3>2. (IF i <= A THEN i ELSE i + D) = (IF j <= A THEN j ELSE j + D)
      BY <3>1
    <3>3. QED
      BY <1>2, <1>3, <3>1, <3>2
  <2>4. g \in Injection(Nls(u), Nls(t))
    <3> HIDE DEF g
    <3>1. QED
      BY <2>2, <2>3 DEF Injection, IsInjective
  <2>5. Cardinality(Nls(u)) <= Cardinality(Nls(t))
    BY <2>1, <2>4, FS_Injection
  <2>6. QED
    BY <2>1, <2>5, FS_CardinalityType
<1>14. QED
  <2>1. Len(u) <= Len(t)
    BY <1>2, <1>3, <1>6
  <2>2. QED
    BY <1>6, <1>11, <1>12, <1>13, <2>1 DEF Whole, u

(* The inductive invariant: what is on its way brings the key the server knows of to what is
   held at the client, unless the client was banned or wrote too much; the text is whole. *)
KeyKept(s, ps, d) ==
  /\ s \in Slot /\ ps \in Seq(Seq(KeyCommand)) /\ d \in HeldSets /\ (s.owed => s.pressed)
  /\ Lives(s) => InStep(s) /\ \E f : Follows(ps, f, KeysOf(s), d)
TextKept(t, n) ==
  /\ t \in Seq(Nat) /\ Len(t) < Space /\ Whole(t) /\ Cardinality(Nls(t)) <= n /\ n \in Nat /\ n <= MaxListEdits
CmInv == KeyKept(sv, packets, down) /\ TextKept(stuffString, listEdits)

LEMMA NothingHeld ==
  ASSUME NEW s \in Slot, s.keys = <<0, 0>>, s.held = FALSE, s.owed = FALSE
  PROVE  KeyKept(s, <<>>, {})
<1>1. KeysOf(s) = {} /\ InStep(s)
  BY DEF KeysOf, InStep
<1>2. {} \in HeldSets
  BY FS_EmptySet DEF HeldSets
<1> DEFINE f == [i \in 0 .. 0 |-> {}]
<1>3. Follows(<<>>, f, {}, {})
  BY <1>2 DEF Follows
<1>4. <<>> \in Seq(Seq(KeyCommand))
  OBVIOUS
<1>5. \E g : Follows(<<>>, g, KeysOf(s), {})
  <2> HIDE DEF f
  <2>1. QED
    BY <1>1, <1>3
<1>6. QED
  BY <1>1, <1>2, <1>4, <1>5 DEF KeyKept

LEMMA CmStarts == CmInit => CmInv
<1>1. SUFFICES ASSUME CmInit PROVE CmInv
  OBVIOUS
<1>2. KeyKept(sv, packets, down)
  <2>1. sv \in Slot
    BY <1>1 DEF CmInit, Slot
  <2>2. packets = <<>> /\ down = {} /\ sv.keys = <<0, 0>> /\ sv.held = FALSE /\ sv.owed = FALSE
    BY <1>1 DEF CmInit
  <2>3. QED
    BY <2>1, <2>2, NothingHeld
<1>3. TextKept(stuffString, listEdits)
  <2>1. stuffString = <<>> /\ listEdits = 0
    BY <1>1 DEF CmInit
  <2>2. <<>> \in Seq(Nat) /\ Len(<<>>) = 0
    OBVIOUS
  <2>3. Nls(<<>>) = {}
    BY DEF Nls
  <2>4. Whole(<<>>)
    BY <2>3 DEF Whole, Next2
  <2>5. QED
    BY <2>1, <2>2, <2>3, <2>4, FS_EmptySet, CmAssumption DEF TextKept
<1>4. QED
  BY <1>2, <1>3 DEF CmInv

LEMMA ReadsKeep == ASSUME CmInv, ServerReads PROVE CmInv'
<1>1. /\ packets # <<>> /\ packets' = Tail(packets) /\ sv' = ReadPacket(sv, Head(packets))
      /\ down' = down /\ stuffString' = stuffString /\ listEdits' = listEdits
  BY DEF ServerReads
<1>2. KeyKept(sv, packets, down) /\ TextKept(stuffString, listEdits)
  BY DEF CmInv
<1> DEFINE s == sv
           ps == packets
           p == Head(packets)
           t == ReadPacket(s, p)
<1>3. s \in Slot /\ ps \in Seq(Seq(KeyCommand)) /\ down \in HeldSets /\ (s.owed => s.pressed)
  BY <1>2 DEF KeyKept
<1>4. p \in Seq(KeyCommand) /\ Tail(ps) \in Seq(Seq(KeyCommand))
  BY <1>1, <1>3
<1>5. /\ t \in Slot /\ (t.owed => t.pressed) /\ (Lives(t) => Lives(s))
      /\ Lives(t) => \A e : InStep(s) /\ Carries(p, KeysOf(s), e) => InStep(t) /\ KeysOf(t) = e
  <2>1. Brings(s, p, t)
    BY <1>3, <1>4, PacketKeeps
  <2> HIDE DEF t
  <2>2. QED
    BY <1>3, <2>1 DEF Brings
<1>6. ASSUME Lives(t) PROVE InStep(t) /\ \E f : Follows(Tail(ps), f, KeysOf(t), down)
  <2>1. InStep(s) /\ \E f : Follows(ps, f, KeysOf(s), down)
    BY <1>2, <1>5, <1>6 DEF KeyKept
  <2>2. PICK f : Follows(ps, f, KeysOf(s), down)
    BY <2>1
  <2>3. PICK m \in HeldSets : Carries(p, KeysOf(s), m) /\ \E h : Follows(Tail(ps), h, m, down)
    <3>1. ps # <<>>
      BY <1>1
    <3>2. QED
      BY <1>3, <2>2, <3>1, OnePacketLess
  <2> HIDE DEF t
  <2>4. InStep(t) /\ KeysOf(t) = m
    BY <1>5, <1>6, <2>1, <2>3
  <2>5. QED
    BY <2>3, <2>4
<1>7. KeyKept(t, Tail(ps), down)
  <2> HIDE DEF t
  <2>1. QED
    BY <1>3, <1>4, <1>5, <1>6 DEF KeyKept
<1>8. QED
  BY <1>1, <1>2, <1>7 DEF CmInv

LEMMA ThinksKeep == ASSUME CmInv, ClientThink PROVE CmInv'
<1>1. /\ packets' = packets /\ down' = down /\ stuffString' = stuffString /\ listEdits' = listEdits
      /\ sv' \in {sv, [sv EXCEPT !.pressed = FALSE, !.owed = FALSE]}
  BY DEF ClientThink
<1>2. KeyKept(sv, packets, down) /\ TextKept(stuffString, listEdits)
  BY DEF CmInv
<1> DEFINE t == [sv EXCEPT !.pressed = FALSE, !.owed = FALSE]
<1>3. sv \in Slot
  BY <1>2 DEF KeyKept
<1>4. /\ t \in Slot /\ t.owed = FALSE /\ t.state = sv.state /\ t.missed = sv.missed
      /\ t.keys = sv.keys /\ t.held = sv.held
  BY <1>3 DEF Slot
<1>5. KeyKept(t, packets, down)
  <2> HIDE DEF t
  <2>1. (Lives(t) <=> Lives(sv)) /\ KeysOf(t) = KeysOf(sv) /\ (InStep(t) <=> InStep(sv))
    BY <1>4 DEF Lives, KeysOf, InStep
  <2>2. QED
    BY <1>2, <1>4, <2>1 DEF KeyKept
<1>6. QED
  BY <1>1, <1>2, <1>5 DEF CmInv

LEMMA LevelKeeps == ASSUME CmInv, Level PROVE CmInv'
<1>1. KeyKept(sv, packets, down) /\ TextKept(stuffString, listEdits) /\ stuffString' = stuffString /\ listEdits' = listEdits
  BY DEF CmInv, Level
<1>2. sv \in Slot /\ sv.state \in {"connected", "spawned", "zombie"}
  BY <1>1 DEF KeyKept, Slot
<1>3. CASE sv.state # "zombie"
  <2> DEFINE w == IF sv.state = "spawned" THEN "connected" ELSE "spawned"
             t == [sv EXCEPT !.state = w]
  <2>1. sv' = t /\ packets' = packets /\ down' = down
    BY <1>2, <1>3 DEF Level
  <2>2. w \in {"connected", "spawned"}
    OBVIOUS
  <2> HIDE DEF w
  <2>3. /\ t \in Slot /\ t.owed = sv.owed /\ t.pressed = sv.pressed /\ t.state = w /\ t.missed = sv.missed
        /\ t.keys = sv.keys /\ t.held = sv.held
    BY <1>2, <2>2 DEF Slot
  <2> HIDE DEF t
  <2>4. (Lives(t) <=> Lives(sv)) /\ KeysOf(t) = KeysOf(sv) /\ (InStep(t) <=> InStep(sv))
    BY <1>3, <2>2, <2>3 DEF Lives, KeysOf, InStep
  <2>5. KeyKept(t, packets, down)
    BY <1>1, <2>3, <2>4 DEF KeyKept
  <2>6. QED
    BY <1>1, <2>1, <2>5 DEF CmInv
<1>4. CASE sv.state = "zombie"
  <2> DEFINE t == [state |-> "connected", keys |-> <<0, 0>>, held |-> FALSE,
                   pressed |-> FALSE, owed |-> FALSE, missed |-> FALSE]
  <2>1. sv' = t /\ packets' = <<>> /\ down' = {}
    BY <1>4 DEF Level
  <2>2. t \in Slot /\ t.keys = <<0, 0>> /\ t.held = FALSE /\ t.owed = FALSE
    BY DEF Slot
  <2> HIDE DEF t
  <2>3. KeyKept(t, <<>>, {})
    BY <2>2, NothingHeld
  <2>4. QED
    BY <1>1, <2>1, <2>3 DEF CmInv
<1>5. QED
  BY <1>3, <1>4

LEMMA PressesKeep == ASSUME CmInv, Presses PROVE CmInv'
<1>1. KeyKept(sv, packets, down) /\ TextKept(stuffString, listEdits)
      /\ sv' = sv /\ stuffString' = stuffString /\ listEdits' = listEdits
  BY DEF CmInv, Presses
<1> DEFINE Told(p, g) == [i \in 1 .. Len(p) |-> [name |-> IF p[i] \in g[i-1] THEN "-activate" ELSE "+activate", key |-> p[i]]]
<1>2. PICK p \in SeqOf(Keys, MaxInPacket) \ {<<>>} :
        /\ \A i \in 1 .. Len(p) : Cardinality(DownsOf(p, down)[i]) <= 2 /\ (p[i] = Console => DownsOf(p, down)[i-1] \subseteq {Console})
        /\ down' = DownsOf(p, down)[Len(p)] /\ packets' = Append(packets, Told(p, DownsOf(p, down)))
  BY DEF Presses, Keys, DownsOf
<1>3. p \in Seq(Keys)
  <2>1. PICK m \in 0 .. MaxInPacket : p \in [1 .. m -> Keys]
    BY <1>2 DEF SeqOf
  <2>2. m \in Nat
    BY CmAssumption, <2>1
  <2>3. QED
    BY <2>1, <2>2, SeqDef
<1>4. /\ sv \in Slot /\ packets \in Seq(Seq(KeyCommand)) /\ down \in HeldSets /\ (sv.owed => sv.pressed)
      /\ Lives(sv) => InStep(sv) /\ \E f : Follows(packets, f, KeysOf(sv), down)
  BY <1>1 DEF KeyKept
<1> DEFINE N == Len(p)
           g == DownsOf(p, down)
           c == Told(p, g)
<1>5. /\ g = [i \in 0 .. N |-> g[i]] /\ g[0] = down /\ \A i \in 1 .. N : g[i] = Touch(g[i-1], p[i])
      /\ \A i \in 0 .. N : g[i] \in SUBSET Keys /\ IsFiniteSet(g[i])
  BY <1>3, <1>4, PressesAre DEF Pressed
<1>6. N \in Nat /\ \A i \in 1 .. N : p[i] \in Keys
  BY <1>3
<1>7. /\ \A i \in 1 .. N : Cardinality(g[i]) <= 2 /\ (p[i] = Console => g[i-1] \subseteq {Console})
      /\ down' = g[N] /\ packets' = Append(packets, c)
  BY <1>2
<1> HIDE DEF g
<1>8. \A i \in 0 .. N : g[i] \in HeldSets
  <2>1. TAKE i \in 0 .. N
  <2>2. i = 0 \/ i \in 1 .. N
    BY <1>6
  <2>3. QED
    BY <1>4, <1>5, <1>7, <2>2 DEF HeldSets
<1>9. g \in [0 .. N -> HeldSets]
  BY <1>5, <1>8
<1>10. \A i \in 1 .. N : c[i] \in KeyCommand /\ c[i].key = p[i] /\ c[i].name = IF p[i] \in g[i-1] THEN "-activate" ELSE "+activate"
  BY <1>6 DEF KeyCommand
<1>11. c \in Seq(KeyCommand) /\ Len(c) = N
  <2>1. c = [i \in 1 .. N |-> c[i]]
    OBVIOUS
  <2>2. c \in [1 .. N -> KeyCommand]
    BY <1>10, <2>1
  <2>3. QED
    BY <1>6, <2>2, SeqDef, LenProperties
<1> HIDE DEF c
<1>12. \A i \in 1 .. N : Touches(g[i-1], c[i], g[i])
  BY <1>5, <1>7, <1>10 DEF Touches
<1>13. Carries(c, down, g[N])
  <2>1. Leads(c, g, down, g[N])
    <3> HIDE DEF N
    <3>1. QED
      BY <1>5, <1>9, <1>11, <1>12 DEF Leads
  <2>2. QED
    BY <2>1 DEF Carries
<1>14. g[N] \in HeldSets
  BY <1>6, <1>8
<1>15. ASSUME Lives(sv) PROVE \E f : Follows(Append(packets, c), f, KeysOf(sv), g[N])
  BY <1>4, <1>11, <1>13, <1>14, <1>15, OnePacketMore
<1>16. Append(packets, c) \in Seq(Seq(KeyCommand))
  BY <1>4, <1>11
<1>17. KeyKept(sv, Append(packets, c), g[N])
  BY <1>4, <1>14, <1>15, <1>16 DEF KeyKept
<1>18. QED
  BY <1>1, <1>7, <1>17 DEF CmInv

LEMMA OperatorKeeps == ASSUME CmInv, Operator PROVE CmInv'
<1>1. /\ KeyKept(sv, packets, down) /\ TextKept(stuffString, listEdits)
      /\ down' = down /\ packets' = packets /\ sv' = sv /\ listEdits < MaxListEdits /\ listEdits' = listEdits + 1
  BY DEF CmInv, Operator
<1> DEFINE t == stuffString
           n == listEdits
<1>2. /\ t \in Seq(Nat) /\ Len(t) < Space /\ Whole(t) /\ Cardinality(Nls(t)) <= n /\ n \in Nat /\ n + 1 <= MaxListEdits
      /\ Cardinality(Nls(t)) \in Nat /\ Len(t) \in Nat /\ n + 1 \in Nat
  <2>1. t \in Seq(Nat) /\ Len(t) < Space /\ Whole(t) /\ Cardinality(Nls(t)) <= n /\ n \in Nat
    BY <1>1 DEF TextKept
  <2>2. Cardinality(Nls(t)) \in Nat /\ Len(t) \in Nat
    BY <2>1, NlsAre, FS_CardinalityType
  <2>3. QED
    BY <1>1, <2>1, <2>2, CmAssumption
<1>3. TextKept(stuffString', n + 1)
  <2>1. CASE stuffString' = stuffString
    BY <1>2, <2>1 DEF TextKept
  <2>2. ASSUME NEW s \in Stuffable, AddStuffCmd(s) PROVE TextKept(stuffString', n + 1)
    <3> DEFINE u == stuffString \o s \o <<Nl>>
    <3>1. stuffString' = u /\ Len(t) + Len(s) + 2 < Space /\ Len(s) \in Nat
      BY <2>2, CmAssumption DEF AddStuffCmd
    <3>2. u \in Seq(Nat) /\ Whole(u) /\ Len(u) = Len(t) + Len(s) + 1
          /\ Cardinality(Nls(u)) \in Nat /\ Cardinality(Nls(u)) <= Cardinality(Nls(t)) + 1
      BY <1>2, AddsCommand
    <3> HIDE DEF u
    <3>3. Len(u) < Space /\ Cardinality(Nls(u)) <= n + 1
      BY <1>2, <3>1, <3>2, CmAssumption
    <3>4. QED
      BY <1>2, <3>1, <3>2, <3>3 DEF TextKept
  <2>3. ASSUME NEW i \in 0 .. (MaxListEdits - 1), DelStuffCmd(i) PROVE TextKept(stuffString', n + 1)
    <3> DEFINE A == EndOf(i - 1)
               B == EndOf(i)
               u == SubSeq(stuffString, 1, A) \o SubSeq(stuffString, B + 1, Len(stuffString))
    <3>1. stuffString' = u /\ i < Cardinality(Ends) /\ Ends = Nls(t)
      BY <2>3 DEF DelStuffCmd, Ends, Nls
    <3>2. i \in 0 .. Cardinality(Ends) - 1
      BY <1>2, <3>1, CmAssumption
    <3>3. Next2(stuffString, A, B)
      BY <1>2, <3>2, EndsFollow
    <3> HIDE DEF A, B
    <3>4. u \in Seq(Nat) /\ Whole(u) /\ Len(u) <= Len(t)
          /\ Cardinality(Nls(u)) \in Nat /\ Cardinality(Nls(u)) <= Cardinality(Nls(t))
      BY <1>2, <3>3, TakesCommand
    <3> HIDE DEF u
    <3>5. Len(u) < Space /\ Cardinality(Nls(u)) <= n + 1
      BY <1>2, <3>4, CmAssumption
    <3>6. QED
      BY <1>2, <3>1, <3>4, <3>5 DEF TextKept
  <2>4. QED
    BY <2>1, <2>2, <2>3 DEF Operator
<1>4. QED
  BY <1>1, <1>3 DEF CmInv

LEMMA CmStep == CmInv /\ [CmNext]_cmVars => CmInv'
<1>1. SUFFICES ASSUME CmInv, [CmNext]_cmVars PROVE CmInv'
  OBVIOUS
<1>2. CASE UNCHANGED cmVars
  BY <1>1, <1>2 DEF cmVars, CmInv
<1>3. CASE CmNext
  BY <1>1, <1>3, ReadsKeep, ThinksKeep, LevelKeeps, PressesKeep, OperatorKeeps DEF CmNext
<1>4. QED
  BY <1>1, <1>2, <1>3

LEMMA CmHolds == CmInv => CommandsAreKept
<1>1. SUFFICES ASSUME CmInv PROVE CommandsAreKept
  OBVIOUS
<1>2. KeyKept(sv, packets, down) /\ TextKept(stuffString, listEdits)
  BY <1>1 DEF CmInv
<1>3. HeldWhileDown
  <2>1. SUFFICES ASSUME packets = <<>>, Lives(sv) PROVE sv.held <=> down # {}
    BY DEF HeldWhileDown, Lives
  <2>2. InStep(sv) /\ \E f : Follows(packets, f, KeysOf(sv), down)
    BY <1>2, <2>1 DEF KeyKept
  <2>3. PICK f : Follows(<<>>, f, KeysOf(sv), down)
    BY <2>1, <2>2
  <2>4. KeysOf(sv) = down
    BY <2>3 DEF Follows
  <2>5. QED
    BY <2>2, <2>4 DEF InStep
<1>4. PressIsSeen
  BY <1>2 DEF KeyKept, PressIsSeen
<1>5. StuffIsWhole
  <2>1. /\ stuffString \in Seq(Nat) /\ Len(stuffString) < Space /\ Whole(stuffString) /\ Ends = Nls(stuffString)
        /\ Cardinality(Nls(stuffString)) <= listEdits /\ listEdits \in Nat /\ listEdits <= MaxListEdits
    BY <1>2 DEF TextKept, Ends, Nls
  <2>2. Cardinality(Ends) <= MaxListEdits
    <3>1. Cardinality(Nls(stuffString)) \in Nat
      BY <2>1, NlsAre, FS_CardinalityType
    <3>2. QED
      BY <2>1, <3>1, CmAssumption
  <2>3. ASSUME NEW n \in 0 .. (Cardinality(Ends) - 1)
        PROVE  SubSeq(stuffString, EndOf(n - 1) + 1, EndOf(n) - 1) \in Stuffable
    <3>1. Next2(stuffString, EndOf(n - 1), EndOf(n))
      BY <2>1, EndsFollow
    <3>2. QED
      BY <2>1, <3>1 DEF Whole
  <2>4. stuffString # <<>> => Last(stuffString) = Nl
    BY <2>1 DEF Whole, Last
  <2>5. QED
    BY <2>1, <2>2, <2>3, <2>4 DEF StuffIsWhole
<1>6. QED
  BY <1>3, <1>4, <1>5 DEF CommandsAreKept

(* Whatever is pressed, banned, stuffed and changed under way: the use key is held in the game    *)
(* as at the client once its commands have arrived, no press is lost, and the stuffed text is     *)
(* whole commands (SV_ActivateDown, SV_ActivateUp, SV_ExecuteUserCommand, SV_AddStuffCmd_f,       *)
(* SV_DelStuffCmd_f).                                                                            *)
THEOREM CommandsKept == CmSpec => []CommandsAreKept
<1>1. CmInv /\ [CmNext]_cmVars => CmInv'
  BY CmStep
<1>2. QED
  BY <1>1, CmStarts, CmHolds, PTL DEF CmSpec

-----------------------------------------------------------------------------
(* UserChecks *)
LEMMA FirstIn ==
  ASSUME NEW S \in SUBSET Nat, S # {}
  PROVE  First(S) \in S /\ \A j \in S : First(S) <= j
<1>1. PICK i \in S : \A j \in S : i <= j
  BY LeastOf
<1>2. QED
  BY <1>1 DEF First

(* The members of a finite set, in an order. *)
InAnOrder(S) == CHOOSE s \in [1 .. Cardinality(S) -> S] : ToSet(s) = S
Enumerates(s, S) ==
  /\ Cardinality(S) \in Nat /\ s \in [1 .. Cardinality(S) -> S] /\ s \in Seq(S) /\ Len(s) = Cardinality(S)
  /\ \A c \in S : \E i \in 1 .. Cardinality(S) : s[i] = c
  /\ \A i, j \in 1 .. Cardinality(S) : s[i] = s[j] => i = j
LEMMA Enumerated == ASSUME NEW S, IsFiniteSet(S) PROVE Enumerates(InAnOrder(S), S)
<1> DEFINE N == Cardinality(S)
           s == InAnOrder(S)
<1>1. N \in Nat /\ ExistsBijection(1 .. N, S)
  BY FS_CardinalityType
<1>2. PICK f : f \in Bijection(1 .. N, S)
  BY <1>1 DEF ExistsBijection
<1>3. f \in [1 .. N -> S] /\ \A c \in S : \E i \in 1 .. N : f[i] = c
  BY <1>2 DEF Bijection, Injection, Surjection
<1>4. ToSet(f) = S
  BY <1>3 DEF ToSet
<1>5. s \in [1 .. N -> S] /\ ToSet(s) = S
  BY <1>3, <1>4 DEF InAnOrder
<1> HIDE DEF s
<1>6. \A c \in S : \E i \in 1 .. N : s[i] = c
  BY <1>5 DEF ToSet
<1>7. s \in Surjection(1 .. N, S)
  BY <1>5, <1>6 DEF Surjection
<1>8. IsFiniteSet(1 .. N) /\ Cardinality(1 .. N) = N
  BY <1>1, CountUpTo
<1>9. s \in Injection(1 .. N, S)
  <2> HIDE DEF N
  <2>1. QED
    BY <1>7, <1>8, FS_SurjSameCardinalityImpliesInj DEF N
<1>10. \A i, j \in 1 .. N : s[i] = s[j] => i = j
  BY <1>9 DEF Injection, IsInjective
<1>11. s \in Seq(S) /\ Len(s) = N
  BY <1>1, <1>5, SeqDef, LenProperties
<1>12. QED
  BY <1>1, <1>5, <1>6, <1>10, <1>11 DEF Enumerates, s

-----------------------------------------------------------------------------
(* Names *)
NamesFit == \A n \in Names : Len(n) <= Stem + 2
AName == {n \in Seq(Nat) : Len(n) <= Stem + 2}
Named(l, nm) ==
  /\ l \in SUBSET Clients /\ nm \in [Clients -> AName]
  /\ \A c \in Clients \ l : nm[c] = <<>>
  /\ \A c, d \in l : c # d => nm[c] # nm[d]

LEMMA UptoIs ==
  ASSUME NEW s \in Seq(Nat), NEW n \in Nat
  PROVE  Upto(s, n) \in Seq(Nat) /\ Len(Upto(s, n)) <= n /\ (Len(s) <= n => Upto(s, n) = s)
<1> DEFINE m == IF Len(s) < n THEN Len(s) ELSE n
           u == SubSeq(s, 1, m)
<1>1. m \in Nat /\ m <= n /\ m <= Len(s) /\ (Len(s) <= n => m = Len(s))
  OBVIOUS
<1>2. Upto(s, n) = u
  BY DEF Upto
<1> HIDE DEF m
<1>3. u \in Seq(Nat) /\ Len(u) = m /\ \A i \in 1 .. m : u[i] = s[i]
  BY <1>1
<1>4. ASSUME Len(s) <= n PROVE u = s
  <2>1. m = Len(s)
    BY <1>1, <1>4
  <2> HIDE DEF u
  <2>2. QED
    BY <1>3, <2>1, SeqEqual
<1> HIDE DEF u
<1>5. QED
  BY <1>1, <1>2, <1>3, <1>4

(* There is a number that nobody has. *)
LEMMA NumberIsFree ==
  ASSUME Named(live, name), NEW c \in Clients, NEW b \in Seq(Nat)
  PROVE  \E k \in 2 .. (Cardinality(Clients) + 2) :
           /\ \A d \in Others(c) : name[d] # b \o <<k>>
           /\ \A j \in 2 .. (k - 1) : \E d \in Others(c) : name[d] = b \o <<j>>
<1> DEFINE N == Cardinality(Clients)
           R == 2 .. (N + 2)
           Taken(k) == \E d \in Others(c) : name[d] = b \o <<k>>
           Free == {k \in R : ~Taken(k)}
<1>1. IsFiniteSet(Clients) /\ N \in Nat
  BY UcAssumption, FS_CardinalityType
<1>2. Others(c) \in SUBSET Clients
  BY DEF Others, Named
<1>3. IsFiniteSet(Others(c)) /\ Cardinality(Others(c)) <= N
  BY <1>1, <1>2, FS_Subset
<1>4. IsFiniteSet(R) /\ Cardinality(R) = N + 1
  <2>1. 2 \in Int /\ N + 2 \in Int
    BY <1>1
  <2>2. IsFiniteSet(R) /\ Cardinality(R) = IF 2 > N + 2 THEN 0 ELSE (N + 2) - 2 + 1
    <3> HIDE DEF N
    <3>1. QED
      BY <2>1, FS_Interval
  <2>3. QED
    BY <1>1, <2>2
<1>5. ASSUME NEW j \in R, NEW k \in R, b \o <<j>> = b \o <<k>> PROVE j = k
  <2>1. j \in Nat /\ k \in Nat
    BY <1>1
  <2>2. (b \o <<j>>)[Len(b) + 1] = j /\ (b \o <<k>>)[Len(b) + 1] = k
    BY <2>1, OneMore
  <2>3. QED
    BY <1>5, <2>2
<1>6. Free # {}
  <2>1. SUFFICES ASSUME \A k \in R : Taken(k) PROVE FALSE
    OBVIOUS
  <2> DEFINE f == [k \in R |-> CHOOSE d \in Others(c) : name[d] = b \o <<k>>]
  <2>2. \A k \in R : f[k] \in Others(c) /\ name[f[k]] = b \o <<k>>
    BY <2>1
  <2>3. f \in [R -> Others(c)]
    BY <2>2
  <2>4. Cardinality(Others(c)) < Cardinality(R)
    <3>1. Cardinality(Others(c)) \in Nat
      BY <1>3, FS_CardinalityType
    <3>2. QED
      BY <1>1, <1>3, <1>4, <3>1
  <2> HIDE DEF f, R
  <2>5. \E j, k \in R : j # k /\ f[j] = f[k]
    BY <1>3, <1>4, <2>3, <2>4, FS_PigeonHole
  <2>6. PICK j \in R, k \in R : j # k /\ f[j] = f[k]
    BY <2>5
  <2>7. name[f[j]] = b \o <<j>> /\ name[f[k]] = b \o <<k>>
    BY <2>2
  <2>8. QED
    BY <1>5, <2>6, <2>7
<1>7. Free \in SUBSET Nat
  BY <1>1
<1>8. PICK k \in Free : \A j \in Free : k <= j
  <2> HIDE DEF Free
  <2>1. QED
    BY <1>6, <1>7, LeastOf
<1>9. k \in R /\ ~Taken(k)
  BY <1>8
<1>10. ASSUME NEW j \in 2 .. (k - 1) PROVE Taken(j)
  <2>1. j \in R /\ ~(k <= j)
    BY <1>1, <1>9
  <2> HIDE DEF Taken, R
  <2>2. QED
    BY <1>8, <2>1
<1>11. QED
  BY <1>9, <1>10

(* A name that is taken is one that nobody else has. *)
LEMMA ClashIs ==
  ASSUME Named(live, name), NEW c \in Clients, NEW n \in AName
  PROVE  NameClash(c, n) \in AName /\ \A d \in Others(c) : name[d] # NameClash(c, n)
<1> DEFINE v == Upto(n, Stem + 2)
<1>1. n \in Seq(Nat) /\ Len(n) <= Stem + 2 /\ Stem \in Nat /\ Stem + 2 \in Nat /\ name[c] \in AName
  BY UcAssumption DEF AName, Named
<1>2. v = n
  <2>1. Stem + 2 \in Nat
    BY <1>1
  <2> HIDE DEF v
  <2>2. QED
    BY <1>1, <2>1, UptoIs DEF v
<1> HIDE DEF v
<1>3. CASE \A d \in Others(c) : name[d] # v
  <2>1. NameClash(c, n) = n
    BY <1>3 DEF NameClash, v
  <2>2. QED
    BY <1>2, <1>3, <2>1
<1>4. CASE ~(\A d \in Others(c) : name[d] # v) /\ name[c] # <<>>
  <2>1. NameClash(c, n) = name[c]
    BY <1>4 DEF NameClash, v
  <2>2. c \in live
    BY <1>4 DEF Named
  <2>3. QED
    BY <1>1, <2>1, <2>2 DEF Named, Others
<1>5. CASE ~(\A d \in Others(c) : name[d] # v) /\ name[c] = <<>>
  <2> DEFINE b == Upto(v, Stem)
             Least(k) == /\ \A d \in Others(c) : name[d] # b \o <<k>>
                         /\ \A j \in 2 .. (k - 1) : \E d \in Others(c) : name[d] = b \o <<j>>
             k == CHOOSE x \in 2 .. (Cardinality(Clients) + 2) : Least(x)
  <2>1. NameClash(c, n) = b \o <<k>>
    BY <1>5 DEF NameClash, v
  <2>2. b \in Seq(Nat) /\ Len(b) <= Stem
    BY <1>1, <1>2, UptoIs
  <2> HIDE DEF b
  <2>3. k \in 2 .. (Cardinality(Clients) + 2) /\ Least(k)
    BY <2>2, NumberIsFree
  <2> HIDE DEF k
  <2>4. k \in Nat
    <3>1. Cardinality(Clients) \in Nat
      BY UcAssumption, FS_CardinalityType
    <3>2. QED
      BY <2>3, <3>1
  <2>5. b \o <<k>> \in Seq(Nat) /\ Len(b \o <<k>>) = Len(b) + 1
    BY <2>2, <2>4, OneMore
  <2>6. b \o <<k>> \in AName
    BY <1>1, <2>2, <2>5 DEF AName
  <2>7. QED
    BY <2>1, <2>3, <2>6
<1>6. QED
  BY <1>3, <1>4, <1>5

(* A name taken with a slot or by one who has it, and a slot given up. *)
LEMMA TakesName ==
  ASSUME Named(live, name), NEW c \in Clients, NEW n \in AName, live' = live \union {c},
         name' = [name EXCEPT ![c] = NameClash(c, n)]
  PROVE  Named(live', name')
<1> DEFINE r == NameClash(c, n)
<1>1. r \in AName /\ \A d \in Others(c) : name[d] # r
  BY ClashIs
<1> HIDE DEF r
<1>2. name' = [name EXCEPT ![c] = r]
  BY DEF r
<1>3. /\ live \in SUBSET Clients /\ name \in [Clients -> AName]
      /\ \A d \in Clients \ live : name[d] = <<>>
      /\ \A d, e \in live : d # e => name[d] # name[e]
  BY DEF Named
<1>4. name' \in [Clients -> AName] /\ name'[c] = r /\ \A d \in Clients : d # c => name'[d] = name[d]
  BY <1>1, <1>2, <1>3
<1>5. \A d \in live : d # c => name[d] # r
  BY <1>1 DEF Others
<1>6. QED
  BY <1>3, <1>4, <1>5 DEF Named

LEMMA GivesUpName ==
  ASSUME Named(live, name), NEW c \in Clients, Drop(c)
  PROVE  Named(live', name')
<1>1. /\ live \in SUBSET Clients /\ name \in [Clients -> AName]
      /\ \A d \in Clients \ live : name[d] = <<>>
      /\ \A d, e \in live : d # e => name[d] # name[e]
      /\ live' = live \ {c} /\ name' = [name EXCEPT ![c] = <<>>]
  BY DEF Named, Drop
<1>2. <<>> \in AName
  BY UcAssumption DEF AName
<1>3. name' \in [Clients -> AName] /\ name'[c] = <<>> /\ \A d \in Clients : d # c => name'[d] = name[d]
  BY <1>1, <1>2
<1>4. QED
  BY <1>1, <1>3 DEF Named

LEMMA KicksHit == ASSUME Named(live, name) PROVE KickHitsNamed
<1>1. SUFFICES ASSUME NEW c \in live PROVE SetPlayer(name[c]) = {c}
  BY DEF KickHitsNamed
<1> DEFINE exact == {d \in live : name[d] = name[c]}
           At1 == {i \in 1 .. Len(Slots) : Slots[i] \in {c}}
<1>2. exact = {c} /\ c \in Clients
  BY DEF Named
<1>3. SetPlayer(name[c]) = FirstOf({c})
  <2> HIDE DEF exact
  <2>1. SetPlayer(name[c]) = FirstOf(IF exact # {} THEN exact ELSE {d \in live : PartOf(name[c], name[d])})
    BY DEF SetPlayer, exact
  <2>2. QED
    BY <1>2, <2>1
<1>4. FirstOf({c}) = {Slots[First(At1)]}
  BY DEF FirstOf
<1>5. Len(Slots) \in Nat /\ \E i \in 1 .. Len(Slots) : Slots[i] = c
  <2>1. Slots = InAnOrder(Clients)
    BY DEF Slots, InAnOrder
  <2>2. Enumerates(Slots, Clients)
    BY <2>1, UcAssumption, Enumerated
  <2> HIDE DEF Slots
  <2>3. QED
    BY <1>2, <2>2 DEF Enumerates
<1>6. At1 \in SUBSET Nat /\ At1 # {}
  BY <1>5
<1>7. First(At1) \in At1
  <2> HIDE DEF At1
  <2>1. QED
    BY <1>6, FirstIn
<1>8. QED
  BY <1>3, <1>4, <1>7

-----------------------------------------------------------------------------
(* The operator's checks *)
Condition == [op : Ops, not : BOOLEAN, value : Values \ {0}, method : Methods]
Check == [var : UserinfoKeys, match : Seq(Condition)]
(* A list has one check for a variable. *)
Listed(bans) == /\ bans \in Seq(Check)
                /\ \A i, j \in 1 .. Len(bans) : bans[i].var = bans[j].var => i = j
(* What the conditions of one check come to. *)
HitsOf(match, v) == {i \in 1 .. Len(match) : Holds(match[i], v)}
Verdict(match, v) == IF HitsOf(match, v) = {} THEN <<>> ELSE <<match[First(HitsOf(match, v))]>>

LEMMA CheckAt ==
  ASSUME NEW bans, Listed(bans), NEW i \in 1 .. Len(bans), NEW var, bans[i].var = var
  PROVE  {j \in 1 .. Len(bans) : bans[j].var = var} = {i} /\ First({i}) = i
<1>1. {j \in 1 .. Len(bans) : bans[j].var = var} = {i}
  BY DEF Listed
<1>2. Len(bans) \in Nat
  BY DEF Listed
<1>3. {i} \in SUBSET Nat
  BY <1>2
<1>4. First({i}) \in {i}
  BY <1>3, FirstIn
<1>5. QED
  BY <1>1, <1>4

LEMMA MatchIs ==
  ASSUME NEW bans, Listed(bans), NEW var, NEW v
  PROVE  /\ \A i \in 1 .. Len(bans) : bans[i].var = var => VarBanMatch(bans, var, v) = Verdict(bans[i].match, v)
         /\ (\A i \in 1 .. Len(bans) : bans[i].var # var) => VarBanMatch(bans, var, v) = <<>>
<1> DEFINE b == {i \in 1 .. Len(bans) : bans[i].var = var}
<1>1. ASSUME NEW i \in 1 .. Len(bans), bans[i].var = var PROVE VarBanMatch(bans, var, v) = Verdict(bans[i].match, v)
  <2>1. b = {i} /\ First({i}) = i
    BY <1>1, CheckAt
  <2>2. b # {} /\ {k \in 1 .. Len(bans[First(b)].match) : Holds(bans[First(b)].match[k], v)} = HitsOf(bans[i].match, v)
    BY <2>1 DEF HitsOf
  <2> DEFINE hit == IF b = {} THEN {} ELSE {k \in 1 .. Len(bans[First(b)].match) : Holds(bans[First(b)].match[k], v)}
  <2>3. VarBanMatch(bans, var, v) = IF hit = {} THEN <<>> ELSE <<bans[First(b)].match[First(hit)]>>
    BY DEF VarBanMatch
  <2>4. hit = HitsOf(bans[i].match, v)
    BY <2>2
  <2> HIDE DEF b, hit
  <2>5. QED
    BY <2>1, <2>3, <2>4 DEF Verdict
<1>2. ASSUME \A i \in 1 .. Len(bans) : bans[i].var # var PROVE VarBanMatch(bans, var, v) = <<>>
  <2>1. b = {}
    BY <1>2
  <2> DEFINE hit == IF b = {} THEN {} ELSE {k \in 1 .. Len(bans[First(b)].match) : Holds(bans[First(b)].match[k], v)}
  <2>2. VarBanMatch(bans, var, v) = IF hit = {} THEN <<>> ELSE <<bans[First(b)].match[First(hit)]>>
    BY DEF VarBanMatch
  <2>3. hit = {}
    BY <2>1
  <2> HIDE DEF hit
  <2>4. QED
    BY <2>2, <2>3
<1>3. QED
  BY <1>1, <1>2

(* A condition that is added comes last. *)
LEMMA OldestFirst ==
  ASSUME NEW match \in Seq(Condition), NEW m \in Condition, NEW v, Verdict(match, v) # <<>>
  PROVE  Verdict(Append(match, m), v) = Verdict(match, v)
<1> DEFINE N == Len(match)
           q == Append(match, m)
           H == HitsOf(match, v)
           G == HitsOf(q, v)
<1>1. N \in Nat /\ Len(q) = N + 1 /\ \A i \in 1 .. N : q[i] = match[i]
  OBVIOUS
<1>2. H # {} /\ Verdict(match, v) = <<match[First(H)]>>
  BY DEF Verdict
<1>3. H \in SUBSET (1 .. N) /\ G \in SUBSET (1 .. N + 1) /\ \A i \in 1 .. N : i \in G <=> i \in H
  BY <1>1 DEF HitsOf
<1> HIDE DEF H, G, q
<1>4. First(H) \in H /\ \A i \in H : First(H) <= i
  <2>1. H \in SUBSET Nat
    BY <1>1, <1>3
  <2>2. QED
    BY <1>2, <2>1, FirstIn
<1>5. G # {} /\ First(G) \in G /\ \A i \in G : First(G) <= i
  <2>1. G \in SUBSET Nat
    BY <1>1, <1>3
  <2>2. G # {}
    BY <1>3, <1>4
  <2>3. QED
    BY <2>1, <2>2, FirstIn
<1>6. First(G) = First(H)
  <2>1. First(H) \in G /\ First(H) \in 1 .. N
    BY <1>3, <1>4
  <2>2. First(G) <= First(H) /\ First(G) \in 1 .. N + 1
    BY <1>3, <1>5, <2>1
  <2>3. First(G) \in 1 .. N
    BY <1>1, <2>1, <2>2
  <2>4. First(G) \in H
    BY <1>3, <1>5, <2>3
  <2>5. First(H) <= First(G)
    BY <1>4, <2>4
  <2>6. QED
    BY <1>1, <2>1, <2>2, <2>3, <2>5
<1>7. q[First(G)] = match[First(H)]
  BY <1>1, <1>3, <1>4, <1>6
<1>8. Verdict(q, v) = <<q[First(G)]>>
  BY <1>5 DEF Verdict, G
<1>9. QED
  BY <1>2, <1>7, <1>8 DEF q

(* The oldest condition of a check counts in a list as in another that goes on with it. *)
Keeps(bans, new) ==
  \A var \in UserinfoKeys, v \in Values :
    VarBanMatch(bans, var, v) # <<>> /\ var \in {new[i].var : i \in 1 .. Len(new)}
    => VarBanMatch(new, var, v) = VarBanMatch(bans, var, v)

LEMMA AddedTo ==
  ASSUME NEW bans, Listed(bans), NEW var \in UserinfoKeys, NEW m \in Condition
  PROVE  Listed(AddVarBan(bans, var, m)) /\ Keeps(bans, AddVarBan(bans, var, m))
<1> DEFINE N == Len(bans)
           new == AddVarBan(bans, var, m)
           at == {i \in 1 .. N : bans[i].var = var}
<1>1. /\ bans \in Seq(Check) /\ N \in Nat /\ \A i \in 1 .. N : bans[i] \in Check
      /\ \A i, j \in 1 .. N : bans[i].var = bans[j].var => i = j
  BY DEF Listed
<1>2. CASE at = {}
  <2> DEFINE b == [var |-> var, match |-> <<m>>]
  <2>1. new = Append(bans, b)
    BY <1>2 DEF AddVarBan
  <2>2. b \in Check /\ b.var = var
    BY DEF Check
  <2> HIDE DEF b, new
  <2>3. new \in Seq(Check) /\ Len(new) = N + 1 /\ new[N + 1] = b /\ \A i \in 1 .. N : new[i] = bans[i]
    BY <1>1, <2>1, <2>2
  <2>4. ASSUME NEW i \in 1 .. N + 1 PROVE i \in 1 .. N \/ i = N + 1
    BY <1>1
  <2>5. \A i \in 1 .. N : bans[i].var # var
    BY <1>2
  <2>6. Listed(new)
    BY <1>1, <2>2, <2>3, <2>4, <2>5 DEF Listed
  <2>7. ASSUME NEW x \in UserinfoKeys, NEW v \in Values, VarBanMatch(bans, x, v) # <<>>
        PROVE  VarBanMatch(new, x, v) = VarBanMatch(bans, x, v)
    <3>1. PICK i \in 1 .. N : bans[i].var = x
      BY <2>7, MatchIs
    <3>2. i \in 1 .. Len(new) /\ new[i].var = x /\ new[i].match = bans[i].match
      BY <1>1, <2>3, <3>1
    <3>3. VarBanMatch(bans, x, v) = Verdict(bans[i].match, v)
      BY <3>1, MatchIs
    <3>4. VarBanMatch(new, x, v) = Verdict(new[i].match, v)
      BY <2>6, <3>2, MatchIs
    <3>5. QED
      BY <3>2, <3>3, <3>4
  <2>8. QED
    BY <2>6, <2>7 DEF Keeps, new
<1>3. CASE at # {}
  <2>1. PICK k \in 1 .. N : bans[k].var = var
    BY <1>3
  <2>2. at = {k} /\ First({k}) = k
    <3>1. k \in 1 .. N /\ bans[k].var = var
      BY <2>1
    <3>2. at = {k}
      BY <1>1, <3>1
    <3>3. {k} \in SUBSET Nat
      BY <1>1, <3>1
    <3>4. First({k}) \in {k}
      BY <3>3, FirstIn
    <3> HIDE DEF at
    <3>5. QED
      BY <3>2, <3>4
  <2> DEFINE q == Append(bans[k].match, m)
             old == bans[k].match
  <2>3. bans[k] \in Check /\ old \in Seq(Condition) /\ q \in Seq(Condition)
    BY <1>1 DEF Check
  <2> HIDE DEF q
  <2>4. CASE m \in ToSet(old)
    <3>1. new = bans
      <4> HIDE DEF at
      <4>1. QED
        BY <1>3, <2>2, <2>4 DEF AddVarBan, at
    <3>2. QED
      BY <3>1 DEF Keeps
  <2>5. CASE m \notin ToSet(old)
    <3>1. new = [bans EXCEPT ![k].match = q]
      <4>1. new = [bans EXCEPT ![First(at)].match = Append(@, m)]
        BY <1>3, <2>2, <2>5 DEF AddVarBan
      <4> HIDE DEF at, new
      <4>2. new = [bans EXCEPT ![k].match = Append(@, m)]
        BY <2>2, <4>1
      <4>3. QED
        BY <4>2 DEF q
    <3> DEFINE b == [bans[k] EXCEPT !.match = q]
    <3>2. b \in Check /\ b.var = var /\ b.match = q
      BY <2>1, <2>3 DEF Check
    <3>3. new = [bans EXCEPT ![k] = b]
      BY <3>1
    <3> HIDE DEF b, new
    <3>4. new \in Seq(Check) /\ Len(new) = N /\ new[k] = b /\ \A i \in 1 .. N : i # k => new[i] = bans[i]
      BY <1>1, <2>1, <3>2, <3>3
    <3>5. \A i \in 1 .. N : new[i].var = bans[i].var
      BY <2>1, <3>2, <3>4
    <3>6. Listed(new)
      BY <1>1, <3>4, <3>5 DEF Listed
    <3>7. ASSUME NEW x \in UserinfoKeys, NEW v \in Values, VarBanMatch(bans, x, v) # <<>>
          PROVE  VarBanMatch(new, x, v) = VarBanMatch(bans, x, v)
      <4>1. PICK i \in 1 .. N : bans[i].var = x
        BY <3>7, MatchIs
      <4>2. i \in 1 .. Len(new) /\ new[i].var = x
        BY <3>4, <3>5, <4>1
      <4>3. VarBanMatch(bans, x, v) = Verdict(bans[i].match, v)
        BY <4>1, MatchIs
      <4>4. VarBanMatch(new, x, v) = Verdict(new[i].match, v)
        BY <3>6, <4>2, MatchIs
      <4>5. CASE i = k
        <5>1. Verdict(old, v) # <<>>
          BY <3>7, <4>3, <4>5
        <5>2. Verdict(q, v) = Verdict(old, v)
          BY <2>3, <5>1, OldestFirst DEF q
        <5>3. QED
          BY <3>2, <3>4, <4>3, <4>4, <4>5, <5>2
      <4>6. CASE i # k
        BY <3>4, <4>3, <4>4, <4>6
      <4>7. QED
        BY <4>5, <4>6
    <3>8. QED
      BY <3>6, <3>7 DEF Keeps, new
  <2>6. QED
    BY <2>4, <2>5
<1>4. QED
  BY <1>2, <1>3

LEMMA DeletedFrom ==
  ASSUME NEW bans, Listed(bans), NEW var \in UserinfoKeys
  PROVE  Listed(DeleteVarBan(bans, var)) /\ Keeps(bans, DeleteVarBan(bans, var))
<1> DEFINE N == Len(bans)
           new == DeleteVarBan(bans, var)
           at == {i \in 1 .. N : bans[i].var = var}
<1>1. /\ bans \in Seq(Check) /\ N \in Nat /\ \A i \in 1 .. N : bans[i] \in Check
      /\ \A i, j \in 1 .. N : bans[i].var = bans[j].var => i = j
  BY DEF Listed
<1>2. CASE at = {}
  <2>1. new = bans
    BY <1>2 DEF DeleteVarBan
  <2>2. QED
    BY <2>1 DEF Keeps
<1>3. CASE at # {}
  <2>1. PICK k \in 1 .. N : bans[k].var = var
    BY <1>3
  <2>2. at = {k} /\ First({k}) = k
    BY <2>1, CheckAt
  <2>3. new = RemoveAt(bans, k)
    <3>1. new = RemoveAt(bans, First(at))
      BY <1>3 DEF DeleteVarBan
    <3> HIDE DEF at, new
    <3>2. QED
      BY <2>2, <3>1
  <2> HIDE DEF new
  <2>4. new \in Seq(Check) /\ Len(new) = N - 1 /\ \A i \in 1 .. Len(new) : new[i] = bans[IF i < k THEN i ELSE i + 1]
    BY <1>1, <2>1, <2>3, RemovedIs
  <2> DEFINE old == [i \in 1 .. N - 1 |-> IF i < k THEN i ELSE i + 1]
  <2>5. ASSUME NEW i \in 1 .. N - 1
        PROVE  old[i] \in 1 .. N /\ old[i] # k /\ new[i] = bans[old[i]]
    <3>1. old[i] = IF i < k THEN i ELSE i + 1
      OBVIOUS
    <3>2. new[i] = bans[old[i]]
      BY <2>4, <3>1
    <3>3. old[i] \in 1 .. N /\ old[i] # k
      BY <1>1, <3>1
    <3>4. QED
      BY <3>2, <3>3
  <2>6. ASSUME NEW i \in 1 .. N - 1, NEW j \in 1 .. N - 1, old[i] = old[j] PROVE i = j
    <3>1. (IF i < k THEN i ELSE i + 1) = (IF j < k THEN j ELSE j + 1)
      BY <2>6
    <3>2. QED
      BY <1>1, <3>1
  <2> HIDE DEF old
  <2>7. Listed(new)
    <3>1. ASSUME NEW i \in 1 .. N - 1, NEW j \in 1 .. N - 1, new[i].var = new[j].var PROVE i = j
      <4>1. bans[old[i]].var = bans[old[j]].var /\ old[i] \in 1 .. N /\ old[j] \in 1 .. N
        BY <2>5, <3>1
      <4>2. old[i] = old[j]
        BY <1>1, <4>1
      <4>3. QED
        BY <2>6, <4>2
    <3>2. QED
      BY <2>4, <3>1 DEF Listed
  <2>8. ASSUME NEW x \in UserinfoKeys, NEW v \in Values, NEW i \in 1 .. Len(new), x = new[i].var
        PROVE  VarBanMatch(new, x, v) = VarBanMatch(bans, x, v)
    <3>1. i \in 1 .. N - 1
      BY <2>4
    <3>2. old[i] \in 1 .. N /\ bans[old[i]].var = x /\ new[i] = bans[old[i]]
      BY <2>5, <2>8, <3>1
    <3>3. VarBanMatch(bans, x, v) = Verdict(bans[old[i]].match, v)
      BY <3>2, MatchIs
    <3>4. VarBanMatch(new, x, v) = Verdict(new[i].match, v)
      BY <2>7, <2>8, MatchIs
    <3>5. QED
      BY <3>2, <3>3, <3>4
  <2>9. Keeps(bans, new)
    BY <2>8 DEF Keeps
  <2>10. QED
    BY <2>7, <2>9 DEF new
<1>4. QED
  BY <1>2, <1>3

-----------------------------------------------------------------------------
(* The keys of a userinfo, one after the other *)
LEMMA KeysInOrder == Enumerates(KeyOrder, UserinfoKeys)
<1>1. KeyOrder = InAnOrder(UserinfoKeys)
  BY DEF KeyOrder, InAnOrder
<1>2. QED
  BY <1>1, UcAssumption, Enumerated

VerdictOn(info, i) == VarBanMatch(userinfobans, KeyOrder[i], info[KeyOrder[i]])
MethodOn(info, i) == VerdictOn(info, i)[1].method
HitKeys(info) == {i \in 1 .. Len(KeyOrder) : VerdictOn(info, i) # <<>>}
DropKeys(info) == {i \in HitKeys(info) : Drops(MethodOn(info, i))}
Judged(info) == {i \in HitKeys(info) : \A j \in DropKeys(info) : i <= j}
Up(J, q) == {j \in J : j <= q}

(* One turn of the loop, from the key at place q. *)
Turn(info, p) ==
  LET k == CheckUserinfoBans(info, p.key)
  IN IF p.over \/ k = <<>> THEN [p EXCEPT !.over = TRUE]
     ELSE LET m == VarBanMatch(userinfobans, k[1], info[k[1]])[1]
          IN [key |-> k, did |-> Append(p.did, m.method), over |-> Drops(m.method)]
KeyAt(q) == IF q = 0 THEN <<>> ELSE <<KeyOrder[q]>>
JudgedUpTo(info, p, q, n) ==
  /\ q \in 0 .. Len(KeyOrder) /\ p.key = KeyAt(q) /\ p.over \in BOOLEAN
  /\ p.did \in Seq({MethodOn(info, i) : i \in HitKeys(info)})
  /\ p = [key |-> p.key, did |-> p.did, over |-> p.over]
  /\ Len(p.did) = Cardinality(Up(Judged(info), q))
  /\ \A i \in Judged(info) : i <= q => p.did[Cardinality(Up(Judged(info), i))] = MethodOn(info, i)
  /\ ~p.over => Len(p.did) = n /\ \A j \in DropKeys(info) : j > q
  /\ p.over => \A j \in Judged(info) : j <= q

LEMMA NextKeyIs ==
  ASSUME NEW info, NEW q \in 0 .. Len(KeyOrder)
  PROVE  LET hit == {i \in HitKeys(info) : i > q}
         IN  /\ hit = {} => CheckUserinfoBans(info, KeyAt(q)) = <<>>
             /\ hit # {} => CheckUserinfoBans(info, KeyAt(q)) = <<KeyOrder[First(hit)]>>
<1> DEFINE K == Len(KeyOrder)
           key == KeyAt(q)
           from == IF key = <<>> THEN 1 ELSE 1 + First({i \in 1 .. K : <<KeyOrder[i]>> = key})
           found == {i \in from .. K : VarBanMatch(userinfobans, KeyOrder[i], info[KeyOrder[i]]) # <<>>}
           hit == {i \in HitKeys(info) : i > q}
<1>1. K \in Nat /\ \A i, j \in 1 .. K : KeyOrder[i] = KeyOrder[j] => i = j
  BY KeysInOrder DEF Enumerates
<1>2. CheckUserinfoBans(info, key) = IF found = {} THEN <<>> ELSE <<KeyOrder[First(found)]>>
  BY DEF CheckUserinfoBans
<1>3. from = q + 1
  <2>1. CASE q = 0
    <3>1. key = <<>>
      BY <2>1 DEF KeyAt
    <3>2. QED
      BY <2>1, <3>1
  <2>2. CASE q # 0
    <3>1. key = <<KeyOrder[q]>> /\ key # <<>>
      BY <2>2 DEF KeyAt
    <3>2. q \in 1 .. K
      BY <1>1, <2>2
    <3> DEFINE S == {i \in 1 .. K : <<KeyOrder[i]>> = key}
    <3>3. S = {q}
      BY <1>1, <3>1, <3>2
    <3>4. {q} \in SUBSET Nat
      BY <1>1, <3>2
    <3>5. First({q}) \in {q}
      BY <3>4, FirstIn
    <3>6. from = 1 + First(S)
      BY <3>1
    <3>7. QED
      <4> HIDE DEF S, from
      <4>1. QED
        BY <1>1, <3>2, <3>3, <3>5, <3>6
  <2>3. QED
    BY <2>1, <2>2
<1>4. found = hit
  <2> HIDE DEF from, key
  <2>1. found = {i \in q + 1 .. K : VerdictOn(info, i) # <<>>}
    BY <1>3 DEF VerdictOn
  <2>2. \A i : i \in q + 1 .. K <=> i \in 1 .. K /\ i > q
    BY <1>1
  <2>3. hit = {i \in 1 .. K : VerdictOn(info, i) # <<>> /\ i > q}
    BY DEF HitKeys
  <2>4. QED
    BY <2>1, <2>2, <2>3
<1>5. QED
  <2> HIDE DEF found, hit, key
  <2>1. QED
    BY <1>2, <1>4 DEF hit, key

IsNext(J, x, q) == x > q /\ \A j \in J : j > q => x <= j
OneFurther(J, x, q) ==
  Up(J, x) = Up(J, q) \union {x} /\ Cardinality(Up(J, x)) = Cardinality(Up(J, q)) + 1
LEMMA UpIs2 ==
  ASSUME NEW J, NEW K \in Nat, J \in SUBSET (1 .. K), NEW q \in 0 .. K
  PROVE  /\ Cardinality(Up(J, q)) \in Nat /\ IsFiniteSet(Up(J, q)) /\ Cardinality(Up(J, q)) <= K
         /\ \A x \in J : IsNext(J, x, q) => OneFurther(J, x, q)
<1>1. IsFiniteSet(1 .. K) /\ Cardinality(1 .. K) = K
  BY CountUpTo
<1>2. Up(J, q) \in SUBSET (1 .. K)
  BY DEF Up
<1>3. IsFiniteSet(Up(J, q)) /\ Cardinality(Up(J, q)) <= K /\ Cardinality(Up(J, q)) \in Nat
  BY <1>1, <1>2, FS_Subset, FS_CardinalityType
<1>4. ASSUME NEW x \in J, x > q, \A j \in J : j > q => x <= j
      PROVE  Up(J, x) = Up(J, q) \union {x} /\ Cardinality(Up(J, x)) = Cardinality(Up(J, q)) + 1
  <2>1. \A j \in J : j \in Nat /\ q \in Nat /\ x \in Nat
    OBVIOUS
  <2>2. ASSUME NEW j \in J PROVE j <= x <=> (j <= q \/ j = x)
    <3>1. j \in Nat /\ q \in Nat /\ x \in Nat /\ (j > q => x <= j)
      BY <1>4, <2>1
    <3>2. QED
      BY <1>4, <3>1
  <2>3. Up(J, x) = Up(J, q) \union {x}
    BY <2>2 DEF Up
  <2>4. x \notin Up(J, q)
    BY <1>4, <2>1 DEF Up
  <2>5. QED
    BY <1>3, <2>3, <2>4, FS_AddElement
<1>5. QED
  BY <1>3, <1>4 DEF IsNext, OneFurther

LEMMA TurnIs ==
  ASSUME NEW info, NEW p, NEW q, NEW n \in Nat, JudgedUpTo(info, p, q, n)
  PROVE  \E r : JudgedUpTo(info, Turn(info, p), r, n + 1)
<1> DEFINE K == Len(KeyOrder)
           J == Judged(info)
           D == {MethodOn(info, i) : i \in HitKeys(info)}
           hit == {i \in HitKeys(info) : i > q}
           k == CheckUserinfoBans(info, p.key)
           t == Turn(info, p)
<1>1. K \in Nat /\ HitKeys(info) \in SUBSET (1 .. K) /\ DropKeys(info) \in SUBSET HitKeys(info) /\ J \in SUBSET HitKeys(info)
      /\ J \in SUBSET (1 .. K)
  BY KeysInOrder DEF Enumerates, HitKeys, DropKeys, Judged
<1>2. /\ q \in 0 .. K /\ p.key = KeyAt(q) /\ p.over \in BOOLEAN /\ p.did \in Seq(D)
      /\ p = [key |-> p.key, did |-> p.did, over |-> p.over]
      /\ Len(p.did) = Cardinality(Up(J, q))
      /\ \A i \in J : i <= q => p.did[Cardinality(Up(J, i))] = MethodOn(info, i)
      /\ ~p.over => Len(p.did) = n /\ \A j \in DropKeys(info) : j > q
      /\ p.over => \A j \in J : j <= q
  BY DEF JudgedUpTo
<1>3. (hit = {} => k = <<>>) /\ (hit # {} => k = <<KeyOrder[First(hit)]>>)
  BY <1>2, NextKeyIs
<1>4. CASE p.over \/ hit = {}
  <2>1. t = [p EXCEPT !.over = TRUE]
    BY <1>3, <1>4 DEF Turn
  <2>2. t.key = p.key /\ t.did = p.did /\ t.over = TRUE /\ t = [key |-> t.key, did |-> t.did, over |-> t.over]
    BY <1>2, <2>1
  <2>3. \A j \in J : j <= q
    <3>1. CASE p.over
      BY <1>2, <3>1
    <3>2. CASE hit = {}
      <4>1. \A j \in J : j \in Nat /\ q \in Nat /\ ~(j > q)
        BY <1>1, <1>2, <3>2
      <4>2. QED
        BY <4>1
    <3>3. QED
      BY <1>4, <3>1, <3>2
  <2> HIDE DEF t
  <2>4. JudgedUpTo(info, t, q, n + 1)
    BY <1>2, <2>2, <2>3 DEF JudgedUpTo
  <2>5. QED
    BY <2>4 DEF t
<1>5. CASE ~p.over /\ hit # {}
  <2> DEFINE x == First(hit)
             method == MethodOn(info, x)
             d == Append(p.did, method)
  <2>1. x \in hit /\ \A j \in hit : x <= j
    <3>1. hit \in SUBSET Nat
      BY <1>1
    <3> HIDE DEF hit
    <3>2. QED
      BY <1>5, <3>1, FirstIn
  <2> HIDE DEF x
  <2>2. x \in HitKeys(info) /\ x > q /\ x \in 1 .. K /\ \A j \in HitKeys(info) : j > q => x <= j
    BY <1>1, <2>1
  <2>3. k = <<KeyOrder[x]>>
    BY <1>3, <1>5 DEF x
  <2>4. VarBanMatch(userinfobans, k[1], info[k[1]])[1].method = method
    BY <2>3 DEF MethodOn, VerdictOn
  <2>5. t = [key |-> k, did |-> d, over |-> Drops(method)]
    <3>1. k # <<>>
      BY <2>3
    <3> HIDE DEF k, hit
    <3>2. QED
      BY <1>5, <2>4, <3>1 DEF Turn, k
  <2>6. x \in J
    <3>1. \A j \in DropKeys(info) : x <= j
      BY <1>1, <1>2, <1>5, <2>2
    <3>2. QED
      BY <2>2, <3>1 DEF Judged
  <2>7. Up(J, x) = Up(J, q) \union {x} /\ Cardinality(Up(J, x)) = Cardinality(Up(J, q)) + 1 /\ Cardinality(Up(J, q)) \in Nat
    <3>1. IsNext(J, x, q)
      BY <1>1, <2>2 DEF IsNext
    <3> HIDE DEF J
    <3>2. OneFurther(J, x, q) /\ Cardinality(Up(J, q)) \in Nat
      BY <1>1, <1>2, <2>6, <3>1, UpIs2
    <3>3. QED
      BY <3>2 DEF OneFurther
  <2>8. method \in D /\ d \in Seq(D) /\ Len(d) = Len(p.did) + 1 /\ d[Len(p.did) + 1] = method
        /\ \A i \in 1 .. Len(p.did) : d[i] = p.did[i]
    <3>1. method \in D
      BY <2>2
    <3> HIDE DEF method, D
    <3>2. QED
      BY <1>2, <3>1
  <2>9. Len(p.did) = n /\ n \in Nat
    BY <1>2, <1>5
  <2>10. ASSUME NEW i \in J, i <= x PROVE d[Cardinality(Up(J, i))] = MethodOn(info, i)
    <3>1. i \in Nat /\ q \in Nat /\ x \in Nat /\ (i > q => x <= i)
      BY <1>1, <1>2, <2>2
    <3>2. CASE i = x
      <4>1. Cardinality(Up(J, i)) = Len(p.did) + 1
        BY <1>2, <2>7, <3>2
      <4>2. QED
        BY <2>8, <3>2, <4>1
    <3>3. CASE i # x
      <4>1. i <= q
        BY <2>10, <3>1, <3>3
      <4>2. p.did[Cardinality(Up(J, i))] = MethodOn(info, i)
        BY <1>2, <4>1
      <4>3. Cardinality(Up(J, i)) \in 1 .. Len(p.did)
        <5>1. Up(J, i) \in SUBSET Up(J, q)
          <6>1. ASSUME NEW j \in J, j <= i PROVE j <= q
            <7>1. j \in Nat
              BY <1>1
            <7>2. QED
              BY <3>1, <4>1, <6>1, <7>1
          <6>2. QED
            BY <6>1 DEF Up
        <5>2. IsFiniteSet(Up(J, q))
          BY <1>1, <1>2, UpIs2
        <5>3. IsFiniteSet(Up(J, i)) /\ Cardinality(Up(J, i)) <= Cardinality(Up(J, q)) /\ Cardinality(Up(J, i)) \in Nat
          BY <5>1, <5>2, FS_Subset, FS_CardinalityType
        <5>4. Up(J, i) # {}
          BY <3>1 DEF Up
        <5>5. Cardinality(Up(J, i)) # 0
          BY <5>3, <5>4, FS_EmptySet
        <5>6. QED
          BY <1>2, <2>7, <5>3, <5>5
      <4>4. QED
        BY <2>8, <4>2, <4>3
    <3>4. QED
      BY <3>2, <3>3
  <2>11. ~Drops(method) => \A j \in DropKeys(info) : j > x
    <3>1. SUFFICES ASSUME ~Drops(method), NEW j \in DropKeys(info) PROVE j > x
      OBVIOUS
    <3>2. j # x
      BY <3>1 DEF DropKeys
    <3>3. j \in HitKeys(info) /\ j > q /\ x <= j /\ j \in Nat /\ x \in Nat
      BY <1>1, <1>2, <1>5, <2>2
    <3>4. QED
      BY <3>2, <3>3
  <2>12. Drops(method) => \A j \in J : j <= x
    <3>1. Drops(method) => x \in DropKeys(info)
      BY <2>2 DEF DropKeys
    <3>2. QED
      BY <3>1 DEF Judged
  <2>13. KeyAt(x) = k
    BY <1>1, <2>2, <2>3 DEF KeyAt
  <2>14. t.key = k /\ t.did = d /\ t.over = Drops(method) /\ t = [key |-> t.key, did |-> t.did, over |-> t.over]
    BY <2>5
  <2>15. Drops(method) \in BOOLEAN /\ x \in 0 .. K
    BY <1>1, <2>2 DEF Drops
  <2>16. Len(d) = Cardinality(Up(J, x)) /\ Len(d) = n + 1
    BY <1>2, <2>7, <2>8, <2>9
  <2> HIDE DEF t, d, k, method
  <2>17. JudgedUpTo(info, t, x, n + 1)
    BY <2>8, <2>10, <2>11, <2>12, <2>13, <2>14, <2>15, <2>16 DEF JudgedUpTo
  <2>18. QED
    BY <2>17 DEF t
<1>6. QED
  BY <1>2, <1>4, <1>5

(* The loop, all turns of it. *)
Start == [key |-> <<>>, did |-> <<>>, over |-> FALSE]
Loops(info, g) ==
  /\ UserInfoBanned(info) = g[Cardinality(UserinfoKeys) + 1].did
  /\ g[0] = Start
  /\ \A i \in 1 .. Cardinality(UserinfoKeys) + 1 : g[i] = Turn(info, g[i-1])
Stops(info) == [key : {KeyAt(q) : q \in 0 .. Len(KeyOrder)},
                did : Seq({MethodOn(info, i) : i \in HitKeys(info)}), over : BOOLEAN]

LEMMA TurnStays == ASSUME NEW info, NEW p \in Stops(info) PROVE Turn(info, p) \in Stops(info)
<1> DEFINE K == Len(KeyOrder)
           M == {MethodOn(info, i) : i \in HitKeys(info)}
           k == CheckUserinfoBans(info, p.key)
           t == Turn(info, p)
<1>1. PICK q \in 0 .. K : p.key = KeyAt(q)
  BY DEF Stops
<1>2. p.did \in Seq(M) /\ p.over \in BOOLEAN
  BY DEF Stops
<1> DEFINE hit == {i \in HitKeys(info) : i > q}
<1>3. (hit = {} => k = <<>>) /\ (hit # {} => k = <<KeyOrder[First(hit)]>>)
  BY <1>1, NextKeyIs
<1>4. CASE p.over \/ hit = {}
  <2>1. t = [p EXCEPT !.over = TRUE]
    BY <1>3, <1>4 DEF Turn
  <2> HIDE DEF t
  <2>2. t \in Stops(info)
    BY <2>1 DEF Stops
  <2>3. QED
    BY <2>2 DEF t
<1>5. CASE ~p.over /\ hit # {}
  <2> DEFINE x == First(hit)
             method == MethodOn(info, x)
             d == Append(p.did, method)
  <2>1. x \in hit
    <3>1. hit \in SUBSET Nat
      BY KeysInOrder DEF Enumerates, HitKeys
    <3> HIDE DEF hit
    <3>2. QED
      BY <1>5, <3>1, FirstIn
  <2> HIDE DEF x
  <2>2. x \in HitKeys(info) /\ x \in 1 .. K /\ K \in Nat
    BY <2>1, KeysInOrder DEF HitKeys, Enumerates
  <2>3. k = <<KeyOrder[x]>>
    BY <1>3, <1>5 DEF x
  <2>4. VarBanMatch(userinfobans, k[1], info[k[1]])[1].method = method
    BY <2>3 DEF MethodOn, VerdictOn
  <2>5. t = [key |-> k, did |-> d, over |-> Drops(method)]
    <3>1. k # <<>>
      BY <2>3
    <3> HIDE DEF k, hit
    <3>2. QED
      BY <1>5, <2>4, <3>1 DEF Turn, k
  <2>6. k = KeyAt(x) /\ x \in 0 .. K
    BY <2>2, <2>3 DEF KeyAt
  <2>7. method \in M
    BY <2>2
  <2> HIDE DEF method, M, k
  <2>8. d \in Seq(M) /\ Drops(method) \in BOOLEAN
    BY <1>2, <2>7 DEF Drops
  <2> HIDE DEF t, d
  <2>9. t \in Stops(info)
    BY <2>5, <2>6, <2>8 DEF Stops, M
  <2>10. QED
    BY <2>9 DEF t
<1>6. QED
  BY <1>2, <1>4, <1>5

LEMMA LoopIs == ASSUME NEW info PROVE \E g : Loops(info, g)
<1> DEFINE N == Cardinality(UserinfoKeys) + 1
           D == Stops(info)
           step == [i \in 1 .. N |-> [p \in D |-> Turn(info, p)]]
           Body(h) == [i \in 0 .. N |-> IF i = 0 THEN Start ELSE Turn(info, h[i-1])]
           g == CHOOSE h : h = Body(h)
<1>1. N \in Nat
  BY UcAssumption, FS_CardinalityType
<1>2. Start \in D
  <2>1. 0 \in 0 .. Len(KeyOrder) /\ KeyAt(0) = <<>>
    BY KeysInOrder DEF Enumerates, KeyAt
  <2>2. QED
    BY <2>1 DEF Stops, Start
<1>3. step \in [1 .. N -> [D -> D]]
  BY TurnStays
<1>4. PICK f : Recurs(f, N, D, Start, step)
  <2> HIDE DEF step, N, D
  <2>1. QED
    BY <1>1, <1>2, <1>3, Recursion
<1>5. f \in [0 .. N -> D] /\ f[0] = Start /\ \A i \in 1 .. N : f[i] = step[i][f[i-1]]
  BY <1>4 DEF Recurs
<1>6. \A i \in 1 .. N : f[i] = Turn(info, f[i-1])
  <2>1. TAKE i \in 1 .. N
  <2>2. i - 1 \in 0 .. N
    BY <1>1
  <2>3. f[i-1] \in D
    BY <1>5, <2>2
  <2>4. QED
    BY <1>5, <2>3
<1>7. f = Body(f)
  <2>1. f = [i \in 0 .. N |-> f[i]]
    BY <1>5
  <2>2. ASSUME NEW i \in 0 .. N PROVE f[i] = IF i = 0 THEN Start ELSE Turn(info, f[i-1])
    <3>1. i = 0 \/ i \in 1 .. N
      BY <1>1
    <3>2. QED
      BY <1>1, <1>5, <1>6, <3>1
  <2>3. QED
    BY <2>1, <2>2
<1>8. g = Body(g)
  BY <1>7
<1>9. g = [i \in 0 .. N |-> g[i]] /\ \A i \in 0 .. N : g[i] = IF i = 0 THEN Start ELSE Turn(info, g[i-1])
  <2> HIDE DEF g
  <2>1. DOMAIN g = 0 .. N /\ g = [i \in DOMAIN g |-> g[i]]
    BY <1>8
  <2>2. QED
    BY <1>8, <2>1
<1>10. g[0] = Start /\ \A i \in 1 .. N : g[i] = Turn(info, g[i-1])
  <2> HIDE DEF g
  <2>1. 0 \in 0 .. N /\ \A i \in 1 .. N : i \in 0 .. N /\ i # 0
    BY <1>1
  <2>2. g[0] = Start
    BY <1>9, <2>1
  <2>3. ASSUME NEW i \in 1 .. N PROVE g[i] = Turn(info, g[i-1])
    <3>1. g[i] = IF i = 0 THEN Start ELSE Turn(info, g[i-1])
      BY <1>9, <2>1
    <3>2. QED
      BY <2>1, <3>1
  <2>4. QED
    BY <2>2, <2>3
<1>11. UserInfoBanned(info) = g[N].did
  BY DEF UserInfoBanned, Turn, Start
<1>12. Loops(info, g)
  <2> HIDE DEF g
  <2>1. QED
    BY <1>10, <1>11 DEF Loops
<1>13. QED
  BY <1>12

LEMMA JudgedAtLast ==
  ASSUME NEW info
  PROVE  LET J == Judged(info)
             did == UserInfoBanned(info)
         IN  /\ Len(did) = Cardinality(J)
             /\ \A i \in J : did[Cardinality(Up(J, i))] = MethodOn(info, i)
<1> DEFINE K == Len(KeyOrder)
           J == Judged(info)
<1>1. PICK g : Loops(info, g)
  BY LoopIs
<1>2. K \in Nat /\ K = Cardinality(UserinfoKeys)
  BY KeysInOrder DEF Enumerates
<1>3. UserInfoBanned(info) = g[K + 1].did /\ g[0] = Start /\ \A i \in 1 .. K + 1 : g[i] = Turn(info, g[i-1])
  BY <1>1, <1>2 DEF Loops
<1>4. HitKeys(info) \in SUBSET (1 .. K) /\ DropKeys(info) \in SUBSET (1 .. K) /\ J \in SUBSET (1 .. K)
  BY DEF HitKeys, DropKeys, Judged
<1>5. JudgedUpTo(info, Start, 0, 0)
  <2>1. \A j \in 1 .. K : j > 0 /\ ~(j <= 0)
    BY <1>2
  <2>2. Up(J, 0) = {}
    BY <1>4, <2>1 DEF Up
  <2>3. Cardinality({}) = 0
    BY FS_EmptySet
  <2>4. Start.key = KeyAt(0) /\ 0 \in 0 .. K
    BY <1>2 DEF Start, KeyAt
  <2>5. Start.did = <<>> /\ Start.over = FALSE /\ Start = [key |-> Start.key, did |-> Start.did, over |-> Start.over]
    BY DEF Start
  <2>6. <<>> \in Seq({MethodOn(info, i) : i \in HitKeys(info)}) /\ Len(<<>>) = 0
    OBVIOUS
  <2> HIDE DEF J
  <2>7. \A i \in J : ~(i <= 0)
    BY <1>4, <2>1
  <2>8. \A j \in DropKeys(info) : j > 0
    BY <1>4, <2>1
  <2>9. QED
    BY <2>2, <2>3, <2>4, <2>5, <2>6, <2>7, <2>8 DEF JudgedUpTo, J
<1>6. \A n \in 0 .. K + 1 : \E q : JudgedUpTo(info, g[n], q, n)
  <2> DEFINE P == [n \in 0 .. K + 1 |-> \E q : JudgedUpTo(info, g[n], q, n)]
  <2>1. P \in [0 .. K + 1 -> BOOLEAN]
    OBVIOUS
  <2>2. P[0]
    <3>1. 0 \in 0 .. K + 1
      BY <1>2
    <3>2. QED
      BY <1>3, <1>5, <3>1
  <2>3. ASSUME NEW n \in 1 .. K + 1, P[n-1] PROVE P[n]
    <3>1. n - 1 \in 0 .. K + 1 /\ n \in 0 .. K + 1 /\ n - 1 \in Nat /\ (n - 1) + 1 = n
      BY <1>2
    <3>2. PICK q : JudgedUpTo(info, g[n-1], q, n - 1)
      BY <2>3, <3>1
    <3>3. \E r : JudgedUpTo(info, Turn(info, g[n-1]), r, (n - 1) + 1)
      BY <3>1, <3>2, TurnIs
    <3>4. \E r : JudgedUpTo(info, g[n], r, n)
      BY <1>3, <3>1, <3>3
    <3>5. QED
      BY <3>1, <3>4
  <2>4. K + 1 \in Nat
    BY <1>2
  <2>5. \A n \in 0 .. K + 1 : P[n]
    <3> HIDE DEF P
    <3>1. QED
      BY <2>1, <2>2, <2>3, <2>4, StepByStep
  <2>6. QED
    BY <2>5
<1> DEFINE p == g[K + 1]
<1>7. PICK q : JudgedUpTo(info, p, q, K + 1)
  <2>1. K + 1 \in 0 .. K + 1
    BY <1>2
  <2>2. QED
    BY <1>6, <2>1
<1> HIDE DEF p
<1>8. /\ q \in 0 .. K /\ p.over \in BOOLEAN
      /\ Len(p.did) = Cardinality(Up(J, q))
      /\ \A i \in J : i <= q => p.did[Cardinality(Up(J, i))] = MethodOn(info, i)
      /\ ~p.over => Len(p.did) = K + 1
      /\ p.over => \A j \in J : j <= q
  BY <1>7 DEF JudgedUpTo
<1>9. Cardinality(Up(J, q)) \in Nat /\ Cardinality(Up(J, q)) <= K
  <2> HIDE DEF J
  <2>1. QED
    BY <1>2, <1>4, <1>8, UpIs2
<1>10. p.over
  <2>1. ~(Len(p.did) = K + 1)
    BY <1>2, <1>8, <1>9
  <2>2. QED
    BY <1>8, <2>1
<1>11. Up(J, q) = J
  BY <1>8, <1>10 DEF Up
<1>12. QED
  BY <1>3, <1>8, <1>10, <1>11 DEF p

LEMMA JudgesOnce == JudgedOnce
<1>1. SUFFICES ASSUME NEW info \in Infos
      PROVE /\ Len(UserInfoBanned(info)) = Cardinality(Judged(info))
            /\ \A i \in Judged(info) :
                 UserInfoBanned(info)[Cardinality({j \in Judged(info) : j <= i})] = MethodOn(info, i)
  BY DEF JudgedOnce, Judged, HitKeys, DropKeys, MethodOn, VerdictOn
<1>2. QED
  BY JudgedAtLast DEF Up

-----------------------------------------------------------------------------
UcInv == Named(live, name) /\ Listed(userinfobans) /\ Listed(cvarbans)

LEMMA UcStarts == UcInit => UcInv
<1>1. SUFFICES ASSUME UcInit PROVE UcInv
  OBVIOUS
<1>2. <<>> \in AName
  BY UcAssumption DEF AName
<1>3. Named(live, name)
  <2>1. live = {} /\ name = [c \in Clients |-> <<>>]
    BY <1>1 DEF UcInit
  <2>2. name \in [Clients -> AName] /\ \A c \in Clients : name[c] = <<>>
    BY <1>2, <2>1
  <2>3. QED
    BY <2>1, <2>2 DEF Named
<1>4. Listed(<<>>)
  <2>1. <<>> \in Seq(Check) /\ Len(<<>>) = 0 /\ \A i, j \in 1 .. 0 : i = j
    OBVIOUS
  <2>2. QED
    BY <2>1 DEF Listed
<1>5. QED
  BY <1>1, <1>3, <1>4 DEF UcInit, UcInv

(* What every list is after an edit. *)
LEMMA EditKeeps ==
  ASSUME UcInv, Edit
  PROVE  /\ UcInv' /\ Keeps(userinfobans, userinfobans')
<1>1. Listed(userinfobans) /\ Listed(cvarbans) /\ Named(live, name)
  BY DEF UcInv
<1>2. PICK var \in UserinfoKeys, m \in Condition :
        \/ userinfobans' = AddVarBan(userinfobans, var, m) /\ cvarbans' = cvarbans
        \/ cvarbans' = AddVarBan(cvarbans, var, m) /\ userinfobans' = userinfobans
        \/ userinfobans' = DeleteVarBan(userinfobans, var) /\ cvarbans' = cvarbans
        \/ cvarbans' = DeleteVarBan(cvarbans, var) /\ userinfobans' = userinfobans
  BY DEF Edit, Condition
<1>3. live' = live /\ name' = name
  BY DEF Edit
<1>4. /\ Listed(AddVarBan(userinfobans, var, m)) /\ Keeps(userinfobans, AddVarBan(userinfobans, var, m))
      /\ Listed(AddVarBan(cvarbans, var, m))
      /\ Listed(DeleteVarBan(userinfobans, var)) /\ Keeps(userinfobans, DeleteVarBan(userinfobans, var))
      /\ Listed(DeleteVarBan(cvarbans, var))
  BY <1>1, AddedTo, DeletedFrom
<1>5. Listed(userinfobans') /\ Listed(cvarbans')
  BY <1>1, <1>2, <1>4
<1>6. Keeps(userinfobans, userinfobans')
  <2>1. Keeps(userinfobans, userinfobans)
    BY DEF Keeps
  <2>2. QED
    BY <1>2, <1>4, <2>1
<1>7. QED
  BY <1>1, <1>3, <1>5, <1>6 DEF UcInv

(* Every other step leaves the lists alone. *)
Same == userinfobans' = userinfobans /\ cvarbans' = cvarbans
LEMMA UcSteps ==
  ASSUME NamesFit, UcInv, [UcNext]_ucVars
  PROVE  UcInv' /\ Keeps(userinfobans, userinfobans')
<1>1. Named(live, name) /\ Listed(userinfobans) /\ Listed(cvarbans)
  BY DEF UcInv
<1>2. ASSUME Same, Named(live', name') PROVE UcInv' /\ Keeps(userinfobans, userinfobans')
  BY <1>1, <1>2 DEF Same, UcInv, Keeps
<1>3. ASSUME NEW c \in Clients, Drop(c), Same PROVE UcInv' /\ Keeps(userinfobans, userinfobans')
  BY <1>1, <1>2, <1>3, GivesUpName
<1>4. ASSUME Same, live' = live, name' = name PROVE UcInv' /\ Keeps(userinfobans, userinfobans')
  BY <1>1, <1>2, <1>4
<1>5. \A n \in Names : n \in AName
  BY UcAssumption DEF NamesFit, AName
<1>6. CASE Edit
  BY <1>6, EditKeeps
<1>7. ASSUME NEW n \in Names, Kick(n) PROVE UcInv' /\ Keeps(userinfobans, userinfobans')
  <2>1. PICK c \in SetPlayer(n) : Drop(c) /\ Same
    BY <1>7 DEF Kick, Same
  <2> DEFINE exact == {d \in live : name[d] = n}
             C == IF exact # {} THEN exact ELSE {d \in live : PartOf(n, name[d])}
  <2>2. SetPlayer(n) = FirstOf(C)
    BY DEF SetPlayer
  <2>3. C \in SUBSET Clients
    BY <1>1 DEF Named
  <2> HIDE DEF C
  <2> DEFINE S == {i \in 1 .. Len(Slots) : Slots[i] \in C}
  <2>4. C # {} /\ c = Slots[First(S)]
    <3>1. SetPlayer(n) = IF C = {} THEN {} ELSE {Slots[First(S)]}
      BY <2>2 DEF FirstOf
    <3> HIDE DEF S
    <3>2. QED
      BY <2>1, <3>1
  <2>5. Len(Slots) \in Nat /\ \A d \in Clients : \E i \in 1 .. Len(Slots) : Slots[i] = d
    <3>1. Slots = InAnOrder(Clients)
      BY DEF Slots, InAnOrder
    <3>2. Enumerates(Slots, Clients)
      BY <3>1, UcAssumption, Enumerated
    <3> HIDE DEF Slots
    <3>3. QED
      BY <3>2 DEF Enumerates
  <2>6. S \in SUBSET Nat /\ S # {}
    BY <2>3, <2>4, <2>5
  <2>7. First(S) \in S
    <3> HIDE DEF S
    <3>1. QED
      BY <2>6, FirstIn
  <2>8. c \in Clients
    BY <2>3, <2>4, <2>7
  <2>9. QED
    BY <1>3, <2>1, <2>8
<1>8. ASSUME NEW c \in Clients, Leaves(c) \/ Malformed(c) PROVE UcInv' /\ Keeps(userinfobans, userinfobans')
  BY <1>3, <1>8 DEF Leaves, Malformed, Same
<1>9. ASSUME NEW c \in Clients, Ask(c) PROVE UcInv' /\ Keeps(userinfobans, userinfobans')
  BY <1>4, <1>9 DEF Ask, Same
<1>10. ASSUME NEW c \in Clients, NEW v \in Values, CvarResult(c, v)
       PROVE  UcInv' /\ Keeps(userinfobans, userinfobans')
  <2> DEFINE m == VarBanMatch(cvarbans, Head(asked[c]), v)
             unknown == m = <<>> /\ \A i \in 1 .. Len(cvarbans) : cvarbans[i].var # Head(asked[c])
  <2>1. Drop(c) \/ (live' = live /\ name' = name)
    <3>1. IF unknown \/ (m # <<>> /\ Drops(m[1].method))
          THEN Drop(c) ELSE asked' = [asked EXCEPT ![c] = Tail(@)] /\ UNCHANGED <<live, name>>
      BY <1>10 DEF CvarResult
    <3> HIDE DEF m, unknown
    <3>2. QED
      BY <3>1
  <2>2. Same
    BY <1>10 DEF CvarResult, Same
  <2>3. QED
    BY <1>3, <1>4, <2>1, <2>2
<1>11. ASSUME NEW c \in Clients, NEW n \in Names, Connects(c, n)
       PROVE  UcInv' /\ Keeps(userinfobans, userinfobans')
  <2>1. Same /\ live' = live \union {c} /\ name' = [name EXCEPT ![c] = NameClash(c, n)]
    BY <1>11 DEF Connects, Same
  <2>2. QED
    BY <1>1, <1>2, <1>5, <2>1, TakesName
<1>12. ASSUME NEW c \in Clients, NEW n \in Names \union {<<>>}, NEW info \in Infos, UserinfoChanged(c, info, n)
       PROVE  UcInv' /\ Keeps(userinfobans, userinfobans')
  <2>1. c \in live /\ Same
    BY <1>12 DEF UserinfoChanged, Same
  <2>2. CASE Drop(c)
    BY <1>3, <2>1, <2>2
  <2>3. CASE ~Drop(c)
    <3> DEFINE m == IF n = <<>> THEN name[c] ELSE n
    <3>1. name' = [name EXCEPT ![c] = NameClash(c, IF n = <<>> THEN @ ELSE n)] /\ live' = live
      BY <1>12, <2>3 DEF UserinfoChanged
    <3>2. name' = [name EXCEPT ![c] = NameClash(c, m)]
      BY <3>1
    <3>3. live' = live \union {c}
      BY <2>1, <3>1
    <3>4. m \in AName
      BY <1>1, <1>5 DEF Named
    <3> HIDE DEF m
    <3>5. QED
      BY <1>1, <1>2, <2>1, <3>2, <3>3, <3>4, TakesName
  <2>4. QED
    BY <2>2, <2>3
<1>13. CASE UNCHANGED ucVars
  BY <1>4, <1>13 DEF ucVars, Same
<1>14. QED
  BY <1>6, <1>7, <1>8, <1>9, <1>10, <1>11, <1>12, <1>13 DEF UcNext

(* Names tell the clients apart, who is kicked by a name is the one who bears it, each key
   is judged once and by its oldest condition: for every number of clients, keys and checks,
   with names of the length that a client's record has room for (sv_main.c:977, 3447). *)
THEOREM ChecksHold == ASSUME NamesFit PROVE UcSpec => ChecksAreRight
<1>1. UcInit => UcInv
  BY UcStarts
<1>2. UcInv /\ [UcNext]_ucVars => UcInv'
  BY UcSteps
<1>3. UcInv => NamesDiffer /\ KickHitsNamed /\ JudgedOnce
  <2>1. ASSUME UcInv PROVE NamesDiffer
    BY <2>1 DEF UcInv, Named, NamesDiffer
  <2>2. QED
    BY <2>1, KicksHit, JudgesOnce DEF UcInv
<1>4. UcInv /\ [UcNext]_ucVars => [OldestStep]_ucVars
  BY UcSteps DEF Keeps, OldestStep
<1>5. QED
  BY <1>1, <1>2, <1>3, <1>4, PTL DEF UcSpec, ChecksAreRight, OldestCounts
=============================================================================
