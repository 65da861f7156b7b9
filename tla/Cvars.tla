------------------------------- MODULE Cvars -------------------------------
(***************************************************************************)
(* Console variables (qcommon/cvar.c): latched, protected and forced       *)
(* values, and the callbacks that correct a value that was just set.  A    *)
(* string is its value and whether its memory is still allocated; values   *)
(* are numbers, Invalid stands for one with \, " or ; in it.               *)
(***************************************************************************)
EXTENDS Integers, FiniteSets

CONSTANTS
  CvarNames,        \* the variables
  CvarValues,       \* numbers
  DefaultFlags, \* [CvarNames -> SUBSET Flags] as Cvar_Get declares them
  Clamped,      \* names with a callback that keeps the value in Floor .. Ceiling
  Floor, Ceiling,
  MaxSets       \* bound: changes between two level loads

Flags == {"NOSET", "LATCH", "SERVERINFO", "NORELOAD"}
Invalid == -1
ASSUME CvarConstants ==
  /\ DefaultFlags \in [CvarNames -> SUBSET Flags] /\ Clamped \subseteq CvarNames
  /\ \A n \in Clamped : "LATCH" \notin DefaultFlags[n]     \* sv_main.c:4039, 4089, 4095
  /\ MaxSets \in Nat
  /\ CvarValues \subseteq Nat /\ Floor \in CvarValues /\ Ceiling \in CvarValues /\ Floor < Ceiling

VARIABLES
  cvars,    \* name -> [string, latched, flags]; a string is [v, live]
  running,  \* Com_ServerState
  wanted,    \* history: the value asked for last and accepted
  mixed,    \* history: names given new flags while a value was waiting
  sets
cvVars == <<cvars, running, wanted, mixed, sets>>

NoString == [v |-> -2, live |-> FALSE]
Copy(v) == [v |-> v, live |-> TRUE]
Freed(s) == [v |-> s.v, live |-> FALSE]
Has(n, f) == f \in cvars[n].flags

(* Cvar_Get of all variables at the start, with a legal value. *)
CvInit ==
  /\ cvars = [n \in CvarNames |-> [string |-> Copy(Floor), latched |-> NoString, flags |-> DefaultFlags[n]]]
  /\ running = FALSE
  /\ wanted = [n \in CvarNames |-> Floor]
  /\ mixed = {} /\ sets = 0

(* The callback sets the variable again if the value is out of range       *)
(* (_rcon_buffsize_changed, _packetdup_changed).                           *)
Corrected(n, v) ==
  IF n \notin Clamped THEN v ELSE IF v < Floor THEN Floor ELSE IF v > Ceiling THEN Ceiling ELSE v

Counted == sets < MaxSets /\ sets' = sets + 1

(* Cvar_InfoValidate *)
Refused(n, v) == Has(n, "SERVERINFO") /\ v = Invalid

(* Cvar_Set2 of a latched variable: while a level runs the value is kept   *)
(* for later.  Without one it is set at once; a value that was latched     *)
(* before is freed, and the pointer to it stays.                           *)
Latch(c, v) ==
  IF c.latched # NoString
  THEN IF v = c.latched.v THEN c
       ELSE IF running THEN [c EXCEPT !.latched = Copy(v)]
       ELSE [c EXCEPT !.string = Copy(v), !.latched = Freed(c.latched)]
  ELSE IF v = c.string.v THEN c
  ELSE IF running THEN [c EXCEPT !.latched = Copy(v)]
  ELSE [c EXCEPT !.string = Copy(v)]

(* Cvar_Set, from the console, Cvar_SetValue and the game. *)
CvarSet(n, v) ==
  /\ Counted /\ ~Refused(n, v) /\ ~Has(n, "NOSET")
  /\ cvars' = [cvars EXCEPT ![n] = IF Has(n, "LATCH") THEN Latch(@, v)
                                   ELSE [@ EXCEPT !.string = Copy(Corrected(n, v))]]
  /\ wanted' = [wanted EXCEPT ![n] = IF Has(n, "LATCH") THEN v ELSE Corrected(n, v)]
  /\ UNCHANGED <<running, mixed>>

(* Cvar_ForceSet: at once, and a latched value is given up. *)
Forced(c, v) == [c EXCEPT !.string = Copy(v), !.latched = NoString]

ForceSet(n, v) ==
  /\ Counted /\ ~Refused(n, v)
  /\ cvars' = [cvars EXCEPT ![n] = Forced(@, Corrected(n, v))]
  /\ wanted' = [wanted EXCEPT ![n] = Corrected(n, v)]
  /\ UNCHANGED <<running, mixed>>

(* Cvar_FullSet, by "set name value s": value and flags at once.  A value  *)
(* that was latched stays, and is what the next level gets.                *)
FullSet(n, v, flags) ==
  /\ Counted
  /\ cvars' = [cvars EXCEPT ![n] = [@ EXCEPT !.string = Copy(Corrected(n, v)), !.flags = flags]]
  /\ wanted' = [wanted EXCEPT ![n] = Corrected(n, v)]
  /\ mixed' = IF cvars[n].latched = NoString THEN mixed ELSE mixed \cup {n}
  /\ UNCHANGED running

(* Cvar_Get by the game once more: flags are added. *)
CvarGet(n) ==
  /\ cvars' = [cvars EXCEPT ![n].flags = @ \cup DefaultFlags[n]]
  /\ UNCHANGED <<running, wanted, mixed, sets>>

(* Cvar_GetNumLatchedVars: whether the game has to be loaded again. *)
Reload == \E n \in CvarNames : cvars[n].latched # NoString /\ ~Has(n, "NORELOAD")

(* Mutant: only what needs a new game is applied. *)
MutApplied(c) == IF Reload /\ c.latched # NoString THEN [c EXCEPT !.string = c.latched, !.latched = NoString] ELSE c
(* Cvar_GetLatchedVars, of one variable *)
Applied(c) ==
  IF c.latched = NoString THEN c ELSE [c EXCEPT !.string = c.latched, !.latched = NoString]

(* SV_Map: SV_InitGame if the game is not loaded or must be loaded again,  *)
(* and SV_SpawnServer; both apply what is latched.                         *)
StartLevel ==
  /\ cvars' = [n \in CvarNames |-> LET c == Applied(cvars[n])
                               IN  [c EXCEPT !.string = [v |-> Corrected(n, c.string.v), live |-> c.string.live]]]
  /\ running' = TRUE /\ mixed' = {} /\ sets' = 0
  /\ wanted' = [n \in CvarNames |-> cvars'[n].string.v]

(* SV_Shutdown *)
StopServer == running /\ running' = FALSE /\ UNCHANGED <<cvars, wanted, mixed, sets>>

CvNext ==
  \/ \E n \in CvarNames, v \in CvarValues \cup {Invalid} :
       CvarSet(n, v) \/ ForceSet(n, v)
  \/ \E n \in CvarNames, v \in CvarValues : FullSet(n, v, {"SERVERINFO"})
  \/ \E n \in CvarNames : CvarGet(n)
  \/ StartLevel \/ StopServer

CvSpec == CvInit /\ [][CvNext]_cvVars

----------------------------------------------------------------------------
CvTypeOK ==
  /\ \A n \in CvarNames : cvars[n].flags \subseteq Flags
                      /\ cvars[n].string.v \in CvarValues \cup {Invalid}
  /\ running \in BOOLEAN /\ sets \in 0 .. MaxSets

(* "any CVAR_LATCHED variables that have been set will now take effect"    *)
(* (qcommon.h:780): the level starts with the value that was asked for      *)
(* last, whatever was set, forced or left unchanged in between.  Two cases *)
(* are excepted, which the code gets wrong: a latched value whose memory   *)
(* is gone, and Cvar_FullSet while a value was waiting, which keeps it.    *)
LevelHasAskedValues ==
  [][running' /\ sets' = 0 /\ sets # 0
     => \A n \in CvarNames \ mixed : cvars'[n].string.live => cvars'[n].string.v = wanted[n]]_cvVars

(* The callbacks keep the size of the rcon buffer and the number of        *)
(* duplicates in their range, however they are set (sv_main.c:3614-3632).  *)
InRange == \A n \in Clamped : cvars[n].string.v \in Floor .. Ceiling

(* A variable never refers to a string that was freed. *)
StringsAreLive ==
  \A n \in CvarNames : cvars[n].string.live /\ (cvars[n].latched # NoString => cvars[n].latched.live)

(* A variable has a value in its range, and a level the values asked for.                           *)
ValuesHold == [](CvTypeOK /\ InRange) /\ LevelHasAskedValues
=============================================================================
