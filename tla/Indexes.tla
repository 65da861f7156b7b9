------------------------------ MODULE Indexes ------------------------------
(***************************************************************************)
(* The numbers the game uses for models, sounds, images and skins: each is the  *)
(* place of a name in the strings of the level, given when it is first asked   *)
(* for, and the files behind those asked for while the level loads are listed  *)
(* for download (sv_init.c). The strings of players' skins are checked on      *)
(* their way (sv_game.c).                                                     *)
(***************************************************************************)
EXTENDS Integers, Sequences, FiniteSets, SequencesExt

CONSTANTS Names,            \* what the game asks for
          Lower,            \* name -> the name in lower case
          Kind,             \* lower name -> "model", "sound", "image" or "other"
          File,             \* lower name -> [skins, exe, inpak, listed]: its skin files, ...
          Room, DlRoom,     \* MAX_MODELS and so on, MAX_IMAGES
          SkinNames, SkinRoom,   \* names of skins, as sequences of letters; MAX_QPATH
          PlayerSkins, SkinLen, Gaps, DefaultSkin,   \* texts of a player's skin, length of its colours, where blanks are
          MaxAsks
ASSUME IxAssumption ==
  /\ Room \in Nat /\ Room > 1 /\ DlRoom \in Nat \ {0} /\ SkinRoom \in Nat /\ SkinLen \in Nat /\ MaxAsks \in Nat
  /\ Lower \in [Names -> DOMAIN Kind]
  /\ Kind \in [DOMAIN Kind -> {"model", "sound", "image", "other"}]
  /\ File \in [DOMAIN Kind -> [skins : Seq(DOMAIN Kind), exe : BOOLEAN, inpak : BOOLEAN, listed : BOOLEAN]]
  /\ SkinNames \subseteq Seq(UNION {ToSet(s) : s \in SkinNames})
  /\ PlayerSkins \subseteq Seq(STRING) /\ DefaultSkin \in Seq(STRING)

VARIABLES state,            \* of the level: "loading", "game" or "error"
          strings,          \* kind -> the strings, from index 1
          skins,            \* CS_MODELSKINS of one model: the letters of its skins
          dl,               \* sv.dlconfigstrings
          playerskin,       \* CS_PLAYERSKINS of one player
          told,             \* the strings that clients in the game have, by kind
          given,            \* ghost: <<name, index>> of every answer, <<skin, offset>> for skins
          asks
ixVars == <<state, strings, skins, dl, playerskin, told, given, asks>>
Kinds == {"model", "sound", "image"}

IxInit ==
  /\ state = "loading" /\ strings = [k \in Kinds |-> <<>>] /\ skins = <<>> /\ dl = <<>> /\ playerskin = <<>>
  /\ told = [k \in Kinds |-> <<>>] /\ given = [names |-> {}, skins |-> {}] /\ asks = 0

-----------------------------------------------------------------------------
(* SV_FindIndex: 0 if there is no room, which is an error of the game. *)
Place(name, s) == LET at == {i \in DOMAIN s : s[i] = name} IN IF at = {} THEN 0 ELSE Min(at)
FindIndex(k, name) ==
  IF Place(name, strings[k]) # 0 THEN [at |-> Place(name, strings[k]), strings |-> strings[k]]
  ELSE IF Len(strings[k]) + 1 = Room THEN [at |-> 0, strings |-> strings[k]]
  ELSE [at |-> Len(strings[k]) + 1, strings |-> Append(strings[k], name)]

(* DownloadIndex: only while the level loads, no programs, nothing every player has and
   nothing from a pak, each once. *)
DownloadIndex(list, name) ==
  IF state # "loading" \/ File[name].exe \/ ~File[name].listed \/ File[name].inpak \/ Contains(list, name) \/ Len(list) = DlRoom
  THEN list ELSE Append(list, name)
AddFiles(list, files) ==    \* for each file of a model
  LET upto[i \in 0..Len(files)] == IF i = 0 THEN list ELSE DownloadIndex(upto[i - 1], files[i])
  IN upto[Len(files)]

(* SV_ModelIndex, PF_setmodel; SV_SoundIndex; SV_ImageIndex: a model brings its skins, an image
   that is none is only listed. *)
ModelFiles(name) == File[name].skins
SoundFiles(name) == <<name>>
ImageFiles(name) == <<name>>
FilesOf(name) == IF Kind[name] = "model" THEN ModelFiles(name) ELSE IF Kind[name] = "sound" THEN SoundFiles(name) ELSE ImageFiles(name)
Index(asked) ==
  LET name == Lower[asked]
      k == Kind[name]
      found == FindIndex(k, name)
  IN /\ state # "error" /\ asks < MaxAsks /\ asks' = asks + 1
     /\ IF k = "other" THEN UNCHANGED <<strings, told, given, state>> /\ dl' = AddFiles(dl, FilesOf(name))
        ELSE IF found.at = 0 THEN state' = "error" /\ UNCHANGED <<strings, told, given, dl>>
        ELSE /\ strings' = [strings EXCEPT ![k] = found.strings]
             /\ told' = IF state = "game" THEN [told EXCEPT ![k] = found.strings] ELSE told
             /\ given' = [given EXCEPT !.names = @ \union {<<name, found.at>>}]
             /\ dl' = AddFiles(dl, FilesOf(name)) /\ UNCHANGED state
     /\ UNCHANGED <<skins, playerskin>>

(* SV_SkinIndex: the offset of a skin among the letters; 0 also if there is no room. *)
Letters(s, i, n) == SubSeq(s, i + 1, IF i + n > Len(s) THEN Len(s) ELSE i + n)    \* what strncmp sees
MutOffsets(len) == 0..(Len(skins) - len)    \* looks for the name at every letter
Offsets(len) == {i \in 0..(Len(skins) - 1) : i % len = 0}
SkinIndex(name) ==
  LET len == Len(name)
      found == {i \in Offsets(len) : Letters(skins, i, len) = name}
  IN /\ state # "error" /\ asks < MaxAsks /\ asks' = asks + 1
     /\ IF found # {} THEN given' = [given EXCEPT !.skins = @ \union {<<name, Min(found)>>}] /\ UNCHANGED skins
        ELSE IF Len(skins) + len >= SkinRoom THEN UNCHANGED <<given, skins>>
        ELSE given' = [given EXCEPT !.skins = @ \union {<<name, Len(skins)>>}] /\ skins' = skins \o name
     /\ UNCHANGED <<state, strings, dl, playerskin, told>>

(* PF_Configstring, for the skin of a player: a name, a model and three colours with blanks
   between them, or the name with a default. *)
Cut(s, chars) == LET at == {i \in 1..Len(s) : s[i] \in chars}
                 IN IF at = {} THEN 0 ELSE Min(at)
PlayerName(val) == IF Cut(val, {"\\"}) = 0 THEN val ELSE SubSeq(val, 1, Cut(val, {"\\"}) - 1)
Rest(val) == SubSeq(val, Cut(val, {"\\"}) + 1, Len(val))
(* The separator is looked for after the first letter of the model. *)
ModelEnd(rest) == LET slash == Cut(Tail(rest), {"/"})  back == Cut(Tail(rest), {"\\"})
                  IN IF slash # 0 THEN slash + 1 ELSE IF back # 0 THEN back + 1 ELSE 0
Valid(c) == c \notin {"!", " ", "/", "\\"}
WellFormed(val) ==
  LET rest == Rest(val) IN
  /\ Cut(val, {"\\"}) # 0 /\ rest # <<>> /\ ModelEnd(rest) # 0
  /\ LET model == SubSeq(rest, 1, ModelEnd(rest) - 1)
         skin  == SubSeq(rest, ModelEnd(rest) + 1, Len(rest))
     IN /\ \A i \in 1..Len(model) : Valid(model[i])
        /\ Len(skin) >= SkinLen
        /\ \A i \in 1..Len(skin) : IF i \in Gaps THEN skin[i] = " " ELSE Valid(skin[i])
ASSUME DefaultIsWellFormed == DefaultSkin # <<>> /\ DefaultSkin[1] = "\\" /\ WellFormed(DefaultSkin)
FixPlayerSkin(val) == PlayerName(val) \o DefaultSkin
PlayerSkin(val) == IF val # <<>> /\ ~WellFormed(val) THEN FixPlayerSkin(val) ELSE val
SetPlayerSkin(val) ==
  /\ state # "error" /\ playerskin' = PlayerSkin(val)
  /\ UNCHANGED <<state, strings, skins, dl, told, given, asks>>

(* The level is loaded: whoever comes in is sent all of it, and updates from then on. *)
Loaded == state = "loading" /\ state' = "game" /\ told' = strings
          /\ UNCHANGED <<strings, skins, dl, playerskin, given, asks>>
IxNext == (\E n \in Names : Index(n)) \/ (\E s \in SkinNames : SkinIndex(s)) \/ (\E v \in PlayerSkins : SetPlayerSkin(v)) \/ Loaded
IxSpec == IxInit /\ [][IxNext]_ixVars

-----------------------------------------------------------------------------
(* A number the game was given stands for the name for the whole level, at the clients too:
   one number for each name however it is written, and no other name has it. *)
NumbersStand ==
  /\ \A g, h \in given.names : strings[Kind[g[1]]][g[2]] = g[1] /\ (h[1] = g[1] => h[2] = g[2])
  /\ state = "game" => told = strings
(* So does the offset of a skin, which is never found in the middle of two others. *)
SkinsAreWhole ==
  \A g, h \in given.skins : Letters(skins, g[2], Len(g[1])) = g[1] /\ g[2] % 3 = 0 /\ (h[1] = g[1] => h[2] = g[2])

(* What the level needs and a player may lack is listed for download, once, as far as there
   is room; what is in a pak is not. *)
Needs == UNION {ToSet(FilesOf(g[1])) : g \in given.names}
ListIsComplete ==
  /\ Len(dl) <= DlRoom /\ Cardinality(ToSet(dl)) = Len(dl)
  /\ \A f \in ToSet(dl) : ~File[f].exe /\ ~File[f].inpak
  /\ state = "loading" /\ Len(dl) < DlRoom =>
       \A f \in Needs : File[f].listed /\ ~File[f].exe /\ ~File[f].inpak => Contains(dl, f)

(* What clients take apart as a player's name, model and colours always is that, and keeps
   the name. *)
SkinsParse == playerskin = <<>> \/ WellFormed(playerskin)

(* Numbers and offsets stand for the same names all the time, and what players lack is listed.      *)
NumbersAreKept == NumbersStand /\ SkinsAreWhole /\ ListIsComplete /\ SkinsParse
=============================================================================
