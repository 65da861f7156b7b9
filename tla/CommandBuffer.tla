--------------------------- MODULE CommandBuffer ---------------------------
(***************************************************************************)
(* The command buffer of qcommon/cmd.c with the commands that work on it   *)
(* (alias, exec, wait) and the one that runs commands of its own while the *)
(* buffer is being drained: map (SV_Map), with its three hooks.  A command *)
(* is a record with a field do; its text has length 1.  `calls` is the C   *)
(* stack between the outermost drain and the innermost: the map commands   *)
(* under way and what Cbuf_ExecuteScoped saved for each.                   *)
(***************************************************************************)
EXTENDS Integers, Sequences, SequencesExt, FiniteSets

CONSTANTS
  Cmds,        \* the commands there are in what follows, and in the texts of aliases
  Lines,       \* what the console and rcon may add: sequences of commands
  Files,       \* contents of the files that exec may name
  Hooks,       \* possible texts of sv_endmapcmd, sv_beginmapcmd, sv_postbeginmapcmd
  RestartMap,  \* BOOLEAN: sv_restartmap is set
  MaxSize,     \* COMMAND_BUFFER_SIZE
  LoopCount,   \* ALIAS_LOOP_COUNT
  MaxLines     \* bound: lines added

ASSUME BufferSizes ==
  /\ MaxSize \in Nat /\ MaxSize > 2 /\ LoopCount \in Nat \ {0} /\ MaxLines \in Nat
  /\ RestartMap \in BOOLEAN
ASSUME CommandTexts ==
  /\ Lines \subseteq Seq(Cmds) /\ Hooks \subseteq Seq(Cmds) /\ \A n \in DOMAIN Files : Files[n] \in Seq(Cmds)
  /\ \A c \in Cmds : c.do = "alias" => c.arg.text \in Seq(Cmds)
  /\ {[do |-> "set", arg |-> "line"], [do |-> "exec", arg |-> "config"], [do |-> "map", arg |-> "none"]} \subseteq Cmds

VARIABLES
  buffer,      \* cmd_text: commands with the added line they stem from
  drain,       \* inside Cbuf_Execute
  stop,        \* cmd_wait
  aliasCount,  \* alias_count
  aliases,     \* cmd_alias: names to texts
  calls,       \* map commands under way, outermost first
  server,      \* svs.initialized and sv.state, and whether Com_Error is active
  setting,     \* the value of a variable that command line and config both set
  boot,        \* steps of Qcommon_Init done
  hist         \* history: lines added, the last one run, those that were lost
cbVars == <<buffer, drain, stop, aliasCount, aliases, calls, server, setting, boot, hist>>

Do(what) == [do |-> what, arg |-> "none"]
Item(c, root) == [cmd |-> c, root |-> root]  \* root 0: text of a hook or of the start
Text(cs, root) == [i \in DOMAIN cs |-> Item(cs[i], root)]
Roots(text) == {text[i].root : i \in DOMAIN text} \ {0}
Dead == [server EXCEPT !.initialized = FALSE, !.state = "ss_dead"]

CbInit ==
  /\ buffer = <<>> /\ drain = FALSE /\ stop = FALSE /\ aliasCount = 0
  /\ aliases = <<>> /\ calls = <<>>
  /\ server = [initialized |-> FALSE, state |-> "ss_dead", recursive |-> FALSE, fatal |-> FALSE]
  /\ setting = "default" /\ boot = 0
  /\ hist = [added |-> 0, last |-> 0, lost |-> {}]

----------------------------------------------------------------------------
(* The buffer.                                                             *)

(* Cbuf_AddText: what does not fit is reported and left out. *)
AddText(b, text) == IF Len(b) + Len(text) >= MaxSize THEN b ELSE b \o text

(* Mutant: the text goes to the end. *)
MutInsertText(b, text) == [buf |-> AddText(b, text), fatal |-> FALSE]

(* Cbuf_InsertText: the text is tried in an empty buffer, what was there   *)
(* is written back after it; SZ_Write ends the program if it has no room.  *)
InsertText(b, text) ==
  LET first == AddText(<<>>, text)
  IN  [buf |-> first \o b, fatal |-> Len(first) + Len(b) > MaxSize]

(* Cbuf_ExecuteScoped, up to its call of Cbuf_Execute. *)
Scoped(b, text) ==
  [pending |-> b, buf |-> AddText(<<>>, text)]

AddLine(cs) ==
  /\ boot = 4 /\ ~drain /\ ~server.fatal /\ hist.added < MaxLines
  /\ LET n == hist.added + 1
     IN  /\ buffer' = AddText(buffer, Text(cs, n))
         /\ hist' = [hist EXCEPT !.added = n,
                                 !.lost = IF buffer' = buffer THEN @ \cup {n} ELSE @]
  /\ UNCHANGED <<drain, stop, aliasCount, aliases, calls, server, setting, boot>>

(* Qcommon_Init: the settings of the command line are run before the files *)
(* are found and again after the config file.                              *)
EarlyCommands == <<[do |-> "set", arg |-> "line"]>>

BootText(n) ==
  CASE n = 0 -> EarlyCommands
    [] n = 1 -> <<[do |-> "exec", arg |-> "config"]>> \o EarlyCommands
    [] n = 2 -> <<Do("map")>>      \* Cbuf_AddLateCommands, or dedicated_start
    [] n = 3 -> <<>>
Boot ==
  /\ boot < 4 /\ ~drain /\ ~server.fatal
  /\ boot' = boot + 1
  /\ buffer' = AddText(buffer, Text(BootText(boot), 0))
  /\ drain' = TRUE /\ aliasCount' = 0
  /\ UNCHANGED <<stop, aliases, calls, server, setting, hist>>

(* Cbuf_Execute, called by Qcommon_Frame and SV_Frame. *)
Execute ==
  /\ boot = 4 /\ ~drain /\ ~server.fatal /\ buffer # <<>>
  /\ drain' = TRUE /\ aliasCount' = 0
  /\ UNCHANGED <<buffer, stop, aliases, calls, server, setting, boot, hist>>

----------------------------------------------------------------------------
(* One line of the buffer: its commands.                                   *)

Fatal == server' = [server EXCEPT !.fatal = TRUE]

Insert(b, text) ==
  LET r == InsertText(b, text)
  IN  /\ buffer' = r.buf
      /\ IF r.fatal THEN Fatal ELSE UNCHANGED server

(* Cmd_ExecuteString looks for a function first, then for an alias, which  *)
(* is not run if it is the one too many.                                   *)
BuiltIn == {"alias", "set", "wait", "echo", "killserver", "exec", "map", "error"}
RunAlias(it, b) ==
  /\ it.cmd.do \in DOMAIN aliases \ BuiltIn
  /\ aliasCount' = IF aliasCount > LoopCount THEN aliasCount ELSE aliasCount + 1
  /\ IF aliasCount' = LoopCount THEN buffer' = b /\ UNCHANGED server
     ELSE Insert(b, Text(aliases[it.cmd.do], it.root))
  /\ UNCHANGED <<stop, aliases, calls, setting>>

(* Cmd_Exec_f *)
RunExec(it, b) ==
  /\ it.cmd.do = "exec"
  /\ LET f == Files[it.cmd.arg]
     IN  IF it.cmd.arg \notin DOMAIN Files THEN buffer' = b /\ UNCHANGED server
         ELSE IF Len(f) > MaxSize - 2 THEN buffer' = b /\ UNCHANGED server
         ELSE Insert(b, Text(f, it.root))
  /\ UNCHANGED <<stop, aliasCount, aliases, calls, setting>>

(* Cmd_Alias_f, Cvar_Set_f, Cmd_Wait_f, Cmd_Echo_f, SV_KillServer_f *)
RunPlain(it, b) ==
  /\ it.cmd.do \in {"alias", "set", "wait", "echo", "killserver"}
  /\ buffer' = b
  /\ aliases' = IF it.cmd.do # "alias" THEN aliases
                ELSE [n \in DOMAIN aliases \cup {it.cmd.arg.name} |->
                        IF n = it.cmd.arg.name THEN it.cmd.arg.text ELSE aliases[n]]
  /\ setting' = IF it.cmd.do = "set" THEN it.cmd.arg ELSE setting
  /\ stop' = (it.cmd.do = "wait")
  /\ server' = IF it.cmd.do = "killserver" THEN Dead ELSE server
  /\ UNCHANGED <<aliasCount, calls>>

(* The next hook of a map command is run: Cbuf_Execute starts anew. *)
CallHook(up, pc, b, aborts, hook) ==
  LET s == Scoped(b, Text(hook, 0))
  IN  /\ calls' = Append(up, [pc |-> pc, pending |-> s.pending, aborts |-> aborts])
      /\ buffer' = s.buf
      /\ aliasCount' = 0 /\ stop' = FALSE

(* SV_Map: without a running level there is no end of one, and the game is *)
(* started (SV_InitGame); SV_SpawnServer then runs sv_beginmapcmd.         *)
StartMap(srv, up, b, aborts, hook) ==
  IF srv.state # "ss_dead"
  THEN CallHook(up, "end", b, aborts, hook) /\ server' = srv
  ELSE CallHook(up, "begin", b, aborts, hook) /\ server' = [srv EXCEPT !.initialized = TRUE]

RunMap(it, b, hook) ==
  /\ it.cmd.do = "map" /\ calls = <<>>  \* hooks have no map commands here
  /\ StartMap(server, calls, b, FALSE, hook)
  /\ UNCHANGED <<aliases, setting>>

PendingRoots(cs) == UNION {Roots(cs[i].pending) : i \in DOMAIN cs}

(* Com_Error (ERR_DROP): the server is shut down and the frame is left by  *)
(* longjmp, with everything that was on the stack; before that, the restart*)
(* map is loaded if there was a level.                                     *)
RunError(it, b, hook) ==
  /\ it.cmd.do = "error"
  /\ IF server.recursive
     THEN Fatal /\ UNCHANGED <<stop, aliasCount, calls>> /\ buffer' = b
     ELSE IF RestartMap /\ server.state # "ss_dead"
     THEN StartMap([Dead EXCEPT !.recursive = TRUE], calls, b, TRUE, hook)
     ELSE server' = Dead /\ calls' = <<>> /\ buffer' = b /\ stop' = TRUE /\ UNCHANGED aliasCount
  /\ UNCHANGED <<aliases, setting>>

(* An unknown command is reported. *)
RunUnknown(it, b) ==
  /\ it.cmd.do \notin BuiltIn \cup DOMAIN aliases
  /\ buffer' = b
  /\ UNCHANGED <<stop, aliasCount, aliases, calls, server, setting>>

(* The loop of Cbuf_Execute: the line is taken out, then run. *)
ExecuteLine(hook) ==
  /\ drain /\ ~stop /\ ~server.fatal /\ buffer # <<>>
  /\ LET it == Head(buffer)
         b  == Tail(buffer)
     IN  /\ \/ RunAlias(it, b) \/ RunExec(it, b) \/ RunPlain(it, b)
            \/ RunMap(it, b, hook) \/ RunError(it, b, hook) \/ RunUnknown(it, b)
         /\ hist' = [hist EXCEPT
              !.last = IF it.root = 0 THEN @ ELSE it.root,
              !.lost = @ \cup (IF calls # <<>> /\ calls' = <<>> THEN PendingRoots(calls) ELSE {})]
  /\ UNCHANGED <<drain, boot>>

(* The innermost Cbuf_Execute ends, its buffer empty or after a wait. *)
DrainDone == drain /\ ~server.fatal /\ (buffer = <<>> \/ stop)

EndDrain ==
  /\ DrainDone /\ calls = <<>>
  /\ drain' = FALSE /\ stop' = FALSE
  /\ UNCHANGED <<buffer, aliasCount, aliases, calls, server, setting, boot, hist>>

(* "the hook may have shut the server down under us" *)
Abandoned == ~server.initialized

(* The rest of Cbuf_ExecuteScoped and of the map command it belongs to; a  *)
(* map command run by Com_Error ends in its longjmp.                       *)
EndHook(hook) ==
  /\ DrainDone /\ calls # <<>>
  /\ LET top == Last(calls)
         up  == Front(calls)
         r   == InsertText(buffer, top.pending)
         b   == IF top.pending = <<>> THEN buffer ELSE r.buf
         over == Roots(top.pending) \ Roots(b)  \* too long to go back: reported
     IN  IF r.fatal THEN Fatal /\ UNCHANGED <<buffer, calls, aliasCount, stop, drain, hist>>
         ELSE IF top.pc = "end"
         THEN /\ CallHook(up, "begin", b, top.aborts, hook)
              /\ server' = [server EXCEPT !.initialized = TRUE]
              /\ hist' = [hist EXCEPT !.lost = @ \cup over] /\ UNCHANGED drain
         ELSE IF top.pc = "begin" /\ ~Abandoned
         THEN /\ CallHook(up, "post", b, top.aborts, hook)
              /\ server' = [server EXCEPT !.state = "ss_game"]
              /\ hist' = [hist EXCEPT !.lost = @ \cup over] /\ UNCHANGED drain
         ELSE /\ buffer' = b
              /\ calls' = IF top.aborts THEN <<>> ELSE up
              /\ server' = [server EXCEPT !.recursive = FALSE]
              /\ stop' = top.aborts /\ UNCHANGED <<aliasCount, drain>>
              /\ hist' = [hist EXCEPT !.lost = @ \cup over \cup (IF top.aborts THEN PendingRoots(up) ELSE {})]
  /\ UNCHANGED <<aliases, setting, boot>>

CbNext ==
  \/ \E cs \in Lines : AddLine(cs)
  \/ Boot \/ Execute \/ EndDrain
  \/ \E h \in Hooks : ExecuteLine(h)
  \/ \E h \in Hooks : EndHook(h)

CbSpec == CbInit /\ [][CbNext]_cbVars

----------------------------------------------------------------------------
CbTypeOK ==
  /\ Len(buffer) <= 2 * MaxSize /\ (Len(buffer) > MaxSize => server.fatal)
  /\ aliasCount \in 0 .. LoopCount + 1
  /\ server.state \in {"ss_dead", "ss_game"}
  /\ \A i \in DOMAIN calls : calls[i].pc \in {"end", "begin", "post"}
  /\ boot \in 0 .. 4

(* While a map command is under way only its hooks run, never a command    *)
(* that was queued: "a queued killserver frees svs.clients out from under  *)
(* it" (cmd.c:210-214).                                                    *)
HooksRunAlone == [][calls # <<>> => hist'.last = hist.last]_cbVars

(* Lines run in the order they were added, what an alias or a file adds    *)
(* before the lines behind it (cmd.c:145, 319-321).                        *)
LinesInOrder == [][hist'.last >= hist.last]_cbVars

(* A line is run, is queued or saved, or was reported as lost: it did not  *)
(* fit, or an error left the hook that the map command before it ran.      *)
NoLineForgotten ==
  \A n \in 1 .. hist.added :
    ~server.fatal => n <= hist.last \/ n \in Roots(buffer) \cup PendingRoots(calls) \cup hist.lost

(* No level is loaded on a server that is not there (sv_init.c:487-491,    *)
(* 749-753).                                                               *)
LevelHasServer == server.state = "ss_game" => server.initialized

(* "we want other parms to override the settings of the config files"      *)
(* (common.c:2649-2652), whatever the config file does to the buffer.      *)
CommandLineWins ==
  boot = 4 /\ ~drain /\ buffer = <<>> /\ hist.added = 0 => setting = "line"

(* What becomes of a line, whatever maps, hooks, aliases, files and errors come between: it is run  *)
(* once, in its turn, on a server that is there, or reported (cmd.c:131-330).                       *)
LinesAreKept ==
  /\ [](CbTypeOK /\ NoLineForgotten /\ LevelHasServer)
  /\ HooksRunAlone /\ LinesInOrder
(* The same, and the settings of the command line have the last word at the start. *)
DrainsAreSound ==
  /\ [](CbTypeOK /\ NoLineForgotten /\ LevelHasServer /\ CommandLineWins)
  /\ HooksRunAlone /\ LinesInOrder
=============================================================================
