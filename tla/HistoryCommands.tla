--------------------------- MODULE HistoryCommands ---------------------------
(***************************************************************************)
(* `tmnotify history` and `history clear` (src/app.rs), and what the       *)
(* History asks of a daemon (src/daemon/application.rs) before it opens    *)
(* over a window or jumps to the source of a row.                          *)
(*                                                                         *)
(* A command line is given in a place: the tmux server around it or None,  *)
(* the server named by -L or -S or None, whether its input and its output  *)
(* are terminals, and what the user answers when asked.                    *)
(***************************************************************************)
EXTENDS ClientProtocol

CONSTANTS
  Nothing,  \* a command that ended well and did nothing
  Servers   \* the tmux servers

\* Cli::tmux_target: never a default server.
TargetOf(place) == IF place.named # None THEN place.named ELSE place.around

\* history_mode
HistoryMode(args, place) ==
  IF args.clear # None \/ args.plain \/ args.json \/ ~place.output THEN "output"
  ELSE IF place.around # None THEN "floating" ELSE "terminal"

-----------------------------------------------------------------------------
(* The text commands.                                                      *)

AgeUnits == [m |-> Units.m, h |-> Units.h, d |-> 24 * Units.h]

\* parse_age: zero passes.
AgeOK(text)    == text # Error /\ text.unit \in DOMAIN AgeUnits
ParseAge(text) == text.number * AgeUnits[text.unit]

\* clear_filter, of arguments that clap accepts: exactly one of the three.
ClearFilter(clear) ==
  IF clear.hidden THEN "hidden" ELSE IF clear.all THEN "all"
  ELSE IF AgeOK(clear.before) THEN [before |-> ParseAge(clear.before)] ELSE Error

\* clear_history: the rows are counted and the user asked.  The switch for all
\* servers may stand before `clear` or after it.
Clearing(args, place) ==
  LET filter == ClearFilter(args.clear)
      scope  == IF args.clear.allServers \/ args.allServers THEN "all" ELSE TargetOf(place)
  IN  IF filter = Error \/ (~args.clear.yes /\ ~place.input) THEN Error
      ELSE IF args.clear.yes \/ place.answer = "yes"
      THEN [op |-> "clear", filter |-> filter, scope |-> scope] ELSE Nothing

\* run_history
Printing(args, place, limit) ==
  LET clears == args.clear # None /\ args.clear.allServers
  IN  IF TargetOf(place) = None /\ ~args.allServers /\ ~clears THEN Error
      ELSE IF args.clear # None THEN Clearing(args, place)
      ELSE [op |-> "list", hidden |-> args.all, limit |-> limit,
            scope |-> IF args.allServers THEN "all" ELSE TargetOf(place)]

-----------------------------------------------------------------------------
(* The daemon.                                                             *)

\* ensure_history_action_allowed and the History arms of DaemonService::handle:
\* what a daemon in state `at` answers, whose tmux does or fails to jump.
HistoryResponse(operation, at, jumps) ==
  IF operation = Error \/ at = "attention" THEN "error"
  ELSE IF operation.op = "history-jump" /\ ~jumps THEN "error" ELSE "done"

\* history_daemon_request: without starting a daemon.
HistoryRequest(command, at, jumps) ==
  CASE at = "down" -> "unavailable"
    [] at = "mute" -> "error"
    [] OTHER       -> HistoryResponse(Asked(Request(command)), at, jumps)

\* ensure_open_allowed: a server without a daemon has no Attention.
OpenAllowed(target, at) ==
  target = None \/ HistoryRequest([type |-> "history-guard"], at, FALSE) # "error"

\* HistoryActionClient::jump: only the server that the viewer runs for can be
\* switched without its daemon.
JumpToRow(source, server, target, at, jumps) ==
  LET answer == HistoryRequest([type |-> "history-jump", source |-> source], at, jumps)
  IN  IF answer = "done" THEN [op |-> "jumped", by |-> "daemon"]
      ELSE IF answer = "unavailable" /\ target = server /\ jumps
      THEN [op |-> "jumped", by |-> "tmux"] ELSE Error

\* launch_history_pane: over the window that the command was given in.
Floating(args, place, at) ==
  IF OpenAllowed(TargetOf(place), at) /\ place.around = TargetOf(place)
  THEN [op |-> "pane", over |-> place.around, hidden |-> args.all] ELSE Error

\* run_interactive_history: of one server, also when all were asked for.  Its
\* worker asks before the first load, and a refusal ends the command.
Viewer(args, place, at) ==
  IF OpenAllowed(TargetOf(place), at)
  THEN [op |-> "viewer", hidden |-> args.all,
        scope |-> IF TargetOf(place) = None THEN "all" ELSE TargetOf(place)] ELSE Error

\* Whether a daemon is asked at all.
AsksDaemon(typed) ==
  \/ typed.type = "history-jump"
  \/ HistoryMode(typed.args, typed.place) # "output" /\ TargetOf(typed.place) # None

\* What a command line about the History comes to.
HistoryDone(typed, at, limit) ==
  LET mode == HistoryMode(typed.args, typed.place)
  IN  CASE typed.type = "history-jump" ->
             JumpToRow(typed.source, typed.server, typed.target, at, typed.jumps)
        [] typed.type = "history" /\ mode = "output"   -> Printing(typed.args, typed.place, limit)
        [] typed.type = "history" /\ mode = "floating" -> Floating(typed.args, typed.place, at)
        [] typed.type = "history" /\ mode = "terminal" -> Viewer(typed.args, typed.place, at)

-----------------------------------------------------------------------------
(* The arguments, as clap accepts them, and the places.                    *)

Ages == [number : Nat, unit : DOMAIN AgeUnits]

\* Exactly one of the three says which rows.
ClearArgs ==
  {clear \in [hidden : BOOLEAN, before : Ages \cup {None, Error}, all : BOOLEAN,
              allServers : BOOLEAN, yes : BOOLEAN] :
     IF clear.before = None THEN clear.hidden = ~clear.all
     ELSE ~clear.hidden /\ ~clear.all}

\* (clap also refuses `plain` together with `json`.)
HistoryArgs ==
  [clear : ClearArgs \cup {None}, plain : BOOLEAN, json : BOOLEAN, all : BOOLEAN,
   allServers : BOOLEAN]

HistoryPlaces ==
  [around : Servers \cup {None}, named : Servers \cup {None},
   input : BOOLEAN, output : BOOLEAN, answer : {"yes", "no"}]

TypedBrowsings ==
  [type : {"history"}, args : HistoryArgs, place : HistoryPlaces] \cup
  [type : {"history-jump"}, args : {None}, source : Sources, server : Servers,
   target : Servers, jumps : BOOLEAN]
=============================================================================
