--------------------------- MODULE ClientCommands ---------------------------
(***************************************************************************)
(* `tmnotify send`, `update`, `dismiss`, `jump` and `config reload` beside *)
(* the commands of HookCommands: what the user typed, under the            *)
(* configuration of that moment, and what the daemon is then asked to do.  *)
(*                                                                         *)
(* The way of a request between the two, with its retries and answers, is  *)
(* RequestServer's and SocketElection's.                                   *)
(***************************************************************************)
EXTENDS HookCommands, HistoryCommands

CONSTANTS
  CommandLines,  \* what users type
  Browsings      \* what they ask of the History, and where

\* What is typed has passed clap, and the marks are none of the data.
ASSUME CommandConstants ==
  /\ CommandLines \subseteq TypedLines /\ Browsings \subseteq TypedBrowsings
  /\ None \notin Words \cup Providers \cup {"pane", "session", "id", "bad", "all", Never, Error}
  /\ Error \notin {"hidden", "all"} \cup [before : Nat] \cup Drafts \cup Updates
  /\ Error \notin [version : {Version}, command : Wire]
  /\ Error \notin [op : {"history-jump"}, source : Sources]
  /\ Error \notin [op : {"submit"}, draft : Drafts]

VARIABLE asked  \* the last step: None, or a command and what it came to

\* The source of a command that runs in `pane`; capture_source finds none
\* outside the server.
SourceAt(pane) == IF pane = None THEN None ELSE Source(pane, None, None)

\* The configuration is loaded before any command is dispatched but a reload.
Submit(typed, pane) ==
  /\ Happens
  /\ daemon = "up"
  /\ typed.type # "config-reload" => CanLoad
  /\ LET configured == IF CanLoad THEN Loaded.timeout ELSE None
         request    == RequestOf(typed, SourceAt(pane), configured)
     IN  asked' = [typed |-> typed, source |-> SourceAt(pane), configured |-> configured,
                   did |-> IF request = Error THEN Error ELSE Asked(request)]
  /\ UNCHANGED <<configVars, hookVars>>

\* A command about the History, or the viewer's jump to a row, with the daemon
\* of the server in question in state `at`.
Browse(typed, at) ==
  /\ Happens
  /\ CanLoad
  /\ at \in IF ~AsksDaemon(typed) THEN {None}
            ELSE IF daemon = "up" THEN {"idle", "attention", "mute"} ELSE {"down"}
  /\ asked' = [typed |-> typed, at |-> at,
               did |-> HistoryDone(typed, at, Loaded.historyEntries)]
  /\ UNCHANGED <<configVars, hookVars>>

ClientInit == SettingsInit /\ asked = None

ClientNext ==
  \/ SettingsNext /\ asked' = None
  \/ \E typed \in CommandLines, pane \in {None, "pane"} : Submit(typed, pane)
  \/ \E typed \in Browsings, at \in {None, "down", "idle", "attention", "mute"} :
       Browse(typed, at)

ClientSpec == ClientInit /\ [][ClientNext]_<<settingsVars, asked>>

-----------------------------------------------------------------------------
\* A command line is done as it was typed, or refused as a whole: `Refused` when
\* a part of it is not acceptable, else with every part it names and no other.
\* The one exception is a timeout of `never` in an update: WireNotificationUpdate
\* says that "`Some(None)` selects Never", but it is written as null and read as
\* no timeout, so that the update leaves the timeout alone and is refused if it
\* says nothing else.
SendDone(args, source, configured, did) ==
  LET from    == IF args.noSource THEN None ELSE source
      refused == \/ "long" \in {args.title, args.message, args.key}
                 \/ args.key \in {"blank", "hollow"}
                 \/ args.attention /\ from = None
                 \/ args.timeout \notin {None, Never} /\ ~TimeoutOK(args.timeout)
  IN  IF refused THEN did = Error
      ELSE /\ did.op = "submit"
           /\ did.draft.presentation = (IF args.attention THEN "attention" ELSE "toast")
           /\ did.draft.source = from /\ did.draft.kind = None
           /\ did.draft.body = PlainText(args.message)
           /\ args.title # None => did.draft.title = PlainText(args.title)
           /\ did.draft.key = PlainOrNone(args.key)
           /\ \A f \in {"level", "priority", "position"} : did.draft[f] = args[f]
           /\ did.draft.timeout =
                IF args.attention \/ args.timeout = Never THEN Never
                ELSE IF args.timeout = None THEN configured ELSE ParseDuration(args.timeout)

TargetIs(selector, did) ==
  did.target = [id |-> selector.id, key |-> PlainOrNone(selector.key)]

Selects(selector) ==
  /\ selector.id # "bad"
  /\ selector.key \notin {"blank", "hollow", "long"}

UpdateDone(args, did) ==
  LET kept    == IF args.timeout = Never THEN None ELSE args.timeout
      fields  == {"title", "message", "level", "priority", "position"}
      nothing == kept = None /\ \A f \in fields : args[f] = None
      refused == \/ nothing \/ ~Selects(args.selector)
                 \/ "long" \in {args.title, args.message}
                 \/ kept # None /\ ~TimeoutOK(kept)
  IN  IF refused THEN did = Error
      ELSE /\ did.op = "update" /\ TargetIs(args.selector, did)
           /\ did.update.title = PlainOrNone(args.title)
           /\ did.update.body = PlainOrNone(args.message)
           /\ \A f \in {"level", "priority", "position"} : did.update[f] = args[f]
           /\ did.update.timeout = IF kept = None THEN None ELSE ParseDuration(kept)

\* `history clear` deletes what was typed, of the servers that were typed, and
\* nothing before the user agreed; a list holds what was typed; neither a pane
\* nor a viewer opens while the server has an Attention, and a pane only over
\* the user's own server.  (A viewer shows one server also when all were typed.)
HistoryAsTyped(args, place, at, did) ==
  LET server == IF place.named = None THEN place.around ELSE place.named
      all    == args.allServers \/ (args.clear # None /\ args.clear.allServers)
      scope  == IF all THEN "all" ELSE server
      ageOf(text) ==
        [before |-> text.number * [m |-> 60000, h |-> 3600000, d |-> 86400000][text.unit]]
      agreed == args.clear # None /\ (args.clear.yes \/ (place.input /\ place.answer = "yes"))
  IN  /\ args.clear # None =>
           IF scope # None /\ agreed /\ args.clear.before # Error
           THEN /\ did.op = "clear" /\ did.scope = scope
                /\ did.filter = IF args.clear.hidden THEN "hidden"
                                ELSE IF args.clear.all THEN "all" ELSE ageOf(args.clear.before)
           ELSE did \in {Error, Nothing}
      /\ args.clear = None /\ scope # None /\ (args.json \/ args.plain \/ ~place.output) =>
           did.op = "list" /\ did.scope = scope /\ did.hidden = args.all
      /\ did \notin {Error, Nothing} /\ did.op \in {"pane", "viewer"} =>
           /\ args.clear = None /\ did.hidden = args.all
           /\ server # None => at # "attention"
           /\ did.op = "pane" => server # None /\ did.over = server
           /\ did.op = "viewer" => did.scope = IF server = None THEN "all" ELSE server

\* A jump from the History never takes a client away from an Attention, and
\* goes around a daemon only where there is none, on the viewer's own server.
JumpAsChosen(typed, at, did) ==
  IF at = "idle" THEN did = IF typed.jumps THEN [op |-> "jumped", by |-> "daemon"] ELSE Error
  ELSE did # Error => at = "down" /\ typed.jumps /\ typed.server = typed.target

CommandsArriveAsTyped ==
  asked # None =>
    LET args == asked.typed.args
        did  == asked.did
    IN  CASE asked.typed.type = "send" ->
               SendDone(args, asked.source, asked.configured, did)
          [] asked.typed.type = "update" -> UpdateDone(args, did)
          [] asked.typed.type = "dismiss" ->
               IF Selects(args.selector)
               THEN did.op = "dismiss" /\ TargetIs(args.selector, did) ELSE did = Error
          [] asked.typed.type = "jump" ->
               IF args.key \in {"blank", "hollow", "long"} THEN did = Error
               ELSE did = [op |-> "jump", key |-> PlainText(args.key)]
          [] asked.typed.type = "history" ->
               HistoryAsTyped(args, asked.typed.place, asked.at, did)
          [] asked.typed.type = "history-jump" -> JumpAsChosen(asked.typed, asked.at, did)
          [] asked.typed.type = "config-reload" -> did = [op |-> "reload"]
=============================================================================
