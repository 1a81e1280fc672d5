--------------------------- MODULE ClientProtocol ---------------------------
(***************************************************************************)
(* What a command line, or an event of an agent, becomes on its way to the *)
(* daemon: the arguments (src/cli.rs) build a draft or an update           *)
(* (src/notification.rs), which is written as a request and read again by  *)
(* the daemon (src/protocol.rs).                                           *)
(*                                                                         *)
(* A text is one of the kinds that normalize_bounded tells apart.  None is *)
(* Option::None and also the null of JSON, which is read as None whatever  *)
(* was written as null.  Error is a Result::Err.                           *)
(***************************************************************************)
EXTENDS AgentHooks

CONSTANT Error

Version == 1

Words == {"plain", "styled", "hollow", "blank", "long"}

Levels     == {"info", "success", "warning", "error"}
Priorities == {"low", "normal", "high", "critical"}
Positions  == {"top-left", "top-center", "top-right", "bottom-left", "bottom-center",
               "bottom-right"}

\* normalize_plain_text: escape sequences go, and may have been all there was.
PlainText(text) ==
  CASE text = "styled" -> "plain" [] text = "hollow" -> "blank" [] OTHER -> text

\* normalize_bounded and normalize_required refuse these; None is not given.
TextOK(text)  == text # "long"
KeyOK(text)   == PlainText(text) \notin {"long", "blank"}
PlainOrNone(text) == IF text = None THEN None ELSE PlainText(text)

\* cli::parse_timeout: up to 24 hours.
TimeoutOK(text) ==
  text \in {None, Never} \/ (text # Error /\ ParseDuration(text) <= 24 * Units.h)
TimeoutOf(text) == IF text = Never THEN Never ELSE ParseDuration(text)

-----------------------------------------------------------------------------
(* Drafts and updates.                                                     *)

\* NotificationDraft::new: an Attention needs a source to jump to.
DraftOK(presentation, title, body, source) ==
  /\ presentation = "attention" => source # None
  /\ TextOK(title) /\ TextOK(body)

NewDraft(presentation, title, body, source) ==
  [key |-> None, level |-> "info", priority |-> "normal",
   presentation |-> presentation, title |-> PlainText(title), body |-> PlainText(body),
   timeout |-> IF presentation = "attention" THEN Never ELSE 3 * Units.s,
   source |-> source, position |-> None, kind |-> None]

\* with_timeout: an Attention has none.
WithTimeout(draft, timeout) ==
  [draft EXCEPT !.timeout = IF draft.presentation = "attention" THEN Never ELSE timeout]

\* A source is where the sender runs, and the session of its agent.
Source(pane, provider, session) == [pane |-> pane, provider |-> provider, session |-> session]

\* SendArgs::into_draft, and the timeout that `send` takes from `configured`.
DraftOf(args, source, configured) ==
  LET presentation == IF args.attention THEN "attention" ELSE "toast"
      from         == IF args.noSource THEN None ELSE source
      draft        == NewDraft(presentation,
                               IF args.title = None THEN "blank" ELSE args.title,
                               args.message, from)
      timeout      == IF args.timeout = None THEN configured ELSE TimeoutOf(args.timeout)
  IN  IF /\ DraftOK(presentation, args.title, args.message, from)
         /\ TimeoutOK(args.timeout)
         /\ args.key = None \/ KeyOK(args.key)
      THEN [WithTimeout(draft, timeout) EXCEPT
              !.level = args.level, !.priority = args.priority,
              !.position = args.position, !.key = PlainOrNone(args.key)]
      ELSE Error

\* NotificationUpdate::is_empty.
IsEmpty(update) == \A f \in DOMAIN update : update[f] = None

\* UpdateArgs::into_update.
UpdateOf(args) ==
  LET update == [title |-> PlainOrNone(args.title), body |-> PlainOrNone(args.message),
                 level |-> args.level, priority |-> args.priority,
                 timeout |-> IF args.timeout = None THEN None ELSE TimeoutOf(args.timeout),
                 position |-> args.position]
  IN  IF TextOK(args.title) /\ TextOK(args.message) /\ TimeoutOK(args.timeout)
         /\ ~IsEmpty(update)
      THEN update ELSE Error

\* make_draft: the key names the provider, the session and the purpose, and the
\* session goes into the source.
HookDraft(provider, session, parts, pane) ==
  LET source == IF pane = None THEN None ELSE Source(pane, provider, session)
  IN  IF DraftOK(parts.presentation, "plain", "plain", source)
      THEN [NewDraft(parts.presentation, "plain", "plain", source) EXCEPT
              !.key = <<provider, session, parts.purpose>>,
              !.level = parts.level, !.priority = parts.priority, !.kind = parts.kind]
      ELSE Error

-----------------------------------------------------------------------------
(* The wire.                                                               *)

Sources ==
  [pane : {"pane"}, provider : {None}, session : {None}]
    \cup [pane : {"pane"}, provider : Providers, session : {"session"}]

\* Drafts, here and on the wire: those of agents have a kind, and name what for.
Drafts ==
  [key : Words \cup {None} \cup (Providers \X {"session"} \X (HookEvents \cup {"attention"})),
   level : Levels, priority : Priorities,
   presentation : {"toast", "attention"}, title : Words, body : Words,
   timeout : Nat \cup {None, Never}, source : Sources \cup {None},
   position : Positions \cup {None}, kind : HookEvents \cup {None}]

Updates ==
  [title : Words \cup {None}, body : Words \cup {None},
   level : Levels \cup {None}, priority : Priorities \cup {None},
   timeout : Nat \cup {None, Never}, position : Positions \cup {None}]

TimeoutMillis(timeout) == IF timeout = Never THEN None ELSE timeout

\* Fault: a draft without a timeout gets the one of new drafts.
WireTimeoutOrDefault(millis) == IF millis = None THEN 3 * Units.s ELSE millis

WireTimeout(millis) == IF millis = None THEN Never ELSE millis

\* WireSourceContext::into_domain: a provider and its session come together.
SourceOK(source) ==
  source = None \/ (source.provider = None <=> source.session = None)

\* WireNotificationDraft.
WriteDraft(draft) == [draft EXCEPT !.timeout = TimeoutMillis(@)]

ReadDraft(wire) ==
  IF DraftOK(wire.presentation, wire.title, wire.body, wire.source)
     /\ SourceOK(wire.source)
  THEN WithTimeout([wire EXCEPT !.timeout = None], WireTimeout(wire.timeout))
  ELSE Error

\* WireNotificationUpdate: Some(None) is written as null.
WriteUpdate(update) ==
  [update EXCEPT !.timeout = IF @ = None THEN None ELSE TimeoutMillis(@)]

ReadUpdate(wire) ==
  [wire EXCEPT !.timeout = IF @ = None THEN None ELSE WireTimeout(@)]

\* WireSelector::into_domain.
SelectorOK(selector) ==
  \/ selector.id \notin {None, "bad"} /\ selector.key = None
  \/ selector.id = None /\ selector.key # None /\ KeyOK(selector.key)

ReadSelector(selector) == [selector EXCEPT !.key = PlainOrNone(@)]

\* WireSelector, and Selector of clap: exactly one of the two.
Selectors ==
  [id : {"id", "bad"}, key : {None}] \cup [id : {None}, key : Words]

\* ClientCommand, of the command lines and of the History.
Wire ==
  [type : {"send"}, notification : Drafts]
    \cup [type : {"update"}, selector : Selectors, update : Updates]
    \cup [type : {"dismiss"}, selector : Selectors]
    \cup [type : {"jump"}, key : Words]
    \cup [type : {"history-jump"}, source : Sources]
    \cup [type : {"config-reload", "history-guard"}]

\* ClientRequest::new.
Request(command) == [version |-> Version, command |-> command]

\* RequestEnvelope::decode: a daemon of another version refuses.
EnvelopeOK(request) == request.version = Version

\* ClientCommand::validate.
ValidCommand(command) ==
  CASE command.type = "send"    -> ReadDraft(command.notification) # Error
    [] command.type = "update"  ->
         SelectorOK(command.selector) /\ ~IsEmpty(ReadUpdate(command.update))
    [] command.type = "dismiss" -> SelectorOK(command.selector)
    [] command.type = "jump"    -> KeyOK(command.key)
    [] command.type = "history-jump" -> SourceOK(command.source)
    [] command.type \in {"history-guard", "config-reload"} -> TRUE

\* The arms of DaemonService::handle: what is then asked of the scheduler, of
\* the guard of the History, or of the reload beside them.
Operation(command) ==
  CASE command.type = "send" ->
         [op |-> "submit", draft |-> ReadDraft(command.notification)]
    [] command.type = "update" ->
         [op |-> "update", target |-> ReadSelector(command.selector),
          update |-> ReadUpdate(command.update)]
    [] command.type = "dismiss" ->
         [op |-> "dismiss", target |-> ReadSelector(command.selector)]
    [] command.type = "jump" -> [op |-> "jump", key |-> PlainText(command.key)]
    [] command.type = "history-guard" -> [op |-> "history-guard"]
    [] command.type = "history-jump" -> [op |-> "history-jump", source |-> command.source]
    [] command.type = "config-reload" -> [op |-> "reload"]

\* ClientRequest::from_envelope.
Asked(request) ==
  IF EnvelopeOK(request) /\ ValidCommand(request.command)
  THEN Operation(request.command) ELSE Error

-----------------------------------------------------------------------------
(* The arguments, as clap accepts them.                                    *)

TimeoutArgs == {None, Never, Error} \cup [number : Nat, unit : DOMAIN Units]

SendArgs ==
  [title : Words \cup {None}, message : Words, level : Levels, priority : Priorities,
   timeout : TimeoutArgs, position : Positions \cup {None}, key : Words \cup {None},
   attention : BOOLEAN, noSource : BOOLEAN]

UpdateArgs ==
  [selector : Selectors, title : Words \cup {None}, message : Words \cup {None},
   level : Levels \cup {None}, priority : Priorities \cup {None},
   timeout : TimeoutArgs, position : Positions \cup {None}]

TypedLines ==
  [type : {"send"}, args : SendArgs] \cup [type : {"update"}, args : UpdateArgs]
    \cup [type : {"dismiss"}, args : [selector : Selectors]]
    \cup [type : {"jump"}, args : [key : Words]]
    \cup [type : {"config-reload"}, args : {None}]

\* The dispatch of app.rs: the request of a command line, or Error.
RequestOf(typed, source, configured) ==
  LET args == typed.args
  IN  CASE typed.type = "send" ->
             LET draft == DraftOf(args, source, configured)
             IN  IF draft = Error THEN Error
                 ELSE Request([type |-> "send", notification |-> WriteDraft(draft)])
        [] typed.type = "update" ->
             LET update == UpdateOf(args)
             IN  IF update = Error THEN Error
                 ELSE Request([type |-> "update", selector |-> args.selector,
                               update |-> WriteUpdate(update)])
        [] typed.type = "dismiss" ->
             Request([type |-> "dismiss", selector |-> args.selector])
        [] typed.type = "jump" -> Request([type |-> "jump", key |-> args.key])
        [] typed.type = "config-reload" -> Request([type |-> "config-reload"])
=============================================================================
