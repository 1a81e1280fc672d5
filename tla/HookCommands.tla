---------------------------- MODULE HookCommands ----------------------------
(***************************************************************************)
(* `tmnotify hook install`, `remove` and `sync` on the settings files of   *)
(* the agents, which the agents and their users edit too; and the hidden   *)
(* command that a hooked agent runs for an event.  Each is a process of    *)
(* its own that loads the configuration when it starts.                    *)
(*                                                                         *)
(* A settings file is Missing, Broken (not JSON, too long, a link), or a   *)
(* document: the groups of handlers under each event name, and whether its *)
(* `hooks` have a shape that add_handler refuses.                          *)
(***************************************************************************)
EXTENDS ClientProtocol, ConfigReload, SequencesExt

CONSTANTS
  Commands,     \* the tmnotify processes that change settings files
  Foreign,      \* handlers that are not tmnotify's
  Own, Old,     \* handlers of this executable, and of another tmnotify
  InlineCodex,  \* the scopes whose config.toml of Codex has inline hooks
  Requests,     \* the commands that users give
  EditedPlaces, EditedEvents,  \* where others edit
  Reports       \* <<provider, event>>: what agents report

VARIABLES
  settings,  \* the settings file of each provider and scope
  backup,    \* the .tmnotify.bak beside each
  command,   \* the commands under way
  firing,    \* the handlers that agents have started, and what for
  told       \* the Notifications that were submitted for events

hookVars == <<settings, backup, command, firing, told>>

\* supported_scopes, in the order that sync takes them.
Scopes(provider) ==
  IF provider = "claude" THEN <<"user", "project", "local">> ELSE <<"user", "project">>

PlacesOf(provider) ==
  [i \in DOMAIN Scopes(provider) |-> <<provider, Scopes(provider)[i]>>]

Places == ToSet(PlacesOf("claude") \o PlacesOf("codex"))

\* What clap accepts, and of what agents; the mark is none of the data.
ASSUME HookConstants ==
  /\ \A request \in Requests :
       /\ request.op \in {"install", "remove", "sync"}
       /\ request.work \in Seq(Places) /\ request.work # <<>>
  /\ \A report \in Reports : report[1] \in Providers
  /\ EditedPlaces \subseteq Places
  /\ None # NeedsInput /\ None \notin AgentParts

Empty == [odd |-> FALSE, groups |-> [n \in {} |-> <<>>]]
Odd   == [odd |-> TRUE, groups |-> Empty.groups]

IsDocument(doc) == doc # Missing /\ doc # Broken

Owned == {Own, Old}

-----------------------------------------------------------------------------
(* Documents.                                                              *)

\* visit_handler_records: the handlers with their event and matcher.
RecordsOf(n, groups) ==
  UNION {{[name |-> n, matcher |-> groups[g].matcher,
           handler |-> groups[g].handlers[h], at |-> <<g, h>>] :
             h \in DOMAIN groups[g].handlers} : g \in DOMAIN groups}

Records(doc) == UNION {RecordsOf(n, doc.groups[n]) : n \in DOMAIN doc.groups}

OwnedRecords(doc) == {r \in Records(doc) : r.handler \in Owned}

ContainsOwned(doc) == OwnedRecords(doc) # {}

\* installation_is_in_sync: as many owned handlers as desired events, and each
\* of them right.
InSync(doc, provider, policy) ==
  /\ Cardinality(OwnedRecords(doc)) = Cardinality(Desired(provider, policy))
  /\ \A r \in OwnedRecords(doc) :
       /\ r.handler = Own
       /\ r.name \in Desired(provider, policy)
       /\ r.matcher = RequiredMatcher(provider, r.name)

\* status_with_config: of one scope.
Status(doc, provider, policy) ==
  IF doc = Broken THEN Error
  ELSE IF doc = Missing \/ ~ContainsOwned(doc) THEN "not-installed"
  ELSE IF InSync(doc, provider, policy) THEN "in-sync" ELSE "out-of-sync"

\* Fault: a group that held an owned handler goes as a whole.
WithoutOwnedGroups(groups) ==
  SelectSeq(groups, LAMBDA g : g.handlers # <<>> /\ ToSet(g.handlers) \cap Owned = {})

\* Vec::retain: the elements at `places`, in their order.
Nth(places, i) == CHOOSE k \in places : Cardinality({j \in places : j <= k}) = i

Retained(seq, places) == [i \in 1 .. Cardinality(places) |-> seq[Nth(places, i)]]

\* remove_owned_handlers, of one event: groups without handlers go too.
Stripped(group) ==
  [group EXCEPT !.handlers =
     Retained(group.handlers, {h \in DOMAIN group.handlers : group.handlers[h] \notin Owned})]

WithoutOwned(groups) ==
  LET stripped == [g \in DOMAIN groups |-> Stripped(groups[g])]
  IN  Retained(stripped, {g \in DOMAIN groups : stripped[g].handlers # <<>>})

\* add_handler: into the first group with the matcher, or a new one.
WithHandler(groups, matcher) ==
  LET same == {i \in DOMAIN groups : groups[i].matcher = matcher}
  IN  IF same = {}
      THEN Append(groups, [matcher |-> matcher, handlers |-> <<Own>>])
      ELSE [groups EXCEPT ![Min(same)].handlers = Append(@, Own)]

\* reconcile_value: all owned handlers are removed, those that are desired are
\* added again.
Reconciled(doc, provider, desired) ==
  LET kept(n) == IF n \in DOMAIN doc.groups THEN WithoutOwned(doc.groups[n]) ELSE <<>>
      new(n)  == IF n \in desired THEN WithHandler(kept(n), RequiredMatcher(provider, n))
                 ELSE kept(n)
  IN  [doc EXCEPT !.groups =
         [n \in {n \in DOMAIN doc.groups \cup desired : new(n) # <<>>} |-> new(n)]]

\* What others have in a document, in their order.
Others(doc) ==
  [n \in {r.name : r \in Records(doc) \ OwnedRecords(doc)} |->
     WithoutOwned(doc.groups[n])]

-----------------------------------------------------------------------------
(* The commands.                                                           *)

NoCommand == [pc |-> "idle", op |-> None, work |-> <<>>, allow |-> FALSE,
              hooks |-> None, original |-> None, rendered |-> None]

HookInit ==
  /\ settings = [p \in Places |-> Missing]
  /\ backup = [p \in Places |-> Missing]
  /\ command = [c \in Commands |-> NoCommand]
  /\ firing = {}
  /\ told = {}

Ended(c) == command' = [command EXCEPT ![c] = NoCommand]

\* The next scope of a sync, or the end.
NextPlace(c) ==
  IF Len(command[c].work) = 1 THEN Ended(c)
  ELSE command' = [command EXCEPT ![c].pc = "read", ![c].work = Tail(@),
                                  ![c].original = None, ![c].rendered = None]

\* The process starts: a configuration that cannot be loaded ends it at once.
Begin(c, request) ==
  /\ Happens
  /\ command[c].pc = "idle" /\ CanLoad
  /\ command' = [command EXCEPT
       ![c] = [NoCommand EXCEPT
                 !.pc = "read", !.op = request.op, !.work = request.work,
                 !.allow = request.allow, !.hooks = Loaded.hooks]]
  /\ UNCHANGED <<settings, backup, firing, told>>

\* reject_inline_codex.
Mixed(place, allow) == place[1] = "codex" /\ ~allow /\ place[2] \in InlineCodex

\* The file is read and the new document made: `outcome` says how it goes on.
Outcome(op, place, policy, allow, doc) ==
  LET desired == Desired(place[1], policy)
      base    == IF doc = Missing THEN Empty ELSE doc
  IN  IF doc = Broken THEN "error"
      ELSE IF op # "install" /\ (doc = Missing \/ ~ContainsOwned(doc)) THEN "unchanged"
      ELSE IF op # "remove" /\ Mixed(place, allow) THEN "error"
      ELSE IF op # "remove" /\ InSync(base, place[1], policy) THEN "unchanged"
      ELSE IF op # "remove" /\ base.odd /\ desired # {} THEN "error"
      ELSE "write"

Read(c) ==
  LET cmd     == command[c]
      place   == Head(cmd.work)
      policy  == cmd.hooks[place[1]]
      doc     == settings[place]
      outcome == Outcome(cmd.op, place, policy, cmd.allow, doc)
      desired == IF cmd.op = "remove" THEN {} ELSE Desired(place[1], policy)
  IN  /\ cmd.pc = "read"
      /\ CASE outcome = "error"     -> Ended(c)
           [] outcome = "unchanged" -> NextPlace(c)
           [] outcome = "write"     ->
                command' = [command EXCEPT
                  ![c].pc = IF doc = Missing THEN "replace" ELSE "backup",
                  ![c].original = doc,
                  ![c].rendered = Reconciled(IF doc = Missing THEN Empty ELSE doc,
                                             place[1], desired)]
      /\ UNCHANGED <<settings, backup, firing, told, events>>

\* atomic_replace, first half: what was read goes to the backup.
Backup(c) ==
  /\ command[c].pc = "backup"
  /\ backup' = [backup EXCEPT ![Head(command[c].work)] = command[c].original]
  /\ command' = [command EXCEPT ![c].pc = "replace"]
  /\ UNCHANGED <<settings, firing, told, events>>

\* ... second half: the rename.  Nothing looks at what is there by now.
Replace(c) ==
  /\ command[c].pc = "replace"
  /\ settings' = [settings EXCEPT ![Head(command[c].work)] = command[c].rendered]
  /\ NextPlace(c)
  /\ UNCHANGED <<backup, firing, told, events>>

\* The process is killed, or the disk fails: earlier scopes stay as they are.
Die(c) ==
  /\ Happens
  /\ command[c].pc \in {"backup", "replace"}
  /\ Ended(c)
  /\ UNCHANGED <<settings, backup, firing, told>>

\* write_hook_status, for the providers that were named: a file that cannot be
\* read ends it.
HookStatus(providers, hooks) ==
  LET places == UNION {ToSet(PlacesOf(provider)) : provider \in providers}
      status == [p \in places |-> Status(settings[p], p[1], hooks[p[1]])]
  IN  IF \E p \in places : status[p] = Error THEN Error ELSE status

\* run_production_doctor, of one provider: installed somewhere, and in sync
\* wherever it is installed.  It looks at all of them.
Synchronized(provider, hooks) ==
  LET states == IF HookStatus(Providers, hooks) = Error THEN {}
                ELSE Range(HookStatus({provider}, hooks))
  IN  "in-sync" \in states /\ "out-of-sync" \notin states

-----------------------------------------------------------------------------
(* Agents and their users.                                                 *)

\* Someone else replaces a settings file.
EditSettings(place, doc) ==
  /\ Happens
  /\ settings[place] # doc
  /\ settings' = [settings EXCEPT ![place] = doc]
  /\ UNCHANGED <<backup, command, firing, told>>

\* Another handler is added to those of an event.
Added(doc, name, handler) ==
  LET old == IF IsDocument(doc) THEN doc ELSE Empty
      group == [matcher |-> None, handlers |-> <<handler>>]
  IN  [old EXCEPT !.groups =
         [n \in DOMAIN old.groups \cup {name} |->
            IF n # name THEN old.groups[n]
            ELSE IF n \notin DOMAIN old.groups THEN <<group>>
            ELSE [old.groups[n] EXCEPT ![1].handlers = Append(@, handler)]]]

\* The handlers of this executable that an agent runs for an event.
Runs(doc, event) ==
  {r \in Records(doc) : /\ r.handler = Own /\ r.name = event.name
                        /\ r.matcher \in {None, event.type}}

\* An agent has something to report and starts its handlers.
Fire(provider, event) ==
  /\ Happens
  /\ firing' = firing \cup
       UNION {{[provider |-> provider, event |-> event, place |-> p, at |-> r.at] :
                 r \in Runs(settings[p], event)} :
                   p \in {p \in Places : p[1] = provider /\ IsDocument(settings[p])}}
  /\ firing' # firing
  /\ UNCHANGED <<settings, backup, command, told>>

\* RuntimeHookSubmitter: what the daemon reads.
Submitted(draft) ==
  Asked(Request([type |-> "send", notification |-> WriteDraft(draft)]))

\* receive_hook_event, in a pane of the server or not, and the daemon's submit:
\* whatever goes wrong, the agent does not notice.  A configuration that cannot
\* be loaded loses the event.
Receive(x, pane) ==
  LET parts == IF CanLoad THEN Normalized(x.provider, x.event, Loaded.hooks[x.provider])
               ELSE None
      draft == IF parts = None THEN Error
               ELSE HookDraft(x.provider, "session", parts, pane)
      sent  == IF draft = Error THEN {} ELSE {Submitted(draft)}
  IN
  /\ firing' = firing \ {x}
  /\ told' \in {told, told \cup sent}
  /\ UNCHANGED <<settings, backup, command, events>>

HookNext ==
  \/ \E c \in Commands :
       \/ \E request \in Requests : Begin(c, request)
       \/ Read(c) \/ Backup(c) \/ Replace(c) \/ Die(c)
  \/ \E p \in EditedPlaces, doc \in {Missing, Broken, Odd} :
       EditSettings(p, doc)
  \/ \E p \in EditedPlaces, h \in Foreign \cup Owned, n \in EditedEvents :
       /\ settings[p] \notin {Broken, Odd}
       /\ EditSettings(p, Added(settings[p], n, h))
  \/ \E report \in Reports : Fire(report[1], report[2])
  \/ \E x \in firing, pane \in {None, "pane"} : Receive(x, pane)

settingsVars == <<configVars, hookVars, events>>

SettingsInit == ConfigInit /\ HookInit

SettingsNext == (ConfigNext /\ UNCHANGED hookVars) \/ (HookNext /\ UNCHANGED configVars)

-----------------------------------------------------------------------------
HookTypeOK ==
  /\ \A p \in Places :
       IsDocument(settings[p]) /\ settings[p].odd => settings[p].groups = Empty.groups
  /\ \A c \in Commands :
       command[c].pc # "idle" => command[c].work # <<>> /\ ToSet(command[c].work) \subseteq Places
  /\ \A asked \in told :
       asked # Error /\ asked.op = "submit" /\ asked.draft.kind \in HookEvents

\* A command that replaces a file leaves the handlers of others as it read
\* them, and of tmnotify's own exactly one for each event that its
\* configuration asks for, or none after `remove`: so an edit of somebody else
\* is undone only if it was made after the command read the file.
ReplacesExactly(c) ==
  LET cmd  == command[c]
      p    == Head(cmd.work)
      read == IF cmd.original = Missing THEN Empty ELSE cmd.original
      new  == settings'[p]
      want == IF cmd.op = "remove" THEN {} ELSE Desired(p[1], cmd.hooks[p[1]])
  IN  cmd.pc = "replace" /\ command'[c] # cmd /\ settings' # settings =>
        /\ Others(new) = Others(read)
        /\ Cardinality(OwnedRecords(new)) = Cardinality(want)
        /\ {[name |-> r.name, matcher |-> r.matcher, handler |-> r.handler] :
              r \in OwnedRecords(new)} =
           {[name |-> n, matcher |-> RequiredMatcher(p[1], n), handler |-> Own] : n \in want}

CommandsAreExact == [][\A c \in Commands : ReplacesExactly(c)]_settingsVars

Doubled(doc) ==
  \E r, s \in OwnedRecords(doc) : r # s /\ r.name = s.name

\* What `hook status` calls in sync tells the user of each event that the
\* configuration asks for, once, and of no other; unless somebody doubled a
\* handler, which the count of installation_is_in_sync may take for a missing
\* one.  What it calls not installed tells of nothing.  And a provider that
\* `doctor` calls synchronized, which is said only if every scope can be read,
\* is told of somewhere.
StatusIsTrue ==
  CanLoad =>
    \A provider \in Providers :
      LET status    == HookStatus({provider}, Loaded.hooks)
          places    == ToSet(PlacesOf(provider))
          wanted(e) == Normalized(provider, e, Loaded.hooks[provider]) # None
          tells(p)  == [e \in AgentEvents(provider) |-> Cardinality(Runs(settings[p], e))]
      IN  /\ status # Error =>
               \A p \in places :
                 /\ status[p] = "in-sync" /\ ~Doubled(settings[p]) =>
                      \A e \in AgentEvents(provider) :
                        tells(p)[e] = IF wanted(e) THEN 1 ELSE 0
                 /\ status[p] = "not-installed" /\ settings[p] # Missing =>
                      \A e \in AgentEvents(provider) : tells(p)[e] = 0
          /\ Synchronized(provider, Loaded.hooks) =>
               \A e \in {e \in AgentEvents(provider) : wanted(e)} :
                 \E p \in places :
                   settings[p] # Missing /\ (Doubled(settings[p]) \/ tells(p)[e] = 1)

\* Two events that share a key, so that the one replaces the other, are of the
\* same kind and look the same; and one that waits for the user says where.
KeysAgree ==
  /\ \A a, b \in told :
       a.draft.key = b.draft.key => [a.draft EXCEPT !.source = None] = [b.draft EXCEPT !.source = None]
  /\ \A a \in told :
       a.draft.presentation = "attention" =>
         a.draft.timeout = Never /\ a.draft.source.pane # None

\* The agents' hooks: typed, reported truly, and told apart.
EventsAreTold == HookTypeOK /\ StatusIsTrue /\ KeysAgree
=============================================================================
