----------------------------- MODULE AgentHooks -----------------------------
(***************************************************************************)
(* The tables of src/providers and src/hooks.rs: which events of an agent  *)
(* a policy asks for, under which names they are hooked, and what an event *)
(* that arrives becomes.                                                   *)
(***************************************************************************)
EXTENDS Configuration

PresetEvents(preset) ==
  LET minimal == {"needs-attention", "completed", "failed"}
      normal  == minimal \cup {"subagent-completed", "interrupted"}
  IN  CASE preset = "minimal" -> minimal
        [] preset = "normal"  -> normal
        [] preset = "verbose" -> normal \cup {"started", "tool-started", "tool-completed"}

\* HookPolicy::is_enabled.
Enabled(policy, kind) ==
  kind \in (PresetEvents(policy.preset) \cup policy.enable) \ policy.disable

\* Fault: a permission request is the only thing that needs attention.
EventNamesWithoutMessages(provider, kind) ==
  CASE kind = "needs-attention"    -> {"PermissionRequest"}
    [] kind = "completed"          -> {"Stop"}
    [] kind = "failed"             -> IF provider = "claude" THEN {"StopFailure"} ELSE {}
    [] kind = "started"            -> {"SessionStart"}
    [] kind = "interrupted"        -> IF provider = "codex" THEN {"Interrupt"} ELSE {}
    [] kind = "subagent-completed" -> {"SubagentStop"}
    [] kind = "tool-started"       -> {"PreToolUse"}
    [] kind = "tool-completed"     -> {"PostToolUse"}

\* provider_event_names.
EventNames(provider, kind) ==
  CASE kind = "needs-attention"    -> {"PermissionRequest"} \cup
                                      (IF provider = "claude" THEN {"Notification"} ELSE {})
    [] kind = "completed"          -> {"Stop"}
    [] kind = "failed"             -> IF provider = "claude" THEN {"StopFailure"} ELSE {}
    [] kind = "started"            -> {"SessionStart"}
    [] kind = "interrupted"        -> IF provider = "codex" THEN {"Interrupt"} ELSE {}
    [] kind = "subagent-completed" -> {"SubagentStop"}
    [] kind = "tool-started"       -> {"PreToolUse"}
    [] kind = "tool-completed"     -> {"PostToolUse"}

\* desired_events.
Desired(provider, policy) ==
  UNION {EventNames(provider, kind) : kind \in {k \in HookEvents : Enabled(policy, k)}}

NeedsInput == "agent_needs_input"

\* required_matcher.
RequiredMatcher(provider, name) ==
  IF provider = "claude" /\ name = "Notification" THEN NeedsInput ELSE None

\* What agents report: an event name, and the type that a Claude Notification
\* has and that its matcher is compared with.
AgentEvents(provider) ==
  {[name |-> n, type |-> None] :
     n \in {"PermissionRequest", "Stop", "SessionStart", "SubagentStop",
            "PreToolUse", "PostToolUse"} \cup
           (IF provider = "claude" THEN {"StopFailure", "SessionEnd"} ELSE {"Interrupt"})}
  \cup
  {[name |-> "Notification", type |-> t] :
     t \in IF provider = "claude" THEN {NeedsInput, "idle_prompt"} ELSE {}}

Parts(kind, purpose, presentation, level, priority) ==
  [kind |-> kind, purpose |-> purpose, presentation |-> presentation,
   level |-> level, priority |-> priority]

Attention == Parts("needs-attention", "attention", "attention", "warning", "high")
Done(kind) == Parts(kind, kind, "toast", "success", "normal")
Info(kind) == Parts(kind, kind, "toast", "info", "low")

Failure == Parts("failed", "failed", "toast", "error", "high")

\* All that an event can become.
AgentParts ==
  {Attention, Failure} \cup {Done(kind) : kind \in {"completed", "subagent-completed"}}
    \cup {Info(kind) : kind \in {"started", "interrupted", "tool-started", "tool-completed"}}

\* The DraftParts of the events that both agents report; None for one that is
\* ignored.
CommonParts(name) ==
  CASE name = "PermissionRequest" -> Attention
    [] name = "Stop"         -> Done("completed")
    [] name = "SubagentStop" -> Done("subagent-completed")
    [] name = "SessionStart" -> Info("started")
    [] name = "PreToolUse"   -> Info("tool-started")
    [] name = "PostToolUse"  -> Info("tool-completed")
    [] OTHER -> None

\* claude::normalize.
ClaudeParts(event) ==
  CASE event.name = "Notification" -> IF event.type = NeedsInput THEN Attention ELSE None
    [] event.name = "StopFailure"  -> Failure
    [] OTHER -> CommonParts(event.name)

\* codex::normalize.
CodexParts(event) ==
  IF event.name = "Interrupt" THEN Info("interrupted") ELSE CommonParts(event.name)

\* normalize: what an event becomes; None when the policy does not want it.
Normalized(provider, event, policy) ==
  LET parts == IF provider = "claude" THEN ClaudeParts(event) ELSE CodexParts(event)
  IN  IF parts = None THEN None
      ELSE IF Enabled(policy, parts.kind) THEN parts ELSE None
=============================================================================
