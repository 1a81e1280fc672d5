--------------------------- MODULE Configuration ---------------------------
(***************************************************************************)
(* Config of src/config.rs: how a file becomes the effective configuration *)
(* (parsing, environment and command line, validation), what of it changes *)
(* the daemon's settings, and its canonical text.  The fields that stand   *)
(* for all of a kind: two bounded numbers, a timeout, switches that the    *)
(* environment may turn off, and the hooks.                                *)
(***************************************************************************)
EXTENDS Integers, FiniteSets

CONSTANTS
  None,     \* Option::None
  Never,    \* TimeoutValue::Never
  Missing,  \* there is no file
  Broken    \* a file that cannot be read or parsed

Providers == {"claude", "codex"}

Presets == {"minimal", "normal", "verbose"}

HookEvents == {"needs-attention", "completed", "failed", "started", "interrupted",
               "subagent-completed", "tool-started", "tool-completed"}

HookProviderConfig ==
  [preset : Presets, enable : SUBSET HookEvents, disable : SUBSET HookEvents]

FeatureMode == {"auto", "always", "never"}

Units == [ms |-> 1, s |-> 1000, m |-> 60000, h |-> 3600000]

\* What a file that can be parsed says.
Texts ==
  [maxPending : Nat, maxVisible : Nat,
   timeout : {Never} \cup [number : Nat, unit : DOMAIN Units],
   animated : BOOLEAN, color : FeatureMode, unicode : FeatureMode,
   historyEntries : Nat, hooks : [Providers -> HookProviderConfig]]

DefaultHooks == [preset |-> "minimal", enable |-> {}, disable |-> {}]

\* What a file says that leaves every field out, and what is used without one.
Default ==
  [maxPending |-> 1000, maxVisible |-> 4,
   timeout |-> [number |-> 3, unit |-> "s"],
   animated |-> TRUE, color |-> "auto", unicode |-> "auto",
   historyEntries |-> 10000,
   hooks |-> [p \in Providers |-> DefaultHooks]]

ParseDuration(text) == text.number * Units[text.unit]

\* The largest unit that divides the duration.
FormatDuration(ms) ==
  LET unit == IF ms = 0 THEN "ms"
              ELSE IF ms % Units.h = 0 THEN "h"
              ELSE IF ms % Units.m = 0 THEN "m"
              ELSE IF ms % Units.s = 0 THEN "s" ELSE "ms"
  IN  [number |-> ms \div Units[unit], unit |-> unit]

Parsed(text) ==
  [text EXCEPT !.timeout = IF @ = Never THEN @ ELSE ParseDuration(@)]

\* to_stable_toml.
Printed(config) ==
  [config EXCEPT !.timeout = IF @ = Never THEN @ ELSE FormatDuration(@)]

\* apply_precedence: the environment overrides the file, the command line both.
Overridden(config, env, cli) ==
  [config EXCEPT
     !.color    = IF cli.color # None THEN cli.color
                  ELSE IF env.noColor \/ env.dumb THEN "never" ELSE @,
     !.unicode  = IF cli.unicode # None THEN cli.unicode
                  ELSE IF env.dumb THEN "never" ELSE @,
     !.animated = IF cli.animated # None THEN cli.animated
                  ELSE @ /\ ~env.dumb]

\* Config::validate.
Valid(config) ==
  /\ config.maxPending \in 1 .. 10000
  /\ config.maxVisible \in 1 .. 100
  /\ config.timeout # Never => config.timeout <= 24 * Units.h
  /\ 1 <= config.historyEntries /\ config.historyEntries <= 1000000
  /\ \A p \in Providers : config.hooks[p].enable \cap config.hooks[p].disable = {}

Candidate(content, env, cli) ==
  Overridden(Parsed(IF content = Missing THEN Default ELSE content), env, cli)

\* load: a file that cannot be read or parsed or holds a value that
\* is not allowed is refused.
Loads(content, env, cli) ==
  content # Broken /\ Valid(Candidate(content, env, cli))

\* DaemonSettings::from_config: the environment is looked at again.
SettingsOf(config, env) ==
  [limits |-> [maxPending |-> config.maxPending, maxVisible |-> config.maxVisible],
   color    |-> config.color # "never" /\ ~env.dumb /\ ~env.noColor,
   unicode  |-> config.unicode # "never" /\ ~env.dumb,
   animated |-> config.animated /\ ~env.dumb]

\* Fault: a change of `display` is taken for one that the daemon ignores.
ChangesDaemonNotDisplay(old, new) ==
  <<old.maxPending, old.maxVisible, old.timeout, old.animated>> #
    <<new.maxPending, new.maxVisible, new.timeout, new.animated>>

\* ConfigManager::replace: which of the changes the running daemon takes over;
\* those of `history` and `hooks` it does not.
ChangesDaemon(old, new) ==
  \/ old.maxPending # new.maxPending
  \/ <<old.maxVisible, old.timeout, old.animated>> #
       <<new.maxVisible, new.timeout, new.animated>>
  \/ <<old.color, old.unicode>> # <<new.color, new.unicode>>
=============================================================================
