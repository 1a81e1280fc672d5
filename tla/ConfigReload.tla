---------------------------- MODULE ConfigReload ----------------------------
(***************************************************************************)
(* ConfigManager and LiveConfigReload: the daemon reads its configuration  *)
(* when it starts, its loop looks at the file now and then, and a client   *)
(* may ask for a reload at the same time, while the user replaces the file *)
(* between any two system calls.                                           *)
(*                                                                         *)
(* A fingerprint (modification time, length, inode) is a number that each  *)
(* replacement changes.                                                    *)
(***************************************************************************)
EXTENDS Configuration

CONSTANTS
  Contents,      \* what the configuration file may hold, besides Missing
  Environments,  \* [dumb, noColor]: TERM and NO_COLOR of the daemon
  MaxEvents      \* bound on what users, agents and clients do in all

\* Files are read as texts or not at all; the marks are none of the data.
ASSUME ConfigConstants ==
  /\ Contents \subseteq Texts \cup {Broken}
  /\ Environments \subseteq [dumb : BOOLEAN, noColor : BOOLEAN]
  /\ MaxEvents \in Nat
  /\ Missing # Broken /\ {Missing, Broken} \cap Texts = {}
  /\ None \notin Nat
  /\ Never \notin Nat \cup [number : Nat, unit : DOMAIN Units]

VARIABLES
  file,       \* [content, stamp] of the configuration file
  daemon,     \* "down", "loading" (ConfigManager::new is half done), "up"
  env,        \* the daemon's environment
  manager,    \* [active, observed] of ConfigManager
  task,       \* the reloads: [pc, settings]; the one that "looked" has the lock
  published,  \* the DaemonSettings in the watch channel
  raced,      \* history: the last change was loaded while another was published
  missed,     \* history: a file was loaded whose change cannot be noticed, or one
              \* that can be loaded could not be read
  events      \* how much users, agents and clients did

configVars == <<file, daemon, env, manager, task, published, raced, missed>>

Tasks == {"loop", "client"}

NoOverrides == [color |-> None, unicode |-> None, animated |-> None]

Fingerprint == IF file.content = Missing THEN None ELSE file.stamp

CanLoad == Loads(file.content, env, NoOverrides)
Loaded  == Candidate(file.content, env, NoOverrides)

Idle == [pc |-> "idle", settings |-> None]

ConfigInit ==
  /\ file = [content |-> Missing, stamp |-> 0]
  /\ daemon = "down"
  /\ env \in Environments
  /\ manager = [active |-> Parsed(Default), observed |-> None]
  /\ task = [t \in Tasks |-> Idle]
  /\ published = None
  /\ raced = FALSE /\ missed = FALSE
  /\ events = 0

Happens == events < MaxEvents /\ events' = events + 1

-----------------------------------------------------------------------------
\* The user replaces the file, or removes it.
EditConfig(content) ==
  /\ Happens
  /\ file.content # content
  /\ file' = [content |-> content, stamp |-> file.stamp + 1]
  /\ UNCHANGED <<daemon, env, manager, task, published, raced, missed>>

\* The user makes the output of `tmnotify config show` the file.
AdoptShown ==
  /\ Happens
  /\ CanLoad
  /\ file' = [content |-> Printed(Loaded), stamp |-> file.stamp + 1]
  /\ UNCHANGED <<daemon, env, manager, task, published, raced, missed>>

\* ConfigManager::new loads the file and then takes its fingerprint.
StartDaemon ==
  /\ Happens
  /\ daemon = "down" /\ CanLoad
  /\ daemon' = "loading"
  /\ manager' = [active |-> Loaded, observed |-> Fingerprint]
  /\ published' = SettingsOf(Loaded, env)
  /\ UNCHANGED <<file, env, task, raced, missed>>

Observe ==
  /\ daemon = "loading"
  /\ daemon' = "up"
  /\ manager' = [manager EXCEPT !.observed = Fingerprint]
  /\ missed' = (Fingerprint # manager.observed)
  /\ UNCHANGED <<file, env, task, published, raced, events>>

LockFree == \A t \in Tasks : task[t].pc # "looked"

\* reload_if_changed, of the loop, and reload_now, of a client: the fingerprint
\* is remembered before the file is read.
Look(t) ==
  /\ daemon = "up" /\ LockFree /\ task[t].pc = "idle"
  /\ IF t = "client" THEN Happens
     ELSE Fingerprint # manager.observed /\ UNCHANGED events
  /\ manager' = [manager EXCEPT !.observed = Fingerprint]
  /\ missed' = (missed /\ Fingerprint = manager.observed)
  /\ task' = [task EXCEPT ![t].pc = "looked"]
  /\ UNCHANGED <<file, daemon, env, published, raced>>

\* The rest, under the lock: a configuration that is refused, or a file that
\* cannot be read for once, leaves the last good one, and settings are published
\* after the lock is released.
Reload(t) ==
  /\ task[t].pc = "looked"
  /\ \E readable \in IF file.content = Missing THEN {TRUE} ELSE BOOLEAN :
       /\ missed' = \/ manager.observed = None /\ Fingerprint # None
                    \/ ~readable /\ (missed \/ CanLoad)
       /\ IF readable /\ CanLoad /\ Loaded # manager.active
          THEN /\ manager' = [manager EXCEPT !.active = Loaded]
               /\ IF ChangesDaemon(manager.active, Loaded)
                  THEN /\ task' = [task EXCEPT
                            ![t] = [pc |-> "publish", settings |-> SettingsOf(Loaded, env)]]
                       /\ raced' = (\E u \in Tasks \ {t} : task[u].pc = "publish")
                  ELSE task' = [task EXCEPT ![t] = Idle] /\ UNCHANGED raced
          ELSE /\ task' = [task EXCEPT ![t] = Idle]
               /\ UNCHANGED <<manager, raced>>
  /\ UNCHANGED <<file, daemon, env, published, events>>

\* settings_sender.send_replace.
Publish(t) ==
  /\ task[t].pc = "publish"
  /\ published' = task[t].settings
  /\ task' = [task EXCEPT ![t] = Idle]
  /\ UNCHANGED <<file, daemon, env, manager, raced, missed, events>>

\* The daemon ends, and what it had under way with it: also when it has loaded
\* the file and cannot take its fingerprint.
StopDaemon ==
  /\ Happens
  /\ daemon # "down"
  /\ daemon' = "down"
  /\ task' = [t \in Tasks |-> Idle]
  /\ raced' = FALSE /\ missed' = FALSE
  /\ UNCHANGED <<file, env, manager, published>>

ConfigNext ==
  \/ \E content \in Contents \cup {Missing} : EditConfig(content)
  \/ AdoptShown \/ StartDaemon \/ Observe \/ StopDaemon
  \/ \E t \in Tasks : Look(t) \/ Reload(t) \/ Publish(t)

-----------------------------------------------------------------------------
ConfigTypeOK ==
  /\ file.stamp \in Nat /\ events \in 0 .. MaxEvents
  /\ daemon \in {"down", "loading", "up"}
  /\ Valid(manager.active)
  /\ manager.observed \in Nat \cup {None}
  /\ \A t \in Tasks : task[t].pc \in {"idle", "looked", "publish"}

\* The daemon runs with the last file that was good: as long as nothing is
\* under way, an unchanged fingerprint means that the file was loaded, or was
\* refused; unless it was replaced while the daemon started, came after the
\* look that found none and went after the load, or could not be read when it
\* was last looked at, after which it must change again or be asked for.  And
\* the settings are those of the active configuration, unless two reloads
\* overlapped.
SettingsFollowFile ==
  daemon = "up" /\ (\A t \in Tasks : task[t].pc = "idle") =>
    /\ Fingerprint = manager.observed /\ ~missed /\ CanLoad =>
         manager.active = Loaded
    /\ ~raced => published = SettingsOf(manager.active, env)

\* `config show` prints a file that means the same to whoever loads it.
ShownIsSame ==
  \A e \in Environments :
    Loads(file.content, e, NoOverrides) =>
      LET shown == Candidate(file.content, e, NoOverrides)
      IN  /\ Loads(Printed(shown), e, NoOverrides)
          /\ Candidate(Printed(shown), e, NoOverrides) = shown

\* The configuration: typed, followed, and printed as it is.
SettingsAreCurrent == ConfigTypeOK /\ SettingsFollowFile /\ ShownIsSame
=============================================================================
