# Specifications of tmnotify

tmnotify shows notifications of programs that run inside tmux. One daemon per
tmux server keeps what is live, decides what is on the screen, draws it in
floating panes of every window somebody looks at, and records it in a database
shared by all daemons. This directory specifies that behaviour in TLA+, checks
it with TLC on small instances and proves part of it with TLAPS.

## 1. Inventory of the system

| component | source | state it keeps | operations |
|---|---|---|---|
| Live scheduler | `src/daemon/mod.rs`, `src/notification.rs` | live entries with their timer and jump nonce, `pending`, `active_toasts`, `active_attention`, `live_keys`, bounded `closed`, revisions | submit, update, dismiss, render_failed, shutdown, set_display_available, update_limits, advance, begin/cancel/commit_jump, drain_closed |
| Daemon service | `src/daemon/service.rs` | the scheduler, the history handle and the display sessions behind locks | one handler per client command and renderer action; jumps, which leave the lock while tmux switches |
| Daemon application | `src/daemon/application.rs` | the reconciler, the reload and shutdown channels | the reconcile loop, configuration reload, shutdown sequence, CLI-side clients of the daemon |
| Window reconciler | `src/daemon/reconcile.rs`, `src/tmux/production.rs` | desired and actual displays per window, animation frames, failed attempts per window, back-off after a lost connection | tick, update_policy; snapshot, reconcile, jump of the backend |
| Runtime | `src/daemon/runtime.rs` | listening socket, running requests, request result cache | socket election, stale socket removal, one task per connection, at-most-once execution of a request, lazy start |
| Wire protocol | `src/protocol.rs` | frame decoder buffer, request result cache | decode, validate, bounded frames, result cache with LRU and TTL |
| Renderer sessions | `src/render.rs` | one-time credentials, bound sessions with their generation, bounded list of retired tokens | create, redeem, update, terminate, renderer_exited, expire |
| Renderer process | `src/renderer_runtime.rs` | a connection, at most 16 frames not yet drawn | redeem, draw, update, act, terminate |
| tmux control client | `src/tmux/control.rs`, `src/tmux/production.rs` | FIFO of tickets of commands not yet answered, the answer being collected | send, line, begin/end/error blocks, notifications, disconnect |
| tmux topology and capability | `src/tmux/topology.rs`, `src/tmux/mod.rs`, `src/tmux/capability.rs` | none | parse a snapshot, pick eligible windows and the likely client, probe the features |
| Toast layout and animation | `src/toast.rs` | none (pure) | layout of one window, frames of an enter or exit animation, text wrapping |
| History store | `src/history.rs` | an SQLite database shared by the daemons, the CLI and the UI; a bounded queue to one worker thread per handle | open with recovery, persist, hide, unhide, mark_jumped, list, clear, count_clear, flush; retention |
| History UI | `src/ui/history.rs` | the view, a worker thread with two bounded queues | keys, optimistic hide and undo, rollback, jump with confirmation |
| Attention UI | `src/ui/attention.rs`, `src/ui/mod.rs` | terminal mode | keys to an outcome, responsive layout |
| Configuration | `src/config.rs` | the active snapshot, the fingerprint of the file last observed | load, validate, reload_if_changed, reload_now |
| Hook installation and ingress | `src/hooks.rs`, `src/providers/*.rs` | a provider's settings file and its backup | install, remove, sync, status; normalise one event, submit within two seconds |
| Platform | `src/platform.rs` | private directories, a log of one generation | path resolution, permission checks, log rotation |
| Command line and diagnostics | `src/cli.rs`, `src/app.rs`, `src/main.rs`, `src/doctor.rs` | none | parse, dispatch, report |

**How they interact.** A CLI process encodes a request and sends it over the
daemon's socket, starting a daemon when nobody listens (runtime). The daemon
runs each request in a task of its own; the request takes the scheduler's lock,
calls one method, drains the closed records and releases the lock before it
waits for History. Independently, the application's loop takes a snapshot of the
tmux topology, tells the scheduler whether a window is eligible, takes the
display plan and hands it to the reconciler, which drives tmux over one control
connection. Panes that tmux opens run renderer processes; they redeem a one-time
credential over the same socket and send back Dismiss and Jump. A jump begins
under the scheduler's lock, switches the tmux client outside of it, and is
committed or cancelled under the lock afterwards. The history database is written
by the worker thread of each handle, in each process.

**What is hard.** Requests, the loop, configuration reloads and the two halves of
a jump interleave in any order on one scheduler; a timeout is paused and resumed
by four independent causes; a Notification is sorted into exactly one of several
containers that many methods edit; retries carry a request id so that a request
runs at most once; daemons race for one socket; a window may disappear between
the snapshot and the command; the history queue may be full, SQLite may be busy,
and snapshots of one Notification may be queued in another order than they were
taken.

**What makes each part correct.**

- *Scheduler*: every live Notification is in exactly one queue or place; the key
  index is exact; the best one is shown and the worst is suppressed; a timeout
  measures shown time and nothing else; a jump pins what it jumps to; no record of
  a close is lost.
- *Service and application*: an answer tells what happened; what a request closes
  reaches History, in the order it happened; a jump is always decided, also when the
  renderer, the client or tmux goes away.
- *Reconciler*: what tmux shows converges to the plan; a failure takes nothing away that
  is shown; timeouts stand still while the connection is lost; a Notification is reported
  failed only when no window shows all it should.
- *Runtime and cache*: one daemon per socket; a request runs at most once within the
  cache's lifetime.
- *Renderer sessions*: a credential is redeemed once, by the renderer it was made
  for; the exit of an old renderer does not end a new session.
- *Control client*: an answer goes to the command that asked for it.
- *Layout*: toasts do not overlap, stay in the window and keep their order.
- *History*: a closed row never becomes live again; hidden rows go first; recovery
  touches this server's rows only.
- *History UI*: what the list shows is what the database holds once the worker is
  idle.

The full list of hazards, each at its line with the properties that cover it, is in
`PROJECT.json`.

## 2. Modules

| module | models |
|---|---|
| `Lines` | the `Vec<NotificationId>` queues: a line is the function from a member to its place, so membership is `DOMAIN` and no operation recurses |
| `Scheduler` | `LiveScheduler` as a record and each method as an operator from state to state |
| `Lifecycle` | abstract: what a Notification goes through, from none to pending, visible and closed |
| `LiveScheduler` | one scheduler with all callers it has, in any order; it implements `Lifecycle` |
| `DaemonRequests` | the daemon around the scheduler: service, application and shutdown, as processes |
| `SocketElection` | lazy start: the clients, the daemons they spawn, and the socket file, one system call a step |
| `RequestServer` | the daemon's socket once it serves: connections, frames, permits, ID locks, the result cache, the shutdown |
| `TmuxDisplays` | `ProductionBackend` as the reconciler sees it: displays, dead panes, and how far one call of `reconcile` gets |
| `WindowReconciler` | the tick of `WindowReconciler` in all the ways it ends, with the scheduler, the clients and tmux around it |
| `ReconcileLoop` | `reconcile_loop`, which ticks for ever, with the fairness that gives |
| `RendererSessions` | credentials, sessions, the connections that redeem, and the processes that draw |
| `HistoryStore` | the database and the handles on it: daemons and readers, each with a queue, a worker and a connection |
| `HistoryViewer` | the interactive History over `HistoryStore`: its optimistic list, its action thread, its keys |
| `Configuration` | how a file, the environment and the command line become the effective configuration |
| `ConfigReload` | `ConfigManager` and the daemon's two ways of reloading, while the file changes |
| `AgentHooks` | the tables of events of both agents, what a policy asks for, and what an event becomes |
| `ClientProtocol` | drafts and updates, and the requests they are written as and read from |
| `HookCommands` | install, remove, sync and status on the agents' settings files, and the command a hook runs |
| `HistoryCommands` | `history` and `history clear`, and what a viewer asks a daemon |
| `ClientCommands` | the remaining command lines, and what the daemon is asked for each |
| `MC...` | drafts, commands, limits, files and symmetry for TLC |
| `SchedulerTheorems`, `LiveSchedulerProofs`, `ClientProofs`, `RequestServerProofs`, `WindowReconcilerProofs`, `HistoryProofs`, `RendererSessionsProofs`, `DaemonRequestsProofs` | proofs, section 5 |

`Scheduler` uses `Lines`; `LiveScheduler` and `DaemonRequests` both compose `Scheduler`
with its callers: the first with every method at every moment and no time passing
between reading the clock and calling, the second with the tasks of the daemon.
`WindowReconciler` extends `TmuxDisplays` and has the scheduler as what a tick sees of
it: any display plan that `LiveScheduler` may have next. `ReconcileLoop` extends it.
`HistoryViewer` extends `HistoryStore`: the viewer's action thread is a reader of the same
database as the process that clears it. `SocketElection`, `RequestServer` and
`RendererSessions` stand beside them: they are about processes that share no memory, and
what a request does to the scheduler is not their question. The settings are one
composition: `ClientCommands` extends `HookCommands` and `HistoryCommands`, which extend
`ClientProtocol`, `AgentHooks` and `Configuration` (the hooks also `ConfigReload`), since
what an agent's event becomes depends on the settings file, on the configuration of that
moment and on the wire.

### How the model corresponds to the code

The scheduler is only ever used under a lock, so a method is one step of the model.
`sched` has one field for each field of `LiveScheduler` except:

- a Notification's UUID and its `sequence` are one number, the sequence: both are
  fresh at submission, the sequence orders Notifications of equal priority, and ids
  are only compared for equality;
- `revision` and `content_revision` are wrapping counters that others only compare
  with an earlier value; the model keeps whether the last method bumped them
  (`revised`, `contentRevised`);
- `closed` holds ids with their reason rather than whole Notifications;
- title, body, level, overrides and metadata are one value of `Texts`: the code
  compares them as a whole and never looks inside;
- a Source Context is present or absent, all that `begin_jump` asks.

`panicked` records that the `.expect` of `enforce_pending_limit` failed. The daemon's
locks are tokio mutexes, which are not poisoned and release on unwind, and the
profile unwinds: a panic ends the request and leaves the state it had reached, so
the model keeps that state and goes on.

The history variable `shownFor` measures, for each Notification, how long it was on
the plan with its present content; it is the yardstick for the timeout properties.

Every method first runs `PrepareTime` (`prepare_time`), as in the code. The error
`TimeWentBackwards` is not in `LiveScheduler`, where every caller reads its time and
calls in one step. It is in `DaemonRequests`, where a task reads its time first.

**`DaemonRequests`** uses the operators of `Scheduler` unchanged and adds who calls
them, when, and with which time. Each process has a program counter whose values are
the `.await`s of the code and the places between two locks:

| process | program counter | code |
|---|---|---|
| a client request | idle, waiting (for `request_order`), ready (has its time), persist, receipt (one turn per snapshot), answered | the handler of `run_inner`, `DaemonService::handle`, `persist_snapshots` |
| a jump of either | begun, switching (holds the backend), switched or refused | the two halves around `JumpExecutor` |
| a renderer's action | idle, received (has its time), ready (target checked), then as a request | `handle_renderer_action` |
| the reconcile loop | top, tick, enqueue; dead after a panic | `reconcile_loop`, `enqueue_all` |
| the cleanup | idle, ready, persist, receipt, flushing, flushed | the closure passed to `serve_with_renderers_and_force_shutdown` |

- A step under the scheduler's lock is one action: nothing inside it waits. The
  backend's lock is a variable because a jump and the loop's tick keep it across a
  call to tmux. `request_order` is a variable because a request keeps it to its end.
- The clock is read before the lock, except by the loop and the cleanup, which read it
  with the lock in hand. Renderer actions do not take `request_order`.
- `queue` is the channel of `History`, filled with `try_send` (`Room`), emptied by the
  worker thread (`Write`), which writes the row or gives up after its bounded retries.
  A snapshot is the content of a live Notification or its close; `rows` has the last
  one written. `lost` and `recorded` are history variables.
- A tick is what `WindowReconciler::tick` does to the scheduler: windows that are not
  there, windows that drew, or every window failed once too often (`AllFailed`).
- Shutdown: connections drain, or are aborted where they wait when the grace period is
  over (a request whose call to tmux runs goes on to its next wait); the cleanup closes
  what is live, persists, waits for the backend, flushes; then the daemon exits.
- `max_pending` suppresses as in `LiveScheduler`, for any limits: in `requests` a second
  Notification overflows the one pending place while no display is available. The `.expect` of
  `enforce_pending_limit` ends the task that meets it (`Send`) or the loop (`LoopDies`), with its
  locks free and nothing drained; `Panicked` says that it has failed. It needs pinned
  Notifications that wait in the queue, more than the limit allows, which the instances of the
  runs do not reach and the proofs do. A tick that takes other limits may cut `closed`
  (`Unrecorded`): what is cut off counts as `lost`.
- Left out: the time limit of the cleanup, the forced shutdown and the end of the daemon when
  `accept` fails (`RequestServer`), requests
  that only guard History (`HistoryCommands`), clients that name a target by id instead of by key
  (the same handlers).

**`SocketElection`** has one process per daemon and one per client. A client spawns at
most one daemon, so both have the client's name, and a socket file has the name of the
daemon that bound it: the listener keeps the inode alive until it is closed, so an inode
that is compared while its listener is open is no other file's.

| program counter of a daemon | code |
|---|---|
| bind, listen | `UnixListener::bind` in `OwnedSocket::bind` (the file exists before the socket listens) |
| chmod, identify | `finish_bind`, both by path |
| probe, validate, confirm, stat, compare, unlink | `recover_stale_socket`, in its order |
| rebind | the second `bind`, which ends with `AlreadyRunning` |
| serving, draining | `serve_inner`; draining is the shutdown with its cleanup |
| check, remove, close | `Drop` of `OwnedSocket` and then of its listener |

- A client's `start` is the first attempt of `submit_lazy`, `spawn` the start of a
  daemon, `retry` the loop of `retry_daemon_start`, `sent` and `run` a request on its
  connection, which fails when the daemon does or when no answer comes in time.
- A crash may come in every state and leaves the file. A daemon that meets an error exits
  and, before it has its `OwnedSocket`, leaves the file too.
- The permission check of `validate_runtime_socket` is a set of files that have been
  given mode 0600; the umask is taken not to give a new socket that mode by itself.
- `overlapped` and `disturbed` are history variables that say in which circumstances a
  property is claimed: two processes were starting at the same time, and a daemon had
  been stopped or killed.
- Left out: other users' files at the path and symbolic links, which the code refuses;
  `submit_existing`, which never spawns; the number of attempts and their delays.

**`TmuxDisplays`** and **`WindowReconciler`**. A *display* is a Notification in a window,
which is what the code's display id is made of; its *look* is its content, the display
policy it was made under and its place.

| model | code |
|---|---|
| `viewed` | the non-control clients' windows in a snapshot; a window's number is how many Toasts fit into it (`planned_toasts` with the window's size), so a resize changes the number and every place in the window |
| `drawn`, `dead` | `ProductionBackend::displays`, and those of them whose panes tmux no longer has |
| `heard` | what `next_event` will answer: `TopologyChanged`, of tmux or of the refresh interval, and `Disconnected` |
| `plan`, `text`, `closed`, `revised` | `display_plan`, the contents, `notification(id).is_none()`, and whether `content_revision` moved |
| `rec.seen`, `.target`, `.projected`, `.successful`, `.retries` | `topology`, `target_plan`, `projected_notifications`, `successful_windows`, the attempts in `retries` |
| `rec.motions`, `rec.exiting` | `AnimationRuntime` |
| `ripe` | `retry_at` and `next_reconnect_at` have passed, or the frames of the motions are used up |

- A tick is one step: it holds both locks. What tmux does meanwhile is a command that
  fails in the tick, or a change before or after it. `Tick` has one disjunct for each way
  it ends, in the order of the code; its middle (`Planned`) is a chain of records, one for
  each statement that edits the reconciler.
- `reconcile` is a set of outcomes (`Reached`): for each window everything is done, or the
  close of the obsolete displays failed, or one display failed and those behind it were not
  tried. A pane that is gone makes its own command fail without tmux failing (`struck`
  tells the two apart, as only tmux's failures are bounded). Toasts that leave are drawn
  after the planned ones, in any order.
- A display that slides in or out stands at `Outside` until its motion is over; the frames
  between are left out. Motions that are ripe end together. An exit is drawn outside once
  and taken away by the next tick, as in `finished_on_previous_tick`.
- Attempts count to `MaxAttempts`; beyond, the code's `u8` makes no difference.
- A connection that is lost within a window is modelled as a window that fails and a loss
  before the next one.
- The scheduler's order of Toasts is the stacking order `OldestFirst`; positions that a
  Notification overrides are not told apart.
- Left out: the pane that stays when the answer to a `split-window` is lost (the backend
  never learns its id, and no later step of the code could), the kill of a pane that could
  not be placed, `request_full_reconciliation` (called by tests), and errors of the
  scheduler's clock, which the loop cannot get as it reads the time under the lock.

**`HistoryStore`**. A handle is opened, open or closed; it has the bounded channel to its
worker, the number of attempts of the command at work, and the answer a reader waits for.

| action | code |
|---|---|
| opening, in three steps | `migrate`, then, of a daemon only, `recover_interrupted` and retention |
| `Busy`, the commit of a command, its failure | `retry_busy`: while another handle writes too, SQLite may refuse the lock, up to `SQLITE_BUSY_MAX_ATTEMPTS` times; a transaction that fails is rolled back and leaves no trace |
| an upsert | `persist_transaction`: insert or update, then `enforce_retention` of that handle's limit, in one transaction |
| a crash | of a daemon: what was in its queue is lost, the rows stay as they were |

- Ids count Notifications in the order of creation and so are their own `created_at`.
  The filter `before` is any cut of that order.
- `known` is what the daemons' memory says of their Notifications: the yardstick for the
  rows, not something the database sees.
- A server has one daemon at a time; section 4 and `SocketElection` say when it may not.
- Left out: the text output of a list, and `flush`, which changes nothing.

**`HistoryViewer`**. The event loop applies replies, draws and reads one key (`view.pc`);
the action thread takes one command after the other and answers (`bridge`), over two
bounded channels; the database is `HistoryStore`'s, which another process clears at the same
time. `drawn` is the row the user was shown as selected, `doubt` the ids whose edits did
not all succeed one by one, for which the list may differ from the database (section 4).
`launch` is how the viewer was started: the server it shows, and whether `--all` asks for hidden
rows too. `HiddenBefore` are the rows that are hidden when it opens, `earlier` those of them
of which no edit has succeeded since: with `--all` they are listed and hidden at the same time,
without it they are not loaded.
Help, details and the drawing itself change no other state; a filter is whether the rows
in `Matching` only are listed.

**`RequestServer`**. A frame is its place in the order of reads; its `pc` goes through the
task that `connection_loop` spawns for it.

| model | code |
|---|---|
| `conn[c].pc`, `.first` | `connection_loop`: reading (a batch of frames is what was read and not admitted yet), renderer, draining (joining its requests); `first_frame` |
| a frame's states | read (and waiting for the connection's and the daemon's permit), stripe (waiting for its lock of `idempotency_locks`), handler, replying; in the end replied, silent, lost or aborted |
| `cache` | `RequestResultCache`: entries with their time, and `order`, which is the set of pairs "used before" |
| `phase` | `serve_inner`: serving, stopping (the grace runs), late, cleanup, stopped, timed out, forced, failed (`accept` had an error) |

- A result is the request whose handler made it, so that a wrong answer is told from the
  right one. `memory` is a history variable: per ID, when its result was last used and
  which IDs were used since; from it follows what the cache *must* remember.
- A frame that has been decided keeps its end only. The parts of a frame that has not
  arrived in full are a buffer and left out. Peers read their answers.
- The response of a payload in `Large` does not fit; it is neither sent nor cached.
- `serve_inner` returns at once when it is forced, while it serves or later, and when `accept`
  fails, which sends no stop, waits for nothing and cleans nothing up: in each case the JoinSet
  is dropped and what runs is aborted (`AbortAll`). Signals are left out: they are another
  caller of the shutdown.
- The connection's permit and the daemon's are taken in one step. A frame that waits for
  the second while it holds the first could delay later frames of its own connection only.
- A handler that panics is not modelled: its frame would be undecided and its permits free.

**`RendererSessions`**. A process is its generation, which stands for its token: tokens are
random and never return.

| model | code |
|---|---|
| `sessions` | `RendererSessions`: displays with their generation and sender, credentials |
| `backend` | idle, or where `ProductionBackend` waits for tmux while it makes a pane: creating, then breaking it out into a floating one |
| `actual` | `ProductionBackend::displays`, what the backend believes to be shown |
| `child[g]` | a process (asked for, up, gone or never made), the task of its connection and its channel, what is on the way to it (`wire`) and from it (`frames`), and what it draws |

- Reconciliation is one display at a time: create, update through the session, or close. An
  update of a display without a session, or whose channel is full, fails and is tried again; a
  display whose process is gone is forgotten by the next look at the topology.
- A process that exits, or whose pane is killed, closes its connection; tmux may carry out a
  command and lose its answer. `Prune` is the backend's look at what panes there are.
- Left out: the list of retired tokens, which only words a refusal that nobody is told;
  geometry (`WindowReconciler`); the shutdown of a connection (`RequestServer`).

**`Configuration`** and **`ConfigReload`**. One field stands for all of a kind: two bounded
numbers, one timeout, the switches the environment turns off, the hooks. A fingerprint is
a number that each replacement of the file changes. `new`, `reload_if_changed` of the loop
and `reload_now` of a client are steps that the user's replacements come between: load,
look, publish. A file that is there may be unreadable for once, with the same fingerprint as
before and after. `raced` and `missed` record the cases in which the daemon's settings may
differ from the file for good (section 4).

**`AgentHooks`** and **`HookCommands`**. A settings file is missing, broken (not JSON, too
long, a link), or a document: groups of handlers per event, each of this executable (`Own`),
of another tmnotify (`Old`) or foreign; a document with a shape that `add_handler` refuses
is odd. A command reads, backs up and replaces one file after the other, in separate steps, and
stops at the first error; agents and users edit in between. `firing` are the handlers an
agent has started; each loads the configuration itself and submits a draft (`told`).

**`ClientProtocol`**, **`HistoryCommands`**, **`ClientCommands`**. What was typed becomes a
draft or an update, is written as a request and read and validated again; `asked` is the last
command with what the daemon is asked to do. A text is one of the kinds that
`normalize_bounded` tells apart; `null` on the wire is read as an absent field, whatever was
written. A viewer that has a server, floating or in the terminal, asks the daemon before it opens
(`OpenAllowed`), and an active Attention refuses. These modules have few states and many inputs:
they are pure functions, run over every combination that the sets of `MCClientCommands` name.

Definitions marked *Fault* are the slips used to test the properties: none is used
by the model.

## 3. Runs

| run | question | instance |
|---|---|---|
| `queue` | do Notifications of two Presentations and priorities, with keyed replacement, updates and a jump, stay indexed, ordered and recorded, and go through their lifecycle once? | 4 submissions, 2 pending places, 1 Toast place, 1 key, 1 jump, no clock |
| `timers` | does a timeout measure shown time under pauses, restarts, two overlapping jumps and reloads, and is no place left idle? | 2 submissions, timeouts 1 and 2, clock to 2, 2 jumps, limits that change |
| `requests` | what does History end up with for each Notification, and which pins are lost, in every order of requests, ticks, worker and shutdown? | 2 clients (symmetric), 1 renderer, 1 key, 2 contents, 1 pending place, 1 Toast place, clock to 1, queue of 2 |
| `requests_end` | are requests and a renderer's action answered, does a shutdown end, and do reloaded limits reach the scheduler, while jumps hold the backend? | 1 client, 1 renderer, 1 pending place, 1 or 2 Toast places, 1 reload, a queue of 1, no clock |
| `jump_lost` | violation: a jump whose switch took a tick of the loop is not committed | 1 client, 1 key, clock to 1 |
| `election` | who owns the socket, who removes it, how often does a request run, and is every client answered, in every order of starters, crashes and shutdowns? | 2 clients, each with a daemon |
| `windows` | which displays may a tick take away, animate or give up, when do timeouts run, and do the displays become what the plan asks for? | 2 windows, 2 Notifications, room for 0 or 2 Toasts, 2 attempts, 1 change, 1 failure |
| `history` | what is in the table after busy locks, failed transactions, lost snapshots, a crash and its recovery, retention, hiding and clearing? | 2 daemons on 2 servers and 1 reader, limits 2 and 1, 2 ids, queues of 2, 1 attempt, 1 crash, 1 question |
| `viewer` | do the list, the selection and the database agree again after edits that fail or meet full channels, and is every edit decided? | 2 readers, 2 rows of 2 servers, one of them hidden before, with `--all` and without, channels of 1, 2 attempts, 4 keys |
| `server` | does no retry run twice while its result must be known, is accepted work completed, and is everything decided? | 2 connections, 2 IDs with one stripe, small and large payloads, 2 permits, 1 of them per connection, a cache of 1, lifetime 1, clock to 1, 3 frames |
| `renderers` | which credentials are good, which sessions and processes are left behind, and is what the backend believes drawn in the end? | 2 displays, 3 contents, 1 session, a channel of 1, 2 processes, 3 changes or keys |
| `settings` | does the daemon follow its file, are hook commands exact, are events told and command lines done as typed? | 4 events, 4 file contents, 2 environments, 2 hook commands at a time |

**What the properties of several parts say.**

| property | parts |
|---|---|
| `IndexesExact` | `LiveIsScheduled`: a live id is in exactly one of `pending`, `active_toasts`, `active_attention`; `KeyIndexExact` |
| `RanksDecide` | `PromotedIsBest`: nobody who stayed pending came before who was promoted, except to a place that a timeout freed before the method deferred or made somebody else; `SuppressedIsWorst` |
| `TimeoutsAreExact` | `TimerRunsWhileShown`, `TimeoutCountsShownTime`, `NeverTimesOutEarly` |
| `PlacesAreKept` | `NoIdlePlace`, `VisibleToastKeepsPlace` |
| `HistoryIsTold` | `CloseReachesHistory`, `RowIsCurrent`, `StoppedIsRecorded`: until it is stored or lost, somebody carries each close, a suppression's too |
| `AllEnds` | `RequestsEnd`, `ShutdownEnds` |
| `FailuresAreLocal` | `DisplaysPersist`: a failure takes no display away that stays on the plan; `GivesUpOnlyUnshown`: nothing is given up while a window shows just what it should, with no dead pane and nothing that slides out; `RunsSeen`: time runs only for what is drawn, but for what a jump found gone |
| `LiveRowsAreTrue` | `RowIsCurrent`; `NoStaleLive`: no row stays live whose daemon is gone and has been followed by another |
| `RetentionIsFair`, `RecordsStand` | `RoomIsMade`, `RetentionOrder`; `HiddenStaysHidden`, `ClosedIsFinal` |
| `ListIsTrue`, `KeysMeanWhatIsSeen` | `ListedOrHidden`, `ViewAgrees`; `KeyMeansDrawnRow`, `ForeignJumpIsConfirmed` |
| `WorkEnds` | `FramesAreDecided`, `ServerStops` |
| `SessionsAreExact` | `CredentialsArePending`: exactly the sessions nobody has redeemed have a good credential; `SessionsAreDisplays` |
| `StreamsAreTrue`, `DisplaysSettle` | `BelievedIsSent`, `RightPresentation`; `BelievedIsDrawn`, `LeftoversEnd` |
| `SettingsAreCurrent`, `EventsAreTold` | `SettingsFollowFile`, `ShownIsSame`; `StatusIsTrue`, `KeysAgree` |

A module's type invariant is a part of one of its properties.

**Why the bounds are enough.** Queue properties compare two Notifications and a
place: four submissions over two pending places and one Toast place reach a full
queue, an overflow, a replacement of each Presentation and a promotion behind an
Attention. The clock is 0 in `queue`, where no property depends on time. Timer properties
need a start, a stop and a second start; two jumps let an old intent meet a new pin, and
the limits raise one bound while they lower the other.

The daemon's properties relate a snapshot that one process holds, another that
overtakes it and the row, so two requests with the loop and a renderer reach
every overtaking; a queue of one or two places is full after the first close that comes
with an update. One tick of the clock is enough to make a time stale and a Toast expire.

In the election two daemons at work are one that stays and one that comes. That two
clients are not too few is what the proofs of section 5 are for, which hold for any number;
the race of section 4 needs three. Liveness is checked without symmetry.

In the reconciler the cases that matter need two windows (one that fails and one that
does not), two Notifications (one that moves when the other leaves, a Toast and an
Attention) and a budget of two attempts, the least with which an attempt can fail and be
repeated. Changes and failures are bounded because liveness is about what happens after the
last of them; events and timers are not bounded. Two failures, and two changes with one
Notification (1.4 million states), pass as well but take longer than a run should.

In `history` a retention decides between two rows, which the limit of one daemon has room
for and the other's has not; recovery needs a daemon that crashes and its successor; with one
attempt a busy lock fails the command, and the backing off before is `viewer`'s, with two. In `viewer` four keys are an edit,
its undo, a move and another edit; channels of one are full after the first; the second
reader clears rows under the viewer; one row was hidden before, so that with `--all` there is one
of each kind. In `server` a cache of one place forgets at the second
ID, a lifetime of one tick ends in a run, both IDs share a lock, and three frames are a
request, its retry and the request that drives it out; an instance with a cache of two, three
IDs and five frames on one connection passes too. In `renderers` two displays compete for one
session, one of them changes its Presentation, and a second process replaces the first. In
`settings` four events are two replacements of a file between the steps of two commands; the
files of `MCClientCommands` name every kind of field that is valid, out of range, or broken.

Deadlock is checked in `queue` and `timers`, where some method can always be called, in the
daemon's runs, `election` and `windows`: a daemon or an election that has ended stutters by an
action of its own (`Stopped`, `Over`). The other
runs end where their bounds stop the users, or when everything is over: there it is unchecked,
and what must not stop is stated as a liveness property.

**Liveness.** The scheduler is passive, it moves only when called, so the runs of
`LiveScheduler` assume no fairness. `FairSpec` of `DaemonRequests` assumes that tokio
polls every task that can run, that its mutexes serve their waiters in order (strong
fairness where a lock is waited for), that a call to tmux returns (its two-second
timeout) and that the History worker, a thread of its own, keeps taking commands.
Nothing makes requests, keys, reloads, signals or the clock come. Where an action needs
nothing but to be scheduled, its weak fairness is written as `Leaves(p, pc)`: the
process does not stay at that program counter. This says the same and spares TLC the
successors of the scheduler's operators, and `LoopTicks` is the same for the loop.

`FairSpec` of `SocketElection` assumes that the processes that start are scheduled, that a
client tries again and that a serving daemon accepts and answers. It does not assume that
a daemon stops, dies or that a client's patience ends.

`FairSpec` of `ReconcileLoop` assumes that the loop ticks again and again, as it sleeps
for at most `MAX_IDLE_TICK`; that time passes for what waits for it; and that events come,
as `next_event` makes one up whenever the refresh interval has passed. `beat` is there to
say that a tick happened even when it changed nothing. That tmux stops failing is not
fairness but the bound on failures. The refresh is what convergence needs: without events
a failed close after the last attempt, or a pane that died silently, would stay
(the *Fault* `ListenedForRetries`).

`FairViewer` assumes that the event loop, the action thread and its worker run; it does not
assume that SQLite grants a lock: a busy database fails after its bounded attempts.

`FairSpec` of `RequestServer` says of each connection and each request that it is not able
to go on for ever without doing so (`CanServe`, `CanGoOn`: their `ENABLED`, written out).
A handler is assumed to end only while the daemon serves, as every wait in it has a timeout;
once it stops, only the grace ends it. Permits and locks are not assumed to be fair: the
requests are bounded, so nobody is overtaken for ever.

`FairSpec` of `RendererSessions` assumes that the reconcile loop goes on with what it has to
do (`Reconcile`, `Prune`), and that tmux, the connections and the processes run. Nothing makes
a process die, a credential expire or a user press a key.

## 4. Findings

`findings` in `PROJECT.json` has the run that expects a counterexample:

- `jump_lost` — `commit_jump` and `cancel_jump` get the time that was read before the
  jump began. The loop ticks every 50 ms or faster, and a jump that has to wait for the
  backend or whose second half is polled after the next tick carries an older time: the
  client has switched, the Notification stays live, pinned for good, its timer stopped.

Two more disagreements of code and text were met on the way and are written into
properties as their one exception each:

- *A timeout of `never` is lost in an update.* `WireNotificationUpdate.timeout_ms` is
  `Option<Option<u64>>` and its comment says that "`Some(None)` selects Never"
  (`src/protocol.rs:316-317`). serde writes `Some(None)` as `null` and reads `null` as
  `None`: `tmnotify update --key KEY --timeout never` changes nothing, and is refused as
  `EmptyUpdate` if it names nothing else. `CommandsArriveAsTyped` holds with this exception
  and not without it.
- *Two daemons may serve one tmux server.* `recover_stale_socket` removes the file by path
  after its last look at it (`src/daemon/runtime.rs:348`), against "Concurrent starters race
  on bind; exactly one succeeds" (`tmnotify-design.md:401`). Somebody else's live socket may be there by then. It takes a
  socket that was left behind, two starters, and a third step between two system calls.
  `TwoOwnersNeedARace` is the exact claim that remains, and is proved.

Observations, because no sentence of the repository says otherwise or because they are
narrower cases of the same cause.

*Scheduler, daemon and reconciler*

- an update, or a keyed replacement, restarts the timeout with `toast_timer_should_run`
  (`mod.rs:391`), which does not look at the jump nonce: an update while a jump is under way
  starts the timer that `begin_jump` stopped, though the test
  `jump_intent_pins_timeout_until_switch_result` (`mod.rs:1196`) speaks of a pinned timeout.
  `TimerRunsWhileShown` and `TimeoutCountsShownTime` are stated with this in mind;
- the `.expect` of `enforce_pending_limit` (`mod.rs:816`) speaks of "a newly submitted
  pending Notification", but `update_limits` (`mod.rs:501`) calls it too: after a reload that
  lowers `max_pending` below the number of pinned pending Notifications it fails. The model
  reaches this (`panicked`) and goes on from the state the panic leaves. In the daemon it ends the
  reconcile loop, and nothing restarts it; a submission that finds the queue full of pinned
  Notifications meets the same panic. What was about to be recorded then is not, so `HistoryIsTold`
  says nothing after it (`Panicked`);
- a keyed replacement that changes the Presentation of a shown Notification puts it back
  into `pending` without `enforce_pending_limit`, so `pending` may exceed its limit by
  one until the next submission (`Replace`);
- `update_limits` suppresses with the new, smaller capacity of `closed`, so a reload that
  suppresses more than that many Notifications loses the record of some (`UpdateLimits`), and
  History never hears of them: `DaemonRequests` counts them as `lost`;
- `request_order` keeps requests in the order of their times, but the loop and renderers
  are not under it: a request may be refused because the loop had a later time;
- the snapshot of a send is queued after the lock is released; the loop may close the
  Notification and queue its record first. The row is then live until the daemon's next
  start. `RowIsCurrent` says when a row is right in spite of this;
- the shutdown's flush is a `try_send`: with a full queue it is refused, the refusal is
  ignored, and the process exits before the worker has written;
- a window counts as successful once something was drawn in it, and `apply_report` does not
  take it back when a later attempt closed the obsolete displays and then failed
  (`reconcile.rs:737`): until the window is drawn again the timeouts of Toasts run though
  nothing is visible, against "pauses a Toast timeout when no window display is visible"
  (`docs/adr/0002-broadcast-notifications-to-visible-windows.md:3`). The same holds when a pane died and cannot be
  drawn again, and as that window stays successful, `RenderFailed` is never concluded.
  `RunsSeen` therefore asks for a tick that leaves nothing to retry;
- Toasts beyond the room of every viewed window are on the plan, so they time out unseen;
- `target_plan` is not touched while nothing is viewed or the connection is lost, nor by
  giving up: the exit animation of what closed meanwhile opens a pane again to slide it out;
- a window that failed and is no longer viewed keeps its entry in `retries` until the next
  event, and while its time has come every tick calls `reconcile`;
- every event clears `retries`, the refresh's and those that the reconciler's own commands
  cause too, so `MAX_RENDER_ATTEMPTS` bounds the attempts between two events only;
- giving up closes all that is on the plan, also a Toast that was drawn in a window in which
  another one failed. `GivesUpOnlyUnshown` asks for a whole window;
- a Toast that closed and slides out counts among its window's displays. When its exit
  cannot be drawn, in a window that was never drawn without a failure, the window's attempts
  run out and what it shows is given up with it (`reconcile.rs:489`). So a whole window is one in
  which nothing slides out;
- a jump takes dead panes off the list of what is drawn, which no event need follow. An idle tick
  then keeps `available` though nothing is drawn, until something changes. That is what
  `Overlooks` admits in `RunsSeen`;
- a Toast may be marked Visible, in the same method in which an Attention takes the
  screen;
- a daemon that dies between `bind` and `set_permissions` leaves a socket whose mode
  `recover_stale_socket` refuses (`runtime.rs:286`): no daemon starts until somebody
  removes it;
- `ControlReconnectState` (`runtime.rs:213`) is used by a test only.

*Server and renderers*

- a frame that redeems but is not the first of its connection, or a shutdown that comes
  while a frame waits for a permit, ends the connection without joining its requests, which
  are aborted; the comment at `runtime.rs:691` says that accepted work is completed.
  `AcceptedIsCompleted` names the two cases;
- an error of `accept` (too many open files, say) ends the daemon at once (`runtime.rs:509`): no
  stop signal, no grace and no cleanup; accepted requests are aborted. `AcceptedIsCompleted` names
  this case too;
- a peer that does not read its answers holds its permits;
- complete frames that were read together with one that is too long are lost;
- an error of reading the answer maps to `RuntimeError::Connect`;
- a request whose response is too large has run, is not answered and not remembered, so its
  retry runs again;
- `renderer_exited` is called by tests only: a session ends with its pane. A display whose
  update met `RendererDisconnected` takes later updates without a sender, and only the end of
  its pane repairs it; an expired credential leaves a registered display without a session
  until its process ends.

*History*

- a cleared row of a live Notification is inserted again by its daemon;
- retention may delete the row that was just answered for;
- the rows that `clear` deletes need not be those that were counted for the confirmation
  (`app.rs:592`);
- `parse_age` takes `0d` although its error says that an age is positive;
- a `flush` is answered well when an earlier write of its queue failed;
- in the viewer a Hide that meets a full queue is not rolled back; one that fails after its
  Undo, or a quit right after it, may leave the list and the database apart; keys act while the
  terminal is "too small";
- `history --all` lists rows that are hidden, and nothing in the list tells them from others: a
  Hide of such a row changes nothing in the database, and its Undo shows a row that had been hidden
  before the session. `ViewAgrees` follows those rows in `earlier`;
- `run_interactive_history` does not look at `--all-servers`
  (`tmnotify-design.md:556-560`).

*Configuration, hooks and commands*

- a file that is replaced between load and fingerprint in `ConfigManager::new` is not noticed
  until its next change; a file that appears after a look that found none, and is removed after
  it was loaded, is never unloaded; a file that could not be read when its new fingerprint was seen
  is not tried again, also when a change of permissions makes it readable (`config.rs:588-604`);
  overlapping reloads may publish the older settings last
  (`application.rs:478`). `SettingsFollowFile` names these cases (`missed`, `raced`);
- changes of `history` and of `hooks` reach no running daemon;
- an invalid configuration file loses every event of the agents, without a word
  (`app.rs:752-767`), while the daemon keeps the last good one;
- a settings file is read, changed and replaced without a lock or a comparison: the edit of
  somebody else after the read is undone, and of two commands one may leave the other's
  backup;
- a status counts: a doubled handler and a missing one are "in sync"; `sync` with a policy that
  wants nothing removes the handlers, and later ones pass over that scope (`CONTEXT.md:60`); it
  stops at the first error with the scopes before it changed; one unreadable settings file
  fails `hook status` and `doctor` as a whole;
- `decode_single_quoted_word` slices out of range on a lone quote;
- Toasts of agents take the three seconds of `NotificationDraft::new` and not
  `toast.timeout`; an Attention of an agent outside of tmux is refused and lost.

*tmux control client* (not modelled): a batch registers a ticket per command
(`production.rs:626-650`). Were tmux not to answer the commands after one that failed, the wait
would run into `COMMAND_TIMEOUT` and the connection would be lost.

## 5. Proofs

`LiveSchedulerProofs` proves, for every value of the constants that satisfies
`SchedulerConstants` and `CallerConstants`:

| theorem | property |
|---|---|
| `TypeCorrect` | `TypeOK` |
| `LifecycleExact`, `KeyIndexCorrect` | `LiveIsScheduled`: live ids are exactly those in `pending`, `active_toasts` or `active_attention`, each in one of them; `KeyIndexExact` |
| `IndexesStayExact` | `IndexesExact`, both |
| `PinsAreHeld` | `PinHasHolder` |
| `QueuesStayInOrder` | `QueuesInOrder`: no more Toasts are active than the limits allow, and `pending` is in the order it is served in |
| `PlacesStayKept` | `PlacesAreKept`: no place is empty while a Notification waits for it, and a Toast keeps its place and its order |
| `RanksAlwaysDecide` | `RanksDecide`: who is promoted outranks who is left behind, who is suppressed is outranked by who stays |
| `RevisionsFollow` | `RevisionFollowsPlan`: what a client or the reconcile loop must redraw has a new revision |
| `CloseRecordsStay` | `CloseRecordKept`: the bound of `closed` loses none of the records of one method |
| `TimeoutsStayExact` | `TimeoutsAreExact`: a timeout counts the time shown, all of it and nothing else |

**The argument.** `Sound(s)` (in `SchedulerTheorems`) is the inductive invariant of
the scheduler: `IsState`, `Scheduled`, `KeysIndexed`, that the queues are lines
(`IsLine`), and that all ids are below `nextSequence` and all nonces below
`nextNonce`. The lines are needed because the operators on lines only keep members
when places are injective; the bounds because an `Insert` must not hit a live id and
a `BeginJump` must not reuse a nonce an older intent holds. `SchedulerTheorems` says what
each operation on a line returns and that the helpers (`CloseInner`, `Promote`, `Present`,
`EnforcePendingLimit`, `Insert`, `Replace`) and then each public method keep `Sound`. The invariant of the whole
specification, `IInv`, adds the types of the intents and of the history and
`PinHasHolder` itself, which is inductive once nonces are known to be fresh.

`Tidy(s)` is a second invariant beside it: `pending` is sorted and the Toasts are within
`VisibleCapacity`. A promotion and a replacement keep the order of those that stay
(`PlaceBefore`), the operations that change a rank sort afterwards, and a bump of the versions
keeps all ranks; a place is filled only while one is free, and only new limits can leave too
many active, which `rebalance` defers before the method returns.

The properties of steps need to know what a method does, not only what it keeps. A proof
for each property and each of the methods would be one per pair, so the last part of
`SchedulerTheorems` brings them all into one shape (`Reached`): `prepare_time`, which closes
what is overdue (`ClearedFrom`) and gives its places away (`Arranged`); then what the method
is for (`Edit`: what it may do to timers, places and records); and then either `rebalance` and
`enforce_pending_limit` (`Rebalanced`) or nothing that moves anyone (`Still`). `CallReaches`
shows that every call has it, or is `Quiet`, such as the drain. Each property is then proved
once, from the shape. Two more invariants are needed for that:

- `Orderly` adds `Tidy` and `Placed` to `IInv`. `Placed` is that no place is idle. It has
  to hold when a method begins, or `Edit` followed by `Still` could not end in it; and the order
  of `pending` must be that of ranks, since `rebalance` takes the first and
  `enforce_pending_limit` the last unpinned one.
- `Timely` adds which timers run (`Runs`), that none is past its timeout when a method
  returns (`Measured`), and `TimeoutCountsShownTime` itself. `Measured` is why the time a
  method brings counts in full and once: whatever would be past its timeout is closed in
  `prepare_time`, before the clock of the method is used for anything else, and
  `set_running` keeps what is left.

That proof also found a property that was stated too strongly: a place that a timeout frees
is given away before the call's own update or replacement has changed a rank, so the one that
gets it need not be the best by the ranks the call leaves. `PromotedIsBest` says so now.

`LiveSchedulerProofs` also proves that the scheduler implements the abstract specification:

| theorem | property |
|---|---|
| `LifecycleImplemented` | `ImplementsLifecycle`: `Spec` of `Lifecycle` with the stage of each id, which TLC checks in `queue` |

**The argument.** `Lifecycle` lets any set of Notifications move onwards in one step:
a method may expire some, promote others and insert one. So the work is to show, of every helper,
that nobody goes backwards (`Onward`): what is visible does not become pending, what is
closed does not come back. Every method but the drain begins with `prepare_time`, whose
`rebalance` marks what it shows, so a promotion in the end of a method is a move from pending
to visible; `EnforcePendingLimit` closes only what is pending; a shutdown closes all.

`ClientProofs` proves of `SocketElection`, for any set of clients (`NobodyIsNoClient`: the mark
for no file is no client):

| theorem | property |
|---|---|
| `TypeCorrect`, `OwnersNeedARace` | `TypeOK`, `TwoOwnersNeedARace` |
| `ElectionStaysSound` | `ElectionIsSound`, both |
| `RequestsRunOnce` | `RunsOnce` |
| `NoOthersSocketRemoved` | `RemovesNoOthersSocket` |

**The argument.** The core is `HolderIsAtPath`: a process that holds a socket finds it at
the path, unless starters raced and a daemon ended. Two owners would both be at the path.
It is inductive for two different reasons, one per circumstance that is missing.
`FirstStays`: when no daemon was stopped or killed, the first socket that is bound stays,
its file has mode 0600 only once it listens, and so every other starter ends at one of
the two connects or at the check of the mode; none gets to `unlink`. `AloneNobodyHolds`:
when no two processes were starting at once, a starter that found nobody at its last
connect is the only one that could bind, so nobody holds the socket that it removes. Both
use `HoldersListen` (what is bound and past `listen` answers a connect) and
`NotSpawned` (a daemon is spawned once). TLC has checked `IInv` as an invariant of the
instance of `election`.

The same module proves of `ClientCommands`, which composes all the settings, for any files,
environments, command lines, places, requests, events and edits that satisfy `ConfigConstants`,
`CommandConstants` and `HookConstants`:

| theorem | property |
|---|---|
| `SettingsStayCurrent` | `SettingsAreCurrent`: types, `SettingsFollowFile`, `ShownIsSame` |
| `CommandsAreDone` | `CommandsArriveAsTyped` |
| `EventsStayTold` | `EventsAreTold`: types, `StatusIsTrue`, `KeysAgree` |
| `CommandsStayExact` | `CommandsAreExact` |

The assumptions say that what is typed has passed clap (`TypedLines`, `TypedBrowsings`), that a
file that can be parsed has the fields of `Config` (`Texts`), that hook commands name places that
exist, and that the marks (`None`, `Error`, `Missing`, `Broken`, `Never`) are none of the data.

**The argument.** For the configuration, `SettingsFollowFile` speaks of the moments when nothing is
under way, so `ConfigInv` says what holds in between. `SeenIsLoaded`: whoever may take the lock finds
that what was observed was loaded, if it could be loaded; an absent file is observed as `None`,
which no file that comes later has, so that case is of its own. `LoadedIsPublished`: the settings
of the active configuration are published, or exactly one task is about to publish them.
`ReloadsAreOrdered`: one task has the lock, and what was observed is not newer than the file. A
reload that changes nothing for the daemon publishes nothing; it then has to be shown that the
settings are the same, which is `SettingsUnchanged`: all that `SettingsOf` takes is compared by
`ChangesDaemon`. `ShownIsSame` is an identity through four conversions (`Parsed`, `Printed`,
`Overridden`, `Valid`), of which the one of durations (`DurationsRoundTrip`) is not obvious: it
prints in the largest unit that divides.

`CommandsArriveAsTyped` has no state to speak of: it is about every command line at once. Each
conversion has a lemma that says what it keeps of a draft, an update, a selector or a filter
(`DraftsArrive`, `SelectorsArrive`, `FiltersArrive`), and each command one that combines them
(`SendArrives`, `UpdateArrives`, `OthersArrive`, `HistoryArrives`, `JumpsArrive`). TLC runs these
functions over the combinations that `MCClientCommands` names; the theorem has every number in a
timeout or an age, every server and every configuration.

For the hooks, `HookInv` says what a settings file is (finitely many event names, each with a
sequence of groups, `IsSettings`), that a command which is about to write has rendered what it
writes from what it read (`IsCommand`), and of which event each submitted draft is (`IsOfEvent`).
`ReconciledIsExact` is the core: `reconcile_value` takes all owned handlers out and puts one in
for each event that is asked for. What others have is kept because a `retain` keeps
the order of what stays (`RetainedIsSeq`, `WithoutOwnedIsClean`); of the own handlers there are
exactly as many as events because a handler goes into a clean sequence of groups
(`OneHandlerIsAdded`). `StatusIsTrue` needs a counting argument: the status compares
the number of own handlers with the number of events and looks whether each is right, so that "in
sync" means one handler for each event only if none of them is doubled; a finite set
that maps onto another of its size does so one to one. `KeysAgree` is that the tables of both
agents give each purpose one look (`PartsAreTyped`). TLC has checked `ConfigInv` and `HookInv` as
invariants of the instance of `settings`.

Filters are written as a function over the places that stay (`Retained`), and not with the
library's `SelectSeq`: that one is recursive, and the provers have no theory of it.

`RequestServerProofs` proves, for any connections, IDs, payloads, sharing of locks and sizes
that satisfy `ServerConstants`:

| theorem | property |
|---|---|
| `AnswersStayOwn` | `AnswersAreOwn`: types and limits, and every answer is the result of the request's own ID and payload |
| `RetriesNeverRunTwice` | `RetriesRunOnce`: no handler runs for an ID while another does, nor while its result must be remembered |
| `AcceptedIsNotLost` | `AcceptedIsCompleted`: what runs is aborted only by the end of the grace, by force, by an error of `accept`, or with a connection that has read more |

**The argument.** The inductive invariant has the types, the limits (`PermitsOk`: what runs
holds permits, and two handlers do not share a lock), what results are (`ResultsOk`), and two
facts about the cache. `Known`: the time of an entry and the IDs used after it are those that
`memory` has. `Holds`: what must be remembered is in the cache. An eviction drops only an
entry that nothing precedes, so all the others, at least `CacheCapacity`, were used since; an
expiry drops only what is old together with all that precedes it. That an entry which nothing
precedes exists needs that a finite order has a first member (`FirstOfOrder`). Induction is
out of the prover's reach, so this is a pigeonhole argument: the number of predecessors would
map the IDs injectively into too few numbers. It is also why `order` is kept as pairs and
not as the code's queue. `AcceptedIsNotLost` needs one more invariant, `FirstComesAlone`: a
connection whose first frame is still to come runs no request. A renderer's connection began
with that frame, so its end, which closes everything at once, aborts none.

`WindowReconcilerProofs` proves, for any windows, contents, policies and bounds and any
finite set of Notifications (`DisplayConstants`, `ReconcilerConstants`):

| theorem | property |
|---|---|
| `TimeoutsPause` | `PausedWhileDisconnected` |
| `NothingEntersTwice` | `EnterOnlyWhenNew` |
| `FailuresStayLocal` | `FailuresAreLocal`: `DisplaysPersist`, `GivesUpOnlyUnshown`, `RunsSeen`, types |

**The argument.** The core is `DrawnIsKnown`: what is drawn in a window is in
`projected_notifications` or was closed. It is inductive because a reconcile, however far
it gets (`ReachedShows`), adds only what the target holds, which is part of the plan and
has just been projected (`PlannedKeeps`), or what slides out, which is closed
(`ExitingIsClosed`); and because closed Notifications never come back to the plan
(`PlanIsLive`), so that forgetting them is harmless. A Toast slides in only if it is on the
plan and was not projected: then it is drawn nowhere.

`FailuresStayLocal` needs to know how things look, so it has an invariant of its own,
`LookInv`. Its base is `Approached`: however far a reconcile gets in a window, with whatever failures,
dead panes and lost answers, a display keeps its place or gets the wanted one, and goes only when it
is unwanted or must change its kind (`ReachedApproached`, `OutcomesApproached`). With that and
the plan, `DisplaysPersist` follows. A window that shows just what it should cannot fail
(`ShownSucceeds`), and a window that did not fail keeps no attempts, so that `Exhausted` is false:
but only if what it should show is its target, and a Toast that slides in should be drawn outside.
`OutsideYet` excludes that: until it is in, it was drawn outside only, so its window does not
show just what it should. For `RunsSeen`, a window becomes successful by what was drawn in it; an idle
tick changes neither. The attempt found two parts that were stated too strongly, and that held
in `windows` by its small bounds only; both are among the notes of section 4.

`HistoryProofs` proves of `HistoryStore`, for any daemons, readers, servers, limits and bounds that
satisfy `HistoryConstants` (one daemon per tmux server, which may crash and start again):

| theorem | property |
|---|---|
| `LiveRowsStayTrue` | `LiveRowsAreTrue`: types, `RowIsCurrent`, `NoStaleLive` |
| `RetentionStaysFair` | `RetentionIsFair`: `RoomIsMade`, `RetentionOrder` |
| `RecordsStandProved` | `RecordsStand`: `HiddenStaysHidden`, `ClosedIsFinal` |

**The argument.** States have a `Rank` (pending, visible, closed), and a Notification only
goes up. The snapshots of one Notification that wait in its daemon's queue are strictly
increasing (`QueueOk`), and its row is strictly behind each of them (`RowOk`): so a closed
row has none waiting, and no upsert brings one back. That a row is current once nothing
waits needs `LatestWaits`: unless one was lost, some snapshot that waits says what the daemon
knows, and the order makes it the last. `interrupted` is outside of the ranks: a daemon
recovers before it serves, with an empty queue, and only rows of a life that is over become
interrupted. Steps that touch neither a daemon's queue nor what it knows share one
lemma (`EditedStep`). For retention (`RetainedOk`) the order of deletion is total, so the number
of rows that must go after a row numbers the rows without gaps, and exactly as many as the limit
stay when any goes. TLC has checked `IInv` as an invariant of the instance of `history`.

The same module proves of `HistoryViewer`, for any rows, readers, keys, channels, attempts and
failures that satisfy `ViewerConstants` (the viewer's handle is a reader; daemons may be there,
and they do nothing):

| theorem | property |
|---|---|
| `ListStaysTrue` | `ListIsTrue`: types, `ListedOrHidden`, `ViewAgrees` |
| `KeysDoWhatIsSeen` | `KeysMeanWhatIsSeen`: `KeyMeansDrawnRow`, `ForeignJumpIsConfirmed` |

**The argument.** `ViewAgrees` speaks of an idle viewer only, so what is inductive must say what
will become of a row while edits of it wait, run or have been answered. `Line` puts the three
places where a command can be into one sequence: the replies, the command at work, the commands;
each entry is decided ("ok" or "failed") or still to do. Taking a command, answering it and
replying only decide the first entry that is to do or leave the line alone; a key appends to it,
and `apply_worker_replies` takes its first entry. `Predicted` says of a row that is not in doubt:
the last edit in the line is what the list shows (`LastIsSeen`), Hide and Undo take turns
(`Alternate`), the next one to be done changes the row (`NextTurnsRow`), and when none is left to
do the row and the list agree, unless an edit failed (`DoneAgrees`), which its reply will roll
back. It need not hold once an edit failed with another behind it (`Doomed`), and then the
reply of the failed one finds another edit under way and puts the row in doubt. With an empty line
`Predicted` is `ViewAgrees`. `Loading` is needed because the answer to the load replaces the list:
it is the first command, and no key has anything to act on before it. `Fresh` says that what it
lists has no row that was hidden in this session, also while its answer waits: only the viewer
hides. Rows that were hidden before are kept apart by `earlier` (`EarlierOk`): `RowOp` takes such a
row for one that is not hidden until an edit of it succeeds, and a Hide of it only takes it out of
`earlier`.
`ListedOrHidden` needs that the ids in `hidden` differ, so that the roll-back of a Hide, which
removes the first, removes the only one (`FewerHidden`), and that `Append`, `Front` and the
roll-backs keep it so. For the keys the invariant has that what was drawn is what is chosen as
long as the loop waits for a key: a key is followed by the replies and a drawing. TLC has checked
`VInv` as an invariant of the instance of `viewer`.

`RendererSessionsProofs` proves, for any displays, contents, channel and session limits and
any number of processes that satisfy `RendererConstants`:

| theorem | property |
|---|---|
| `SessionsStayExact` | `SessionsAreExact`: types and limits, `CredentialsArePending`, `SessionsAreDisplays` |
| `StreamsStayTrue` | `StreamsAreTrue`: `BelievedIsSent`, `RightPresentation` |

**The argument.** `Believed(d)` is the process and the content the backend has for a display,
also while it is making it. The core is `SessionOk`: a session is of the process that is
believed in; a session that waits keeps what is believed for the redemption; one with a
sender, whose process listens, has sent it: what the process will show when it has read its
wire and then its channel (`Heard`) is what is believed. A refused update keeps this because it
changes neither. Most steps are of one process and only let it go on to the same end
(`Follows`): the head of a channel that is written is read earlier and just as well
(`HeadIsSent`), and a stream may be read in parts (`ReadInParts`), which needs that the last
content of a stream exists: a bounded set of numbers has a greatest member, from the
well-foundedness of the numbers and not from induction over the stream. Steps that end
displays take sessions and credentials away together (`WithoutOk`, `DisplaysEnd`). A credential
is of one display (`CredentialOf`), since a session's process was started for it, so that the
redemption of one spends none of another. TLC has checked `IInv` as an invariant of the
instance of `renderers`.

`DaemonRequestsProofs` proves, for any clients, renderers, limits, queue and bounds that
satisfy `DaemonConstants` (what marks the absence of a value is not one of the values, and every
client may send one Notification; of the limits nothing is assumed, so that any of them may
suppress):

| theorem | property |
|---|---|
| `PinsAreLostByClock` | `PinLostOnlyByClock` |
| `HistoryHears` | `HistoryIsTold`: `CloseReachesHistory`, `RowIsCurrent`, `StoppedIsRecorded` |
| `ClientClosesAreFinal` | `ClientCloseIsFinal` |

**The argument.** The inductive invariant has five parts. `Typed` says what a process holds at
each of its program counters; what the scheduler is made of comes from `Sound`, whose lemmas
about the methods serve here as they do for `LiveScheduler`. `Disciplined` says who holds
`request_order` and the other locks at which program counter: mutual exclusion is what makes
`ClientCloseIsFinal` true, since a client's request takes its snapshot and hands it on under
the lock. `PinsHeld`: a pin is of the intent that some process still carries, unless that
process's clock was overtaken. `HistorySound` follows each close from the scheduler's
`closed` through the places that carry it (a request's report, a tick's, the queue, the
worker) to its row: it is `Carried` by one of them, stored, or counted as lost. The close of a
suppressed Notification goes the same way, and a fifth part, `RoomKept`, is what lets it: between
the calls `closed` has room for the records of all that is live. Closing moves a Notification from
one to the other; only a submission adds one, and it ends within `max_pending`, with its records
drained; new limits cut `closed`, and the tick that took them drains it (`Steady`, `SubmitRoomy`). What the code does lose is in the statement as an exception of its own: a full
queue, SQLite, an aborted task, a tick that takes smaller limits and cuts `closed` (`lost`), and
everything after the `.expect` of `enforce_pending_limit` (`Panicked`, which stays true once it is:
`PanickedStays`). TLC has
checked `IInv` as an invariant of the instance of `requests`.

Only model-checked, with the reason:

- The liveness properties, `AllEnds`, `SettingsApplied`, `LazyStartAnswers`, `Converges`,
  `EditsAreDecided`, `WorkEnds` and `DisplaysSettle`, and with them `ENABLED`: out of this
  prover's reach.
- Induction over data is out of its reach too, which is why `Lines` gives ids numbered places,
  `RequestServer` keeps pairs where the code has sequences, and `HookCommands` filters by
  places.

All the invariants and action properties that the runs check, and the refinement of `Lifecycle`,
are both checked and proved.

## 6. What is left

In the order of their worth:

1. the tmux control client as a FIFO of tickets, and Toast layout as operators against a
   definition of "no two overlap, all inside, in order";
2. the CLI's side of a connection to the end of its answer, with its time limits.

The set of runs is kept to the questions that matter most, about a dozen.

## 7. Not modelled

- **tmux control client**: a FIFO of tickets with one caller at a time, in which any error of
  the protocol ends the connection. What the rest of the system sees of it, commands that
  fail, answers that are lost after the command was carried out, and a connection that is
  lost, is in `TmuxDisplays` and `RendererSessions`.
- **tmux topology and capability**: parsing without state. Its results (which windows are
  viewed, how large they are) are chosen freely in `WindowReconciler`.
- **Toast layout and animation**: pure geometry; a display's place and how many fit are in
  `TmuxDisplays`, as is which motion begins and ends when.
- **Platform**: paths, permissions, log files: input and output of the operating system.
- Text normalisation, rendering to cells, the formats of tmux and of provider files as such:
  pure, and well served by unit tests.

## 8. Reproducing

    tlc -workers 2 -config queue.cfg MCLiveScheduler.tla
    tlc -workers 2 -config requests.cfg MCDaemonRequests.tla
    tlc -workers 2 -config election.cfg MCSocketElection.tla
    tlc -workers 2 -config windows.cfg ReconcileLoop.tla
    tlc -workers 2 -config history.cfg MCHistoryStore.tla
    tlc -workers 2 -config viewer.cfg MCHistoryViewer.tla
    tlc -workers 2 -config server.cfg MCRequestServer.tla
    tlc -workers 2 -config renderers.cfg MCRendererSessions.tla
    tlc -workers 2 -config settings.cfg MCClientCommands.tla
    tlapm LiveSchedulerProofs.tla
    tlapm ClientProofs.tla
    tlapm RequestServerProofs.tla
    tlapm WindowReconcilerProofs.tla
    tlapm HistoryProofs.tla
    tlapm RendererSessionsProofs.tla
    tlapm DaemonRequestsProofs.tla
    tlapm SchedulerTheorems.tla

A configuration belongs to the module its row in `PROJECT.json` names; `timers.cfg` to
`MCLiveScheduler`, `requests_end.cfg` and `jump_lost.cfg` to `MCDaemonRequests`.
