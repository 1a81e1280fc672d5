--------------------------- MODULE DaemonRequests ---------------------------
(***************************************************************************)
(* The daemon around its scheduler: src/daemon/service.rs and the tasks    *)
(* that src/daemon/application.rs starts.  Client requests, actions of     *)
(* renderers, the reconcile loop and the shutdown sequence are processes;  *)
(* they share the scheduler, the tmux backend and the queue of the History *)
(* worker, each behind a lock or a channel, and wait between their steps.  *)
(*                                                                         *)
(* A step under the scheduler's lock is one call of a Scheduler operator   *)
(* with a time that was read earlier: prepare_time refuses a time before   *)
(* the one it saw last, and the daemon's steps say what happens then.      *)
(*                                                                         *)
(* Fault marks a plausible slip, as in Scheduler.                          *)
(***************************************************************************)
EXTENDS Scheduler, Sequences

CONSTANTS
  Clients,          \* client requests, one task each
  Renderers,        \* actions of attention renderers, one task each
  Commands,         \* the commands that clients send
  LimitsSet,        \* the limits a configuration may hold
  MaxTime,          \* bound on the clock
  MaxReloads,       \* bound on the configuration reloads
  HistoryCapacity,  \* queue_capacity of the History worker
  Cleanup           \* the task that shuts the daemon down

Tasks == Clients \cup Renderers
Procs == Tasks \cup {Cleanup}

\* A client names its target by key; a renderer shows one Attention.
Command ==
  [op : {"send"}, draft : Draft]
    \cup [op : {"update"}, key : Keys, change : Update]
    \cup [op : {"dismiss", "jump"}, key : Keys]
    \cup [op : {"historyJump"}]
Action == [op : {"dismiss", "jump"}, id : Ids]

\* What a request, an action or the cleanup fails with.
Errors == {"KeyNotLive", "NotLive", "Refused", "TimeWentBackwards",
           "StaleJumpIntent", "AttentionActive", "NotAttention", "Jump", "QueueFull",
           "Panicked"}

\* Every client may send a Notification of its own; the limits are any.
\* What stands for `no value', for the reconcile loop and for a close is no
\* task, error, intent or text.
ASSUME DaemonConstants ==
  /\ Commands \subseteq Command
  /\ LimitsSet \subseteq SchedulerLimits
  /\ {MaxTime, MaxReloads} \subseteq Nat
  /\ HistoryCapacity \in Nat \ {0}
  /\ IsFiniteSet(Clients) /\ Cardinality(Clients) <= MaxSubmits
  /\ Clients \cap Renderers = {} /\ Cleanup \notin Tasks
  /\ "loop" \notin Procs /\ "closed" \notin Texts
  /\ None \notin Procs \cup Errors \cup [id : Ids, nonce : Nat]

VARIABLES
  clock,     \* Instant::now() since `origin`
  sched,     \* the scheduler
  tasks,     \* where each task is, and what it holds
  order,     \* the holder of `request_order`
  backend,   \* the holder of the backend's lock across a wait
  settings,  \* the watch channel of the settings, and the reloads so far
  loop,      \* the reconcile loop
  queue,     \* the channel to the History worker
  rows,      \* what the database has of each Notification, and who wrote it
  daemon,    \* serving, draining its connections, cleaning up, or stopped
  lost,      \* history: ids whose snapshot did not reach the database
  recorded   \* history: ids whose close reached the database

vars == <<clock, sched, tasks, order, backend, settings, loop, queue, rows,
          daemon, lost, recorded>>
history == <<queue, rows, lost, recorded>>
control == <<settings, loop, daemon, clock>>

\* A Notification as a snapshot sent to History: its content, or its close.
Snapshot == [id : Ids, state : Texts \cup {"closed"}]

Idle == [pc |-> "idle", cmd |-> None, at |-> 0, intent |-> None,
         todo |-> <<>>, error |-> None]

Init ==
  /\ clock = 0
  /\ \E limits \in LimitsSet :
       /\ sched = NewScheduler(limits, 0)
       /\ settings = [limits |-> limits, changed |-> FALSE, reloads |-> 0]
  /\ tasks = [p \in Procs |-> Idle]
  /\ order = None /\ backend = None
  /\ loop = [pc |-> "top", limits |-> None, todo |-> <<>>]
  /\ queue = <<>>
  /\ rows = [i \in Ids |-> [state |-> None, by |-> None]]
  /\ daemon = "serving"
  /\ lost = {} /\ recorded = {}

-----------------------------------------------------------------------------
At(p, pc) == tasks[p].pc = pc

Ended(p) == tasks[p].pc \in {"idle", "answered", "aborted"}

\* prepare_time accepts the time that task p read.
InTime(p) == tasks[p].at >= sched.lastNow

\* The elements of a line, front first.
InOrder(line) ==
  [n \in 1 .. Cardinality(DOMAIN line) |->
     CHOOSE i \in DOMAIN line :
       Cardinality({j \in DOMAIN line : line[j] <= line[i]}) = n]

\* drain_closed, and the snapshot that a send or an update takes first.
Drained(s) ==
  [n \in DOMAIN InOrder(s.closed) |->
     [id |-> InOrder(s.closed)[n], state |-> "closed"]]

Taken(s, i) ==
  (IF i \in Live(s)
   THEN <<[id |-> i, state |-> s.entries[i].draft.text]>> ELSE <<>>)
  \o Drained(s)

\* The ids of a sequence of snapshots.
Sent(snaps) == {snaps[n].id : n \in DOMAIN snaps}

\* Task p leaves the scheduler with snapshots to persist.
Persists(p, todo) ==
  tasks' = [tasks EXCEPT ![p] = [Idle EXCEPT !.pc = "persist", !.todo = todo]]

\* Task p ends; `error` is None when it was accepted.
Ends(p, error) ==
  /\ tasks' = [tasks EXCEPT ![p] = [Idle EXCEPT !.pc = "answered", !.error = error]]
  /\ order' = IF order = p THEN None ELSE order

Refuses(p, error) ==
  /\ Ends(p, error)
  /\ UNCHANGED <<sched, backend, history, control>>

-----------------------------------------------------------------------------
(* Client requests.                                                        *)

\* The runtime spawned a task for the request.
Arrive(c) ==
  /\ daemon = "serving"
  /\ At(c, "idle")
  /\ \E cmd \in Commands :
       tasks' = [tasks EXCEPT ![c].pc = "waiting", ![c].cmd = cmd]
  /\ UNCHANGED <<sched, order, backend, history, control>>

\* Fault: requests do not wait for one another.
ReadClockAnyOrder(c) ==
  /\ At(c, "waiting")
  /\ tasks' = [tasks EXCEPT ![c].pc = "ready", ![c].at = clock]
  /\ UNCHANGED <<sched, order, backend, history, control>>

\* The handler holds request_order from before it reads the clock until the
\* request has its answer.
ReadClock(c) ==
  /\ At(c, "waiting")
  /\ order = None
  /\ order' = c
  /\ tasks' = [tasks EXCEPT ![c].pc = "ready", ![c].at = clock]
  /\ UNCHANGED <<sched, backend, history, control>>

Ready(c, op) == At(c, "ready") /\ tasks[c].cmd.op = op

\* The id that submit(d) answers with.
Target(s, d) ==
  IF d.key = None \/ s.liveKeys[d.key] = None THEN s.nextSequence
  ELSE s.liveKeys[d.key]

\* The `.expect` of enforce_pending_limit ends the task: its locks are free
\* again, and nothing is drained.
Send(c) ==
  /\ Ready(c, "send")
  /\ LET d    == tasks[c].cmd.draft
         s    == PrepareTime(sched, tasks[c].at)
         sent == Submit(sched, d, tasks[c].at)
     IN  IF InTime(c)
         THEN /\ IF sent.panicked
                 THEN sched' = sent /\ Ends(c, "Panicked")
                 ELSE /\ sched' = DrainClosed(sent)
                      /\ Persists(c, Taken(sent, Target(s, d)))
                      /\ UNCHANGED order
              /\ UNCHANGED <<backend, history, control>>
         ELSE Refuses(c, "TimeWentBackwards")

\* A target that prepare_time has just closed is an error that leaves the
\* closed records in the scheduler.
Amend(c) ==
  /\ Ready(c, "update")
  /\ LET cmd  == tasks[c].cmd
         i    == sched.liveKeys[cmd.key]
         done == ApplyUpdate(sched, i, cmd.change, tasks[c].at)
     IN  CASE i = None       -> Refuses(c, "KeyNotLive")
           [] i # None /\ ~InTime(c) -> Refuses(c, "TimeWentBackwards")
           [] i # None /\ InTime(c)  ->
                /\ IF i \in Live(done)
                   THEN /\ sched' = DrainClosed(done)
                        /\ Persists(c, Taken(done, i))
                        /\ UNCHANGED order
                   ELSE sched' = done /\ Ends(c, "NotLive")
                /\ UNCHANGED <<backend, history, control>>

\* close, for dismiss, dismiss_by_key and commit_jump: a target that
\* prepare_time has just closed is an error here too.
Closes(p, i, reason) ==
  LET done == Close(sched, i, reason, tasks[p].at)
  IN  /\ IF i \in Live(PrepareTime(sched, tasks[p].at))
         THEN /\ sched' = DrainClosed(done)
              /\ Persists(p, Drained(done))
              /\ UNCHANGED order
         ELSE sched' = done /\ Ends(p, "NotLive")
      /\ UNCHANGED <<backend, history, control>>

Dismiss(c) ==
  /\ Ready(c, "dismiss")
  /\ LET i == sched.liveKeys[tasks[c].cmd.key]
     IN  CASE i = None               -> Refuses(c, "KeyNotLive")
           [] i # None /\ ~InTime(c) -> Refuses(c, "TimeWentBackwards")
           [] i # None /\ InTime(c)  -> Closes(c, i, "Dismissed")

\* begin_jump: the task leaves the lock with an intent, and nothing drained.
BeginOne(p, i) ==
  LET begun == BeginJump(sched, i, tasks[p].at)
  IN  /\ sched' = begun
      /\ IF begun.nextNonce = sched.nextNonce
         THEN Ends(p, "Refused")
         ELSE /\ tasks' = [tasks EXCEPT
                             ![p].pc = "begun",
                             ![p].intent = [id |-> i, nonce |-> sched.nextNonce]]
              /\ UNCHANGED order
      /\ UNCHANGED <<backend, history, control>>

JumpByKey(c) ==
  /\ Ready(c, "jump")
  /\ IF InTime(c)
     THEN BeginOne(c, PrepareTime(sched, tasks[c].at).liveKeys[tasks[c].cmd.key])
     ELSE Refuses(c, "TimeWentBackwards")

\* HistoryJump touches no Notification: it only waits for tmux.
JumpFromHistory(c) ==
  /\ Ready(c, "historyJump")
  /\ IF sched.attention # None THEN Refuses(c, "AttentionActive")
     ELSE /\ tasks' = [tasks EXCEPT ![c].pc = "begun"]
          /\ UNCHANGED <<sched, order, backend, history, control>>

-----------------------------------------------------------------------------
(* Actions of renderers.                                                   *)

\* The renderer of a shown Attention sends a key; its time is read at once.
Press(r) ==
  /\ daemon \in {"serving", "draining"}
  /\ At(r, "idle")
  /\ sched.attention # None /\ sched.attention \in Shown(sched)
  /\ \E op \in {"dismiss", "jump"} :
       tasks' = [tasks EXCEPT ![r].pc = "received", ![r].at = clock,
                              ![r].cmd = [op |-> op, id |-> sched.attention]]
  /\ UNCHANGED <<sched, order, backend, history, control>>

\* The first of two visits to the scheduler checks the target.
CheckAttention(r) ==
  /\ At(r, "received")
  /\ IF tasks[r].cmd.id \in OfKind(sched, "attention")
     THEN /\ tasks' = [tasks EXCEPT ![r].pc = "ready"]
          /\ UNCHANGED <<sched, order, backend, history, control>>
     ELSE Refuses(r, "NotAttention")

Act(r) ==
  /\ At(r, "ready")
  /\ LET cmd == tasks[r].cmd
     IN  CASE ~InTime(r) -> Refuses(r, "TimeWentBackwards")
           [] InTime(r) /\ cmd.op = "dismiss" -> Closes(r, cmd.id, "Dismissed")
           [] InTime(r) /\ cmd.op = "jump"    -> BeginOne(r, cmd.id)

-----------------------------------------------------------------------------
(* The second half of a jump.                                              *)

EnterTmux(p) ==
  /\ At(p, "begun")
  /\ backend = None
  /\ backend' = p
  /\ tasks' = [tasks EXCEPT ![p].pc = "switching"]
  /\ UNCHANGED <<sched, order, history, control>>

\* tmux switched or did not; the backend is free again.
LeaveTmux(p) ==
  /\ At(p, "switching")
  /\ backend' = None
  /\ IF tasks[p].intent = None THEN \E error \in {None, "Jump"} : Ends(p, error)
     ELSE /\ \E pc \in {"switched", "refused"} :
               tasks' = [tasks EXCEPT ![p].pc = pc]
          /\ UNCHANGED order
  /\ UNCHANGED <<sched, history, control>>

\* commit_jump and cancel_jump get the time that was read before the jump
\* began.
Commit(p) ==
  /\ At(p, "switched")
  /\ LET intent == tasks[p].intent
         valid  == IntentValid(sched, intent)
     IN  CASE ~valid               -> Refuses(p, "StaleJumpIntent")
           [] valid /\ ~InTime(p)  -> Refuses(p, "TimeWentBackwards")
           [] valid /\ InTime(p)   -> Closes(p, intent.id, "Jumped")

\* Fault: a switch that failed is not cancelled.
CancelForgotten(p) ==
  /\ At(p, "refused")
  /\ Refuses(p, "Jump")

Cancel(p) ==
  /\ At(p, "refused")
  /\ IF InTime(p)
     THEN /\ sched' = CancelJump(sched, tasks[p].intent, tasks[p].at)
          /\ Ends(p, "Jump")
          /\ UNCHANGED <<backend, history, control>>
     ELSE Refuses(p, "TimeWentBackwards")

-----------------------------------------------------------------------------
(* Persistence.                                                            *)

\* try_send: a full queue refuses the snapshot.
Room == HistoryCapacity - Len(queue)

\* A message to the worker; `late` remembers that the flush was before it.
Message(snap, by) ==
  [snap |-> snap, by |-> by,
   late |-> tasks[Cleanup].pc \in {"flushing", "flushed"}]

\* persist_snapshots: one snapshot after the other, each waits for its receipt.
Persist(p) ==
  /\ At(p, "persist") /\ tasks[p].todo # <<>>
  /\ LET snap == Head(tasks[p].todo)
     IN  IF Room > 0
         THEN /\ queue' = Append(queue, Message(snap, p))
              /\ tasks' = [tasks EXCEPT ![p].pc = "receipt", ![p].todo = Tail(@)]
              /\ UNCHANGED lost
         ELSE /\ lost' = lost \cup {snap.id}
              /\ tasks' = [tasks EXCEPT ![p].todo = Tail(@)]
              /\ UNCHANGED queue
  /\ UNCHANGED <<sched, order, backend, rows, recorded, control>>

Answer(p) ==
  /\ p \in Tasks
  /\ At(p, "persist") /\ tasks[p].todo = <<>>
  /\ Ends(p, None)
  /\ UNCHANGED <<sched, backend, history, control>>

\* Fault: actions of renderers get no receipt.
ReceiptToClients(entry) ==
  IF entry.by \in Procs \ Renderers /\ At(entry.by, "receipt")
  THEN [tasks EXCEPT ![entry.by].pc = "persist"] ELSE tasks

\* The receipt for an entry, if its task still waits for it.
Receipt(entry) ==
  IF entry.by \in Procs /\ At(entry.by, "receipt")
  THEN [tasks EXCEPT ![entry.by].pc = "persist"] ELSE tasks

RowWritten(entry) ==
  /\ rows' = [rows EXCEPT ![entry.snap.id] =
                [state |-> entry.snap.state, by |-> entry.by]]
  /\ recorded' = IF entry.snap.state = "closed"
                 THEN recorded \cup {entry.snap.id} ELSE recorded
  /\ UNCHANGED lost

RowFailed(entry) ==
  /\ lost' = lost \cup {entry.snap.id}
  /\ UNCHANGED <<rows, recorded>>

\* The worker takes the oldest command, writes the row or gives up after its
\* bounded retries, and sends the receipt.
Write ==
  /\ daemon # "stopped"
  /\ queue # <<>> /\ Head(queue).snap.id # None
  /\ RowWritten(Head(queue)) \/ RowFailed(Head(queue))
  /\ tasks' = Receipt(Head(queue))
  /\ queue' = Tail(queue)
  /\ UNCHANGED <<sched, order, backend, control>>

\* A flush is answered when all that was sent before it has been dealt with.
Flushed ==
  /\ daemon # "stopped"
  /\ queue # <<>> /\ Head(queue).snap.id = None
  /\ queue' = Tail(queue)
  /\ tasks' = [tasks EXCEPT ![Cleanup].pc = "flushed"]
  /\ UNCHANGED <<sched, order, backend, rows, lost, recorded, control>>

-----------------------------------------------------------------------------
(* The reconcile loop.                                                     *)

\* Fault: the change is seen, the limits are not taken.
OldLimits == loop.limits

\* What the loop finds in the watch channel; it has seen it then.
NewLimits == IF settings.changed THEN settings.limits ELSE loop.limits

\* The test of `stopping` and the settings, before any lock.
StartTick ==
  /\ loop.pc = "top"
  /\ daemon \in {"serving", "draining"}
  /\ loop' = [loop EXCEPT !.pc = "tick", !.limits = NewLimits]
  /\ settings' = [settings EXCEPT !.changed = FALSE]
  /\ UNCHANGED <<sched, tasks, order, backend, history, daemon, clock>>

\* render_failed for every Notification of the plan, in its order.
AllFailed(s) ==
  LET plan == IF s.attention # None THEN <<s.attention>> ELSE InOrder(s.toasts)
      after[n \in 0 .. Len(plan)] ==
        IF n = 0 THEN s ELSE Close(after[n - 1], plan[n], "RenderFailed", clock)
  IN  after[Len(plan)]

\* WindowReconciler::tick as the scheduler sees it: there is no eligible window
\* or no connection; or all windows failed once too often; or they did what
\* they could.
Reconciled(s) ==
  LET tried == SetDisplayAvailable(s, TRUE, clock)
  IN  {SetDisplayAvailable(s, FALSE, clock),
       SetDisplayAvailable(tried, FALSE, clock),
       SetDisplayAvailable(tried, TRUE, clock)}
        \cup (IF Shown(tried) = {} THEN {}
              ELSE {SetDisplayAvailable(AllFailed(tried), FALSE, clock)})

\* What a state of the scheduler leaves neither live nor on record in the next.
Unrecorded(s, done) ==
  (Live(s) \cup Closed(s)) \ (Live(done) \cup Closed(done))

\* The `.expect` of enforce_pending_limit ends the loop; the daemon goes on.
LoopDies(s) ==
  /\ sched' = s
  /\ loop' = [pc |-> "dead", limits |-> None, todo |-> <<>>]
  /\ UNCHANGED lost

\* Other limits cut `closed`: what they cut off is lost.
LoopTakes(done) ==
  /\ sched' = DrainClosed(done)
  /\ loop' = [pc |-> "enqueue", limits |-> None, todo |-> Drained(done)]
  /\ lost' = lost \cup
       (IF done.limits = sched.limits THEN {} ELSE Unrecorded(sched, done))

\* Under both locks; the clock is read when they are held.
Tick ==
  /\ daemon # "stopped"
  /\ loop.pc = "tick"
  /\ backend = None
  /\ LET s == IF loop.limits = None THEN sched
              ELSE UpdateLimits(sched, loop.limits, clock)
     IN  IF loop.limits # None /\ s.panicked THEN LoopDies(s)
         ELSE \E done \in Reconciled(s) : LoopTakes(done)
  /\ UNCHANGED <<tasks, order, backend, queue, rows, recorded, settings, daemon, clock>>

\* enqueue_all waits for nothing: what finds the queue full is dropped.
Enqueue ==
  /\ daemon # "stopped"
  /\ loop.pc = "enqueue"
  /\ LET fits == [n \in DOMAIN loop.todo \cap 1 .. Room |-> loop.todo[n]]
         rest == [n \in DOMAIN loop.todo \ 1 .. Room |-> loop.todo[n]]
     IN  /\ queue' = queue \o [n \in DOMAIN fits |-> Message(fits[n], "loop")]
         /\ lost' = lost \cup Sent(rest)
  /\ loop' = [loop EXCEPT !.pc = "top", !.todo = <<>>]
  /\ UNCHANGED <<sched, tasks, order, backend, rows, recorded, settings, daemon, clock>>

-----------------------------------------------------------------------------
(* The environment, and the shutdown.                                      *)

\* A reload of the configuration file that changed the limits.
Reload ==
  /\ daemon # "stopped"
  /\ settings.reloads < MaxReloads
  /\ \E limits \in LimitsSet \ {settings.limits} :
       settings' = [limits |-> limits, changed |-> TRUE,
                    reloads |-> settings.reloads + 1]
  /\ UNCHANGED <<sched, tasks, order, backend, history, loop, daemon, clock>>

TimePasses ==
  /\ daemon # "stopped"
  /\ clock < MaxTime
  /\ clock' = clock + 1
  /\ UNCHANGED <<sched, tasks, order, backend, history, settings, loop, daemon>>

Signal ==
  /\ daemon = "serving"
  /\ daemon' = "draining"
  /\ UNCHANGED <<sched, tasks, order, backend, history, settings, loop, clock>>

\* All connections are done: the cleanup sets `stopping`.
Drain ==
  /\ daemon = "draining"
  /\ \A t \in Tasks : Ended(t)
  /\ daemon' = "cleaning"
  /\ tasks' = [tasks EXCEPT ![Cleanup].pc = "ready"]
  /\ UNCHANGED <<sched, order, backend, history, settings, loop, clock>>

\* The tasks in T are dropped: the snapshots they hold are lost, and
\* request_order is free again.
Dropped(T) ==
  [p \in Procs |-> IF p \in T /\ ~Ended(p) THEN [Idle EXCEPT !.pc = "aborted"]
                  ELSE tasks[p]]
DropLoses(T) == lost' = lost \cup UNION {Sent(tasks[t].todo) : t \in T}
DropFrees(T) == order' = IF order \in T THEN None ELSE order

\* They are not, in the time they have: they are aborted where they wait.  A
\* call to tmux is not a wait: the connection of a renderer is joined after
\* it, but the task of a request is left in it.
Abort ==
  /\ daemon = "draining"
  /\ ~\A t \in Tasks : Ended(t)
  /\ \A r \in Renderers : ~At(r, "switching")
  /\ daemon' = "cleaning"
  /\ LET T == {t \in Tasks : ~At(t, "switching")}
     IN  /\ tasks' = [Dropped(T) EXCEPT ![Cleanup].pc = "ready"]
         /\ DropLoses(T) /\ DropFrees(T)
  /\ UNCHANGED <<sched, backend, queue, rows, recorded, settings, loop, clock>>

\* A request that was left in tmux stops at one of its later waits.
AbortLate(c) ==
  /\ daemon = "cleaning"
  /\ ~Ended(c) /\ ~At(c, "switching")
  /\ tasks' = Dropped({c}) /\ DropLoses({c}) /\ DropFrees({c})
  /\ UNCHANGED <<sched, backend, queue, rows, recorded, control>>

\* The first step of the cleanup closes what is live, in HashMap order.
CloseLive ==
  /\ At(Cleanup, "ready")
  /\ \E line \in Bijection(Live(sched), 1 .. Cardinality(Live(sched))) :
       LET done == Shutdown(sched, line, "DaemonStopped", clock)
       IN  sched' = DrainClosed(done) /\ Persists(Cleanup, Drained(done))
  /\ UNCHANGED <<order, backend, history, control>>

\* Fault: the cleanup does not wait for History.
FlushAndGo ==
  /\ At(Cleanup, "persist") /\ tasks[Cleanup].todo = <<>>
  /\ backend = None
  /\ tasks' = [tasks EXCEPT ![Cleanup].pc = "flushed"]
  /\ UNCHANGED <<sched, order, backend, history, control>>

\* The displays are closed, under the backend's lock; then History is flushed.
Flush ==
  /\ At(Cleanup, "persist") /\ tasks[Cleanup].todo = <<>>
  /\ backend = None
  /\ IF Room > 0
     THEN /\ queue' = Append(queue, Message([id |-> None], Cleanup))
          /\ tasks' = [tasks EXCEPT ![Cleanup].pc = "flushing"]
     ELSE /\ tasks' = [tasks EXCEPT ![Cleanup].pc = "flushed",
                                    ![Cleanup].error = "QueueFull"]
          /\ UNCHANGED queue
  /\ UNCHANGED <<sched, order, backend, rows, lost, recorded, control>>

\* The daemon exits: the loop and what is left of the requests are aborted
\* where they wait.
Exit ==
  /\ At(Cleanup, "flushed")
  /\ daemon = "cleaning"
  /\ backend = None
  /\ daemon' = "stopped"
  /\ tasks' = Dropped(Tasks) /\ DropLoses(Tasks) /\ DropFrees(Tasks)
  /\ UNCHANGED <<sched, backend, queue, rows, recorded, settings, loop, clock>>

Stopped == daemon = "stopped" /\ UNCHANGED vars

-----------------------------------------------------------------------------
Request(c) ==
  Send(c) \/ Amend(c) \/ Dismiss(c) \/ JumpByKey(c) \/ JumpFromHistory(c)

Jumping(p) == LeaveTmux(p) \/ Commit(p) \/ Cancel(p)

Shutting ==
  Drain \/ Abort \/ (\E c \in Clients : AbortLate(c)) \/ CloseLive \/ Flush \/ Exit

Next ==
  \/ \E c \in Clients : Arrive(c) \/ ReadClock(c) \/ Request(c)
  \/ \E r \in Renderers : Press(r) \/ CheckAttention(r) \/ Act(r)
  \/ \E t \in Tasks : EnterTmux(t) \/ Jumping(t) \/ Answer(t)
  \/ \E p \in Procs : Persist(p)
  \/ Write \/ Flushed
  \/ StartTick \/ Tick \/ Enqueue
  \/ Reload \/ TimePasses \/ Signal \/ Shutting \/ Stopped

Spec == Init /\ [][Next]_vars

\* A step that needs nothing but to be scheduled is always possible where its
\* process waits for it: weak fairness of the step says that the process does
\* not stay there.  (Written so, TLC need not look for the step's successors.)
Leaves(p, pc) == []<>~At(p, pc)

\* The same for the loop's tick, with strong fairness for the backend's lock.
LoopTicks ==
  \/ <>[](backend # None)
  \/ []<>(loop.pc # "tick" \/ daemon = "stopped")

\* tokio polls every task that can run, its mutexes serve their waiters in
\* order, a call to tmux answers or times out after two seconds, and the
\* worker is a thread of its own.  Requests, keys, reloads, signals and the
\* clock may stop coming.
Fairness ==
  /\ \A c \in Clients : SF_vars(ReadClock(c))
  /\ \A t \in Tasks :
       /\ SF_vars(EnterTmux(t))
       /\ \A pc \in {"received", "ready", "switching", "switched", "refused"} :
            Leaves(t, pc)
       /\ WF_vars(Answer(t))
  /\ \A p \in Procs : WF_vars(Persist(p))
  /\ WF_vars(Write \/ Flushed)
  /\ WF_vars(StartTick) /\ LoopTicks /\ WF_vars(Enqueue)
  /\ WF_vars(Drain \/ Abort) /\ Leaves(Cleanup, "ready") /\ SF_vars(Flush)
  /\ WF_vars(Exit)

FairSpec == Spec /\ Fairness

-----------------------------------------------------------------------------
(* Safety.                                                                 *)

\* Every lock, channel and task is in one of the states the code gives it, and
\* the History queue within its capacity.
TypeOK ==
  /\ clock \in Nat
  /\ IsState(sched) /\ sched.lastNow <= clock
  /\ \A p \in Procs :
       /\ DOMAIN tasks[p] = DOMAIN Idle
       /\ tasks[p].pc \in {"idle", "waiting", "received", "ready", "begun",
            "switching", "switched", "refused", "persist", "receipt",
            "flushing", "flushed", "answered", "aborted"}
       /\ tasks[p].at \in 0 .. clock
       /\ tasks[p].todo \in Seq(Snapshot)
  /\ order \in Clients \cup {None} /\ backend \in Tasks \cup {None}
  /\ loop.todo \in Seq(Snapshot)
  /\ Len(queue) <= HistoryCapacity
  /\ \A n \in DOMAIN queue : queue[n].snap \in Snapshot \cup [id : {None}]
  /\ lost \cup recorded \subseteq Ids

Accepted == 0 .. sched.nextSequence - 1

\* The ids whose snapshots some process holds, or the queue.
Carried ==
  (UNION {Sent(tasks[p].todo) : p \in Procs}) \cup Sent(loop.todo)
    \cup {queue[n].snap.id : n \in DOMAIN queue}

\* The `.expect` of enforce_pending_limit has failed, in a request or the loop.
Panicked == loop.pc = "dead" \/ \E c \in Clients : tasks[c].error = "Panicked"

\* The close of every Notification reaches the database, whatever closed it, a
\* suppression by max_pending included: until it does, its record is in the
\* scheduler, with a process that will persist it, or in the queue, unless a
\* full queue, SQLite, an aborted task or the tick that took other limits lost
\* it.  A method that fails after prepare_time leaves its records for the next
\* to drain, and `closed` has room for them.
CloseReachesHistory ==
  \/ Panicked
  \/ \A i \in Accepted \ Live(sched) :
       i \in recorded \cup lost \cup Closed(sched) \cup Carried

\* While no snapshot of a live Notification is on its way, its row has its
\* present content: an older snapshot never overwrites a newer one, because
\* request_order is held until the receipt.
RowIsCurrent ==
  \/ Panicked
  \/ \A i \in Live(sched) \ (Carried \cup lost) :
       rows[i].state = sched.entries[i].draft.text

\* Only a clock that the reconcile loop overtook, or an aborted task, leaves a
\* Notification pinned with no jump to decide it.
PinLostOnlyByClock ==
  \A i \in Live(sched) : sched.entries[i].nonce # None =>
    \/ \E t \in Tasks :
         tasks[t].intent = [id |-> i, nonce |-> sched.entries[i].nonce]
    \/ \E t \in Tasks :
         At(t, "aborted") \/ tasks[t].error = "TimeWentBackwards"

\* When the daemon has stopped, every Notification it accepted is closed, and
\* its close is in the database, lost, or came after the flush from the
\* reconcile loop or a late request; more is missing only when the queue had
\* no room for the flush.
StoppedIsRecorded ==
  daemon = "stopped" =>
    /\ Live(sched) = {} /\ Closed(sched) = {}
    /\ \A i \in Accepted \ (recorded \cup lost) :
         \/ Panicked \/ tasks[Cleanup].error = "QueueFull"
         \/ i \in Sent(loop.todo)
         \/ \E n \in DOMAIN queue : queue[n].snap.id = i /\ queue[n].late

\* A row that a client's request closed stays closed: while that request was
\* running no other one held a snapshot of the Notification as it was before.
ClientCloseIsFinal ==
  [][\A i \in Ids :
       rows[i].state = "closed" /\ rows[i].by \in Clients =>
         rows'[i].state = "closed"]_vars

-----------------------------------------------------------------------------
(* Liveness.                                                               *)

\* Every request and every action is answered, or aborted by a shutdown: no
\* order of requests, jumps, ticks and cleanup leaves one waiting for ever.
RequestsEnd == \A t \in Tasks : ~Ended(t) ~> Ended(t)

\* A shutdown ends.
ShutdownEnds == daemon = "draining" ~> daemon = "stopped"

\* The limits of the configuration reach the scheduler, while the loop lives.
SettingsApplied ==
  \A limits \in LimitsSet :
    settings.changed /\ settings.limits = limits ~>
      \/ sched.limits = limits \/ settings.limits # limits
      \/ daemon # "serving" \/ loop.pc = "dead"

-----------------------------------------------------------------------------
(* What the documents say and the code does not do.                        *)

\* "closes the Notification as Jumped after a successful switch": a
\* Notification that a jump pins has a jump that will close or release it.
JumpIsDecided ==
  \A i \in Live(sched) : sched.entries[i].nonce # None =>
    \E t \in Tasks :
      \/ tasks[t].intent = [id |-> i, nonce |-> sched.entries[i].nonce]
      \/ At(t, "aborted")

\* History hears of every Notification: of its present content, of its close,
\* and of all that a shutdown closes.
HistoryIsTold == TypeOK /\ CloseReachesHistory /\ RowIsCurrent /\ StoppedIsRecorded

\* Requests, actions and a shutdown end.
AllEnds == RequestsEnd /\ ShutdownEnds
=============================================================================
