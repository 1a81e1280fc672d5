--------------------------- MODULE LiveScheduler ---------------------------
(***************************************************************************)
(* One scheduler and the callers that share it: requests from clients and  *)
(* renderers, the daemon's periodic reconciliation, configuration reloads, *)
(* jumps that wait for tmux between begin_jump and their outcome, and the  *)
(* shutdown of the daemon.  Callers come in any order; they respect the    *)
(* documented contract that the clock they pass never goes back.           *)
(***************************************************************************)
EXTENDS Scheduler

CONSTANTS
  Drafts,        \* the drafts that clients send
  Updates,       \* the partial updates that clients send
  LimitsSet,     \* the limits a configuration may hold
  CloseReasons,  \* why callers close a Notification
  MaxTime,       \* bound on the clock
  MaxJumps       \* bound on the jumps begun

ASSUME CallerConstants ==
  /\ Drafts \subseteq Draft
  /\ Updates \subseteq Update
  /\ LimitsSet \subseteq SchedulerLimits
  /\ CloseReasons \subseteq {"Dismissed", "RenderFailed"}
  /\ MaxTime \in Nat /\ MaxJumps \in Nat

VARIABLES
  sched,    \* the scheduler
  intents,  \* the JumpIntents held by jumps under way
  shownFor  \* history: since its content last changed, how long each id was
            \* shown, and for how much of it a jump was under way

vars == <<sched, intents, shownFor>>

Init ==
  /\ \E limits \in LimitsSet : sched = NewScheduler(limits, 0)
  /\ intents = {}
  /\ shownFor = [i \in Ids |-> [total |-> 0, pinned |-> 0]]

-----------------------------------------------------------------------------
\* Send: the request that submits a draft.
Send(d, now) ==
  /\ sched' = Submit(sched, d, now)
  /\ sched'.nextSequence <= MaxSubmits
  /\ UNCHANGED intents

\* Update, by id or by key.
Amend(i, u, now) ==
  /\ sched' = ApplyUpdate(sched, i, u, now)
  /\ UNCHANGED intents

\* Dismiss (by id, by key or from a renderer), and the report of the
\* reconciler that no window could show a Notification.
CloseRequest(i, reason, now) ==
  /\ sched' = Close(sched, i, reason, now)
  /\ UNCHANGED intents

\* The reconciler found, or lost, the last eligible window.
DisplayChange(available, now) ==
  /\ sched' = SetDisplayAvailable(sched, available, now)
  /\ UNCHANGED intents

\* The configuration was reloaded.
Reconfigure(limits, now) ==
  /\ sched' = UpdateLimits(sched, limits, now)
  /\ UNCHANGED intents

Tick(now) ==
  /\ sched' = Advance(sched, now)
  /\ UNCHANGED intents

Stop(order, now) ==
  /\ sched' = Shutdown(sched, order, "DaemonStopped", now)
  /\ UNCHANGED intents

\* A jump begins: its caller holds the intent while tmux switches panes.
StartJump(i, now) ==
  /\ sched.nextNonce < MaxJumps
  /\ sched' = BeginJump(sched, i, now)
  /\ intents' = IF sched'.nextNonce = sched.nextNonce THEN intents
                ELSE intents \cup {[id |-> i, nonce |-> sched.nextNonce]}

\* tmux could not switch, or did; either way the intent is spent.
JumpFailed(intent, now) ==
  /\ sched' = CancelJump(sched, intent, now)
  /\ intents' = intents \ {intent}

JumpSucceeded(intent, now) ==
  /\ sched' = CommitJump(sched, intent, now)
  /\ intents' = intents \ {intent}

\* The caller of the last method takes the closed records away.
Drain ==
  /\ Closed(sched) # {}
  /\ sched' = DrainClosed(sched)
  /\ UNCHANGED intents

-----------------------------------------------------------------------------
\* The time that passed since the last method, for the ids shown meanwhile.
ShownNow(i) == IF i \in Shown(sched) THEN sched'.lastNow - sched.lastNow ELSE 0

SameContent(i) ==
  /\ i \in Live(sched) \cap Live(sched')
  /\ sched'.entries[i].draft = sched.entries[i].draft

RecordShown ==
  shownFor' =
    [i \in Ids |->
       IF ~SameContent(i) THEN [total |-> 0, pinned |-> 0]
       ELSE [total  |-> shownFor[i].total + ShownNow(i),
             pinned |-> shownFor[i].pinned +
                        IF sched.entries[i].nonce = None THEN 0
                        ELSE ShownNow(i)]]

Calls(now) ==
  \/ \E d \in Drafts : Send(d, now)
  \/ \E i \in Live(sched), u \in Updates : Amend(i, u, now)
  \/ \E i \in Live(sched), reason \in CloseReasons : CloseRequest(i, reason, now)
  \/ \E available \in BOOLEAN : DisplayChange(available, now)
  \/ \E limits \in LimitsSet : Reconfigure(limits, now)
  \/ Tick(now)
  \/ \E order \in Bijection(Live(sched), 1 .. Cardinality(Live(sched))) :
        Stop(order, now)
  \/ \E i \in Live(sched) : StartJump(i, now)
  \/ \E intent \in intents : JumpFailed(intent, now)
  \/ \E intent \in intents : JumpSucceeded(intent, now)

Next ==
  /\ Drain \/ \E now \in sched.lastNow .. MaxTime : Calls(now)
  /\ RecordShown

Spec == Init /\ [][Next]_vars

-----------------------------------------------------------------------------
(* Safety.                                                                 *)

\* Every field of LiveScheduler, of the intents and of the history has its
\* type.
TypeOK ==
  /\ IsState(sched)
  /\ intents \subseteq [id : Ids, nonce : Nat]
  /\ shownFor \in [Ids -> [total : Nat, pinned : Nat]]

\* Every live Notification is in exactly one of `pending`, `active_toasts` and
\* `active_attention`, of the Presentation that belongs there, and none of
\* them names a Notification that is closed: the `entries[id]` lookups of
\* rebalance and sort_pending never fail.
LiveIsScheduled == Scheduled(sched)

\* `live_keys` is exactly the index of the keys of live Notifications, through
\* every close, replacement and re-submission: two live Notifications never
\* share a key, and a closed one never answers to its key.
KeyIndexExact == KeysIndexed(sched)

\* A timeout runs only while its Toast is shown, and the timeout of a shown
\* Toast that no jump pins does run: no display, an Attention, a deferral and
\* a jump pause it, whatever the order in which they come and go.
TimerRunsWhileShown ==
  \A i \in Live(sched) :
    LET e       == sched.entries[i]
        running == e.timer.since # None
        shown   == sched.attention = None /\ i \in Shown(sched)
    IN  e.timer.left # Never =>
          /\ running => shown
          /\ shown /\ e.nonce = None => running

\* No place on the screen is left empty while a Notification waits for it.
NoIdlePlace ==
  sched.available =>
    /\ sched.attention = None =>
         Pending(sched) \cap OfKind(sched, "attention") = {}
    /\ \/ sched.attention # None
       \/ Cardinality(Toasts(sched)) = sched.limits.maxVisible
       \/ Pending(sched) \cap OfKind(sched, "toast") = {}

\* The visible capacity holds, also just after a reload lowered it, and
\* `pending` is in the order it is served in, also after an update changed a
\* priority.
QueuesInOrder ==
  /\ Cardinality(Toasts(sched)) <= sched.limits.maxVisible
  /\ \A i, j \in Pending(sched) :
       sched.pending[i] < sched.pending[j] <=> <<i, j>> \in ServedBefore(sched)

\* A Notification that a jump pins has a caller which will decide that jump:
\* no cancel or commit of an older intent takes the pin of a newer one.
PinHasHolder ==
  \A i \in Live(sched) : sched.entries[i].nonce # None =>
    [id |-> i, nonce |-> sched.entries[i].nonce] \in intents

\* A timeout has been consumed by the time its Toast was shown with this
\* content, all of it except what passed while a jump pinned the Toast.
TimeoutCountsShownTime ==
  \A i \in Live(sched) :
    LET e        == sched.entries[i]
        running  == IF e.timer.since = None THEN 0
                    ELSE sched.lastNow - e.timer.since
        consumed == e.draft.timeout - e.timer.left + running
    IN  e.timer.left # Never =>
          /\ consumed <= shownFor[i].total
          /\ consumed >= shownFor[i].total - shownFor[i].pinned

-----------------------------------------------------------------------------
(* What a step may never do.                                               *)

ClosedNow == Live(sched) \ Live(sched')

\* A Toast times out only after it was shown, with its present content, for
\* all of its timeout.
NeverTimesOutEarly ==
  \A i \in ClosedNow \cap Closed(sched') :
    sched'.closedAs[i] = "TimedOut" =>
      shownFor[i].total + ShownNow(i) >= sched.entries[i].draft.timeout

\* A Toast on the screen is not preempted: it leaves `active_toasts` only when
\* it is closed, changes its Presentation, or a reload lowers the capacity;
\* those that stay keep their order, and newcomers go behind them.
VisibleToastKeepsPlace ==
  LET stay == Toasts(sched) \cap Toasts(sched')
  IN  /\ \A i \in Toasts(sched) \ stay :
           i \in Live(sched') => \/ sched'.entries[i].draft.pres # "toast"
                                 \/ sched'.limits # sched.limits
      /\ \A i \in stay, j \in Toasts(sched') \ stay :
           sched'.toasts[i] < sched'.toasts[j]
      /\ \A i, j \in stay :
           sched.toasts[i] < sched.toasts[j] =>
             sched'.toasts[i] < sched'.toasts[j]

\* A Notification that gets a place on the screen is the best of those of its
\* Presentation that waited: none that is served before it is left behind.  Only
\* a place that a timeout freed in prepare_time is given away by the ranks as
\* they were before the same method changed them.
PromotedIsBest ==
  [][\A i \in Live(sched') \ Pending(sched'), j \in Pending(sched') :
       /\ i \notin Live(sched) \/ i \in Pending(sched)
       /\ sched'.entries[i].draft.pres = sched'.entries[j].draft.pres
       => \/ <<i, j>> \in ServedBefore(sched')
          \/ /\ \E t \in Toasts(sched) : Expired(sched.entries[t].timer, sched'.lastNow)
             /\ ~SameContent(i) \/ ~SameContent(j)]_vars

\* A Notification is suppressed only when the queue is over its limit, and
\* every one that stays, unless a jump pins it, is served before it.
SuppressedIsWorst ==
  [][\A i \in ClosedNow \cap Closed(sched') :
       sched'.closedAs[i] = "RenderSuppressed" =>
         /\ Cardinality(Pending(sched')) >= sched'.limits.maxPending
         /\ sched.entries[i].nonce = None
         /\ \A j \in Pending(sched') \cap Unpinned(sched') :
              LET p == sched'.entries[j].draft.prio
                  q == sched.entries[i].draft.prio
              IN  p > q \/ (p = q /\ j < i)]_vars

\* DisplayPlan.revision "changes whenever desired visible content or ordering
\* changes", and content_revision with any change of what is live.
RevisionFollowsPlan ==
  [][/\ \/ Shown(sched') # Shown(sched)
        \/ \E i, j \in Toasts(sched) \cap Toasts(sched') :
             (sched.toasts[i] < sched.toasts[j]) #
               (sched'.toasts[i] < sched'.toasts[j])
        => sched'.revised \/ sched'.panicked
     /\ (\E i \in Live(sched) \cup Live(sched') : ~SameContent(i))
        => sched'.contentRevised \/ sched'.panicked]_vars

\* With `closed` drained and limits that do not change, no method loses the
\* record of a Notification it closes, as long as no more are live than there
\* are places for: the pending ones, the Toasts and the Attention.
CloseRecordKept ==
  [][/\ Closed(sched) = {}
     /\ sched'.limits = sched.limits
     /\ Cardinality(Live(sched)) <=
          sched.limits.maxPending + sched.limits.maxVisible + 1
     => ClosedNow \subseteq Closed(sched')]_vars

\* The collections and the key index agree with what is live, after any method.
IndexesExact == LiveIsScheduled /\ KeyIndexExact

\* Priority and age decide who gets a place on the screen and who is suppressed.
RanksDecide == PromotedIsBest /\ SuppressedIsWorst

\* A Toast is shown for its timeout: time counts exactly while it is shown and
\* no jump pins it, and it does not time out before.
TimeoutsAreExact ==
  [][TimerRunsWhileShown /\ TimeoutCountsShownTime /\ NeverTimesOutEarly]_vars

\* A place on the screen is taken when somebody waits for it, and who has it
\* keeps it.
PlacesAreKept == [][NoIdlePlace /\ VisibleToastKeepsPlace]_vars

-----------------------------------------------------------------------------
(* The abstract specification that the scheduler implements.               *)

StageOf(i) ==
  IF i \in Live(sched) THEN sched.entries[i].delivery
  ELSE IF i < sched.nextSequence THEN "closed" ELSE "none"

Life == INSTANCE Lifecycle
          WITH stage <- [i \in Ids |-> StageOf(i)], shown <- Shown(sched)

\* Whatever the callers do, a Notification is accepted once and in order, what
\* the plan shows is marked Visible, and nothing goes back: a keyed replacement,
\* a jump or a reload makes none of them Pending again or live once closed.
ImplementsLifecycle == Life!Spec
=============================================================================
