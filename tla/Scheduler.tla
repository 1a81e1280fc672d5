----------------------------- MODULE Scheduler -----------------------------
(***************************************************************************)
(* LiveScheduler of src/daemon/mod.rs: its state as a record and each of   *)
(* its methods as an operator from a state to the state it leaves.  The    *)
(* daemon holds one scheduler behind a lock, so a method is one step; the  *)
(* modules that use these operators say who calls them and when.           *)
(*                                                                         *)
(* A definition marked Fault is a plausible slip in the definition that    *)
(* follows it; nothing in the model uses it, it is there to be put in the  *)
(* other's place to see which property notices.                            *)
(*                                                                         *)
(* A Notification's id is a fresh UUID and its `sequence` the number of    *)
(* submissions before it: the model uses the sequence for both.            *)
(***************************************************************************)
EXTENDS Lines, Functions

CONSTANTS
  Keys,        \* Notification Keys
  Texts,       \* a value per distinct title, body, level, override, metadata
  Durations,   \* the lengths a timeout may have
  MaxSubmits,  \* bound on the Notifications one daemon creates
  None,        \* Option::None
  Never        \* Timeout::Never

ASSUME SchedulerConstants ==
  /\ Durations \subseteq Nat
  /\ MaxSubmits \in Nat
  /\ None \notin Nat \cup Keys \cup Texts \cup {Never}
  /\ Never \notin Nat

Ids      == 0 .. MaxSubmits - 1
Timeouts == Durations \cup {Never}
Reasons  == {"TimedOut", "Dismissed", "Jumped", "RenderFailed",
             "RenderSuppressed", "DaemonStopped"}

\* What NotificationDraft::new and with_timeout let through: an Attention has
\* a Source Pane and never times out.
Draft ==
  {d \in [key : Keys \cup {None}, prio : Nat, pres : {"toast", "attention"},
          text : Texts, timeout : Timeouts, source : BOOLEAN] :
     d.pres = "attention" => d.source /\ d.timeout = Never}

\* NotificationUpdate: None leaves the field as it is.
Update == [prio : Nat \cup {None}, text : Texts \cup {None},
           timeout : Timeouts \cup {None}]

\* TimeoutState: the time left, and since when it has been running.
Timer == [left : Nat \cup {Never}, since : Nat \cup {None}]

Entry == [draft : Draft, delivery : {"pending", "visible"},
          timer : Timer, nonce : Nat \cup {None}]

SchedulerLimits == [maxPending : Nat \ {0}, maxVisible : Nat \ {0}]

Partial(f, D, R) == DOMAIN f \subseteq D /\ f \in [DOMAIN f -> R]

\* The fields of LiveScheduler.  `revised`, `contentRevised` and `panicked` are
\* about the last method: did it bump `revision`, did it bump
\* `content_revision`, did its `.expect` in enforce_pending_limit fail.
Fields == {"limits", "entries", "closed", "closedAs", "liveKeys", "pending",
           "toasts", "attention", "available", "nextSequence", "nextNonce",
           "lastNow", "revised", "contentRevised", "panicked"}

IsState(s) ==
  /\ DOMAIN s = Fields
  /\ s.limits \in SchedulerLimits
  /\ Partial(s.entries, Ids, Entry)
  /\ Partial(s.closed, Ids, Nat)
  /\ s.closedAs \in [DOMAIN s.closed -> Reasons]
  /\ s.liveKeys \in [Keys -> Ids \cup {None}]
  /\ Partial(s.pending, Ids, Nat)
  /\ Partial(s.toasts, Ids, Nat)
  /\ s.attention \in Ids \cup {None}
  /\ {s.available, s.revised, s.contentRevised, s.panicked} \subseteq BOOLEAN
  /\ {s.nextSequence, s.nextNonce, s.lastNow} \subseteq Nat

NewScheduler(limits, now) ==
  [limits |-> limits, entries |-> EmptyLine, closed |-> EmptyLine,
   closedAs |-> EmptyLine, liveKeys |-> [k \in Keys |-> None],
   pending |-> EmptyLine, toasts |-> EmptyLine, attention |-> None,
   available |-> FALSE, nextSequence |-> 0, nextNonce |-> 0,
   revised |-> FALSE, contentRevised |-> FALSE, panicked |-> FALSE,
   lastNow |-> now]

Live(s)    == DOMAIN s.entries
Pending(s) == DOMAIN s.pending
Toasts(s)  == DOMAIN s.toasts
Closed(s)  == DOMAIN s.closed

OfKind(s, kind) == {i \in Live(s) : s.entries[i].draft.pres = kind}
Unpinned(s)     == {i \in Live(s) : s.entries[i].nonce = None}

\* Fault: no room for the Attention.
CapacityWithoutAttention(limits) == limits.maxPending + limits.maxVisible

ClosedCapacity(limits) == limits.maxPending + limits.maxVisible + 1

\* display_plan: what should be on the screen.
Shown(s) ==
  IF ~s.available THEN {}
  ELSE IF s.attention # None THEN {s.attention} ELSE Toasts(s)

BumpRevision(s) == [s EXCEPT !.revised = TRUE]

\* Fault: content changes bump only `revision`.
BumpPlanOnly(s) == BumpRevision(s)

BumpContentRevision(s) == [s EXCEPT !.revised = TRUE, !.contentRevised = TRUE]

-----------------------------------------------------------------------------
(* Timers.                                                                 *)

Restart(timeout, now, running) ==
  [left  |-> timeout,
   since |-> IF running /\ timeout # Never THEN now ELSE None]

\* saturating_sub of the time since the timer started.
LeftAfter(t, now) ==
  IF now - t.since < t.left THEN t.left - (now - t.since) ELSE 0

\* Fault: the elapsed time is not subtracted.
StopForgetsElapsed(t, now, running) ==
  IF t.left = Never \/ (t.since # None) = running THEN t
  ELSE [t EXCEPT !.since = IF running THEN now ELSE None]

\* set_running: a timer that stops keeps what is left of it.
SetRunning(t, now, running) ==
  IF t.left = Never \/ (t.since # None) = running THEN t
  ELSE IF running THEN [t EXCEPT !.since = now]
  ELSE [left |-> LeftAfter(t, now), since |-> None]

Expired(t, now) ==
  t.left # Never /\ t.since # None /\ now - t.since >= t.left

ToastTimerShouldRun(s, i) ==
  s.available /\ s.attention = None /\ i \in Toasts(s)

-----------------------------------------------------------------------------
(* The private helpers.                                                    *)

\* A close takes the key of its Notification out of live_keys.
ForgetKeys(s, ids) ==
  [k \in Keys |-> IF \E i \in ids : s.entries[i].draft.key = k
                  THEN None ELSE s.liveKeys[k]]

\* close_inner for every id of the line `batch`, in that order: each close
\* drops the oldest record of a `closed` that is full.
CloseInner(s, batch, reason) ==
  LET ids    == DOMAIN batch
      all    == Join(s.closed, batch)
      room   == ClosedCapacity(s.limits)
      closed == IF Cardinality(Closed(s)) > room THEN all
                ELSE Retain(all, LastOf(all, DOMAIN all, room))
  IN  [s EXCEPT
         !.entries   = Restrict(s.entries, Live(s) \ ids),
         !.liveKeys  = ForgetKeys(s, ids),
         !.pending   = Retain(s.pending, Pending(s) \ ids),
         !.toasts    = Retain(s.toasts, Toasts(s) \ ids),
         !.attention = IF s.attention \in ids THEN None ELSE s.attention,
         !.closed    = closed,
         !.closedAs  = [i \in DOMAIN closed |->
                          IF i \in ids THEN reason ELSE s.closedAs[i]],
         !.revised        = s.revised \/ ids # {},
         !.contentRevised = s.contentRevised \/ ids # {}]

CloseOne(s, i, reason) == CloseInner(s, [j \in {i} |-> 1], reason)

\* sort_pending: highest priority first, then oldest first.
ServedBefore(s) ==
  {pair \in Live(s) \X Live(s) :
     LET p == s.entries[pair[1]].draft.prio
         q == s.entries[pair[2]].draft.prio
     IN  p > q \/ (p = q /\ pair[1] < pair[2])}

\* Fault: the queue is left in arrival order.
Unsorted(s) == s

SortPending(s) == [s EXCEPT !.pending = Sorted(Pending(s), ServedBefore(s))]

\* rebalance, first part: the free Attention and Toast places are given to
\* pending Notifications, front of the queue first.
NextAttention(s) ==
  IF s.available /\ s.attention = None
  THEN FirstOf(s.pending, OfKind(s, "attention"), 1) ELSE {}

\* Fault: `if` in place of `while`.
OneToast(s, gate) ==
  IF s.available /\ s.attention = None /\ gate = {}
     /\ Cardinality(Toasts(s)) < s.limits.maxVisible
  THEN FirstOf(s.pending, OfKind(s, "toast"), 1) ELSE {}

NextToasts(s, gate) ==
  IF s.available /\ s.attention = None /\ gate = {}
  THEN FirstOf(s.pending, OfKind(s, "toast"),
               s.limits.maxVisible - Cardinality(Toasts(s)))
  ELSE {}

\* A promoted Toast goes behind those already active.
Active(s, ids) == Join(s.toasts, Retain(s.pending, ids))

Promote(s) ==
  LET gate   == NextAttention(s)
      next   == IF gate = {} THEN s.attention ELSE CHOOSE i \in gate : TRUE
      toasts == NextToasts(s, gate)
  IN  [s EXCEPT
         !.attention = next,
         !.toasts    = Active(s, toasts),
         !.pending   = Retain(s.pending, Pending(s) \ ({next} \cup toasts))]

\* Fault: only the Attention is marked.
DeliveryOfGate(s, i) ==
  IF i = s.attention THEN "visible" ELSE s.entries[i].delivery

Delivery(s, i) ==
  IF i \in Shown(s) THEN "visible" ELSE s.entries[i].delivery

\* ... second part: what is shown becomes Visible, and the timer of a shown
\* Toast without a jump under way runs, that of any other active Toast stops.
Present(s, now) ==
  [s EXCEPT !.entries = [i \in Live(s) |->
     [s.entries[i] EXCEPT
        !.delivery = Delivery(s, i),
        !.timer    = IF i \in Toasts(s)
                     THEN SetRunning(@, now, ToastTimerShouldRun(s, i)
                                             /\ s.entries[i].nonce = None)
                     ELSE @]]]

Rebalance(s, now) == Present(Promote(s), now)

\* prepare_time, which every method runs first.  `revised`, `contentRevised`
\* and `panicked` are about the method in progress, so they start here.
PrepareTime(s, now) ==
  LET begun   == [s EXCEPT !.lastNow = now, !.revised = FALSE,
                           !.contentRevised = FALSE, !.panicked = FALSE]
      expired == {i \in Toasts(s) : Expired(s.entries[i].timer, now)}
  IN  Rebalance(CloseInner(begun, Retain(s.toasts, expired), "TimedOut"), now)

\* Fault: a jump does not pin.
LosersWithPins(s, excess) == LastOf(s.pending, Pending(s), excess)

Losers(s, excess) == LastOf(s.pending, Unpinned(s), excess)

\* enforce_pending_limit: the worst pending Notifications that no jump pins
\* are closed, the last one first; its `.expect` fails when there are too few.
EnforcePendingLimit(s) ==
  LET excess == Cardinality(Pending(s)) - s.limits.maxPending
      batch  == Reversed(Retain(s.pending, Losers(s, excess)))
  IN  [CloseInner(s, batch, "RenderSuppressed") EXCEPT
         !.panicked = Cardinality(Pending(s) \cap Unpinned(s)) < excess]

-----------------------------------------------------------------------------
(* The public methods.                                                     *)

\* submit, when the draft's key names no live Notification.
Insert(s, d, now) ==
  LET id    == s.nextSequence
      entry == [draft |-> d, delivery |-> "pending",
                timer |-> [left |-> d.timeout, since |-> None],
                nonce |-> None]
      added == [s EXCEPT
                  !.entries  = [i \in Live(s) \cup {id} |->
                                  IF i = id THEN entry ELSE s.entries[i]],
                  !.liveKeys = [k \in Keys |->
                                  IF k = d.key THEN id ELSE s.liveKeys[k]],
                  !.pending  = Push(s.pending, id),
                  !.nextSequence = id + 1]
      done  == EnforcePendingLimit(Rebalance(SortPending(added), now))
  IN  IF done.panicked THEN done ELSE BumpContentRevision(done)

\* Fault: active_toasts is not cleaned.
RequeueKeepsToast(s, i) ==
  [s EXCEPT !.pending   = Push(Retain(s.pending, Pending(s) \ {i}), i),
            !.attention = IF @ = i THEN None ELSE @]

Requeue(s, i) ==
  [s EXCEPT !.pending   = Push(Retain(s.pending, Pending(s) \ {i}), i),
            !.toasts    = Retain(s.toasts, Toasts(s) \ {i}),
            !.attention = IF @ = i THEN None ELSE @]

\* submit, when it does: new content restarts the timeout, and a change of
\* Presentation sends the Notification back to the queue.
Replace(s, i, d, now) ==
  LET changed ==
        [s EXCEPT !.entries[i].draft = d,
                  !.entries[i].timer =
                     Restart(d.timeout, now, ToastTimerShouldRun(s, i))]
      queued ==
        IF d.pres = s.entries[i].draft.pres THEN changed ELSE Requeue(changed, i)
  IN  BumpContentRevision(Rebalance(SortPending(queued), now))

Submit(s0, d, now) ==
  LET s == PrepareTime(s0, now)
      i == IF d.key = None THEN None ELSE s.liveKeys[d.key]
  IN  IF i = None THEN Insert(s, d, now)
      ELSE IF s.entries[i].draft = d THEN s
      ELSE Replace(s, i, d, now)

\* Fault: the timeout of an Attention changes too.
TimeoutForAnyKind(d, u) ==
  [d EXCEPT !.prio    = IF u.prio = None THEN @ ELSE u.prio,
            !.text    = IF u.text = None THEN @ ELSE u.text,
            !.timeout = IF u.timeout = None THEN @ ELSE u.timeout]

\* Notification::apply_update.
Updated(d, u) ==
  [d EXCEPT !.prio    = IF u.prio = None THEN @ ELSE u.prio,
            !.text    = IF u.text = None THEN @ ELSE u.text,
            !.timeout = IF u.timeout = None \/ d.pres # "toast" THEN @
                        ELSE u.timeout]

\* update and update_by_key: a target that is not live is an error after
\* prepare_time, an update that changes nothing is a no-op.
ApplyUpdate(s0, i, u, now) ==
  LET s == PrepareTime(s0, now)
      d == Updated(s.entries[i].draft, u)
  IN  IF i \notin Live(s) \/ d = s.entries[i].draft THEN s
      ELSE BumpContentRevision(SortPending(
             [s EXCEPT !.entries[i].draft = d,
                       !.entries[i].timer =
                          Restart(d.timeout, now, ToastTimerShouldRun(s, i))]))

\* close, for dismiss, dismiss_by_key, render_failed and commit_jump.
Close(s0, i, reason, now) ==
  LET s == PrepareTime(s0, now)
  IN  IF i \notin Live(s) THEN s
      ELSE Rebalance(CloseOne(s, i, reason), now)

\* shutdown closes the whole HashMap, in the order it happens to iterate.
Shutdown(s0, order, reason, now) ==
  LET s == PrepareTime(s0, now)
  IN  CloseInner(s, Retain(order, Live(s)), reason)

SetDisplayAvailable(s0, available, now) ==
  LET s == PrepareTime(s0, now)
  IN  Rebalance(IF s.available = available THEN s
                ELSE BumpRevision([s EXCEPT !.available = available]), now)

Deferred(s, limits) ==
  Toasts(s) \ FirstOf(s.toasts, Toasts(s), limits.maxVisible)

TimersStopped(s, ids, now) ==
  [i \in Live(s) |->
     IF i \in ids
     THEN [s.entries[i] EXCEPT !.timer = SetRunning(@, now, FALSE)]
     ELSE s.entries[i]]

\* update_limits: the Toasts beyond the new capacity go back to the queue with
\* their timeout stopped, and `closed` is cut to its new capacity.
UpdateLimits(s0, limits, now) ==
  LET s        == PrepareTime(s0, now)
      deferred == Deferred(s, limits)
      resized  ==
        [s EXCEPT
           !.limits  = limits,
           !.toasts  = Retain(s.toasts, Toasts(s) \ deferred),
           !.pending = Join(s.pending, Retain(s.toasts, deferred)),
           !.entries = TimersStopped(s, deferred, now)]
      full     == EnforcePendingLimit(Rebalance(SortPending(resized), now))
      kept     == LastOf(full.closed, Closed(full), ClosedCapacity(limits))
  IN  IF s.limits = limits THEN s
      ELSE IF full.panicked THEN full
      ELSE BumpContentRevision(
             [full EXCEPT !.closed   = Retain(full.closed, kept),
                          !.closedAs = Restrict(full.closedAs, kept)])

\* advance.
Advance(s, now) == PrepareTime(s, now)

\* begin_jump and begin_jump_by_key: refused when the target is not live, has
\* no Source Pane, or has a jump under way.
JumpAllowed(s, i) ==
  i \in Live(s) /\ s.entries[i].nonce = None /\ s.entries[i].draft.source

BeginJump(s0, i, now) ==
  LET s == PrepareTime(s0, now)
  IN  IF ~JumpAllowed(s, i) THEN s
      ELSE [s EXCEPT
              !.nextNonce = s.nextNonce + 1,
              !.entries[i].nonce = s.nextNonce,
              !.entries[i].timer = IF ToastTimerShouldRun(s, i)
                                   THEN SetRunning(@, now, FALSE) ELSE @]

\* Fault: only a shown Notification can finish its jump.
IntentOnScreen(s, intent) ==
  /\ intent.id \in Live(s) \ Pending(s)
  /\ s.entries[intent.id].nonce = intent.nonce

\* A JumpIntent is good while the entry still carries its nonce.
IntentValid(s, intent) ==
  intent.id \in Live(s) /\ s.entries[intent.id].nonce = intent.nonce

\* cancel_jump looks at the intent after prepare_time, commit_jump before it.
CancelJump(s0, intent, now) ==
  LET s == PrepareTime(s0, now)
  IN  IF ~IntentValid(s, intent) THEN s
      ELSE [s EXCEPT
              !.entries[intent.id].nonce = None,
              !.entries[intent.id].timer =
                 IF ToastTimerShouldRun(s, intent.id)
                 THEN SetRunning(@, now, TRUE) ELSE @]

CommitJump(s, intent, now) ==
  IF IntentValid(s, intent) THEN Close(s, intent.id, "Jumped", now) ELSE s

DrainClosed(s) == [s EXCEPT !.closed = EmptyLine, !.closedAs = EmptyLine]

-----------------------------------------------------------------------------
(* What every method leaves true of the state, stated of one state so that *)
(* each method can be shown to keep it.                                    *)

\* Live Notifications are exactly those in a queue or on a place, each once.
Scheduled(s) ==
  LET gate == {s.attention} \ {None}
  IN  /\ Live(s) = Pending(s) \cup Toasts(s) \cup gate
      /\ Pending(s) \cap Toasts(s) = {}
      /\ Pending(s) \cap gate = {}
      /\ Toasts(s) \subseteq OfKind(s, "toast")
      /\ gate \subseteq OfKind(s, "attention")
      /\ Live(s) \cap Closed(s) = {}

\* live_keys is the index of the keys of live Notifications.
KeysIndexed(s) ==
  /\ \A i \in Live(s) :
       LET k == s.entries[i].draft.key IN k # None => s.liveKeys[k] = i
  /\ \A k \in Keys : LET i == s.liveKeys[k] IN
       i # None => i \in Live(s) /\ s.entries[i].draft.key = k
=============================================================================
