------------------------ MODULE LiveSchedulerProofs ------------------------
(***************************************************************************)
(* The type invariant, the lifecycle bookkeeping, the key index and the    *)
(* ownership of jump pins hold in every behaviour of LiveScheduler, for    *)
(* any drafts, updates, limits and bounds; and LiveScheduler implements    *)
(* Lifecycle: each method takes every Notification forward, and leaves     *)
(* what it puts on the screen marked Visible.  With the order of the       *)
(* queues and the count of the timers as further parts of the invariant,   *)
(* so do places, revisions, ranks, records and timeouts.                   *)
(***************************************************************************)
EXTENDS LiveScheduler, SchedulerTheorems

HistoryType == shownFor \in [Ids -> [total : Nat, pinned : Nat]]
IntentType  == intents \subseteq [id : Ids, nonce : Nat]

\* The inductive invariant.
IInv == Sound(sched) /\ IntentType /\ HistoryType /\ PinHasHolder

\* A method was called at a time the scheduler's clock had reached.
ClockAdvances == sched'.lastNow \in Nat /\ sched.lastNow <= sched'.lastNow

\* The initial state satisfies the invariant.
LEMMA InitIInv == Init => IInv
<1> SUFFICES ASSUME Init PROVE IInv
  OBVIOUS
<1>1. PICK limits \in LimitsSet : sched = NewScheduler(limits, 0)
  BY DEF Init
<1>2. Sound(sched) /\ Live(sched) = {}
  BY <1>1, NewSchedulerSound, CallerConstants
<1> QED BY <1>2 DEF Init, IInv, IntentType, HistoryType, PinHasHolder

\* The history counts time that passed, so its type survives every step.
LEMMA HistoryTyped ==
  ASSUME HistoryType, sched.lastNow \in Nat, ClockAdvances, RecordShown
  PROVE  HistoryType'
<1>1. \A i \in Ids : ShownNow(i) \in Nat
  BY DEF ShownNow, ClockAdvances
<1>2. \A i \in Ids : shownFor[i].total \in Nat /\ shownFor[i].pinned \in Nat
  BY DEF HistoryType
<1>3. ASSUME NEW i \in Ids
      PROVE  (IF ~SameContent(i) THEN [total |-> 0, pinned |-> 0]
              ELSE [total  |-> shownFor[i].total + ShownNow(i),
                    pinned |-> shownFor[i].pinned +
                               IF sched.entries[i].nonce = None THEN 0
                               ELSE ShownNow(i)]) \in [total : Nat, pinned : Nat]
  <2> DEFINE more == IF sched.entries[i].nonce = None THEN 0 ELSE ShownNow(i)
  <2>1. more \in Nat
    BY <1>1
  <2> HIDE DEF more
  <2>2. [total  |-> shownFor[i].total + ShownNow(i),
         pinned |-> shownFor[i].pinned + more] \in [total : Nat, pinned : Nat]
    BY <1>1, <1>2, <2>1
  <2> QED BY <2>2 DEF more
<1> QED BY <1>3 DEF HistoryType, RecordShown

\* A method that adds no pin, with the intents unchanged, keeps every pin held.
LEMMA PinsStayHeld ==
  ASSUME PinHasHolder, NoNewPin(sched, sched'), UNCHANGED intents
  PROVE  PinHasHolder'
BY DEF PinHasHolder, NoNewPin

\* Every call keeps the invariant, and moves the clock forward.
LEMMA CallKeepsIInv ==
  ASSUME IInv, NEW now \in sched.lastNow .. MaxTime, Calls(now)
  PROVE  Sound(sched') /\ IntentType' /\ PinHasHolder' /\ ClockAdvances
<1> DEFINE Goal == Sound(sched') /\ IntentType' /\ PinHasHolder' /\ ClockAdvances
<1>1. /\ Sound(sched) /\ IntentType /\ PinHasHolder /\ sched.lastNow \in Nat
      /\ now \in Nat /\ sched.lastNow <= now /\ Live(sched) \subseteq Ids
  BY MembersAreIds, CallerConstants DEF IInv, Sound, IsState
<1>2. ASSUME Sound(sched'), sched'.lastNow \in {sched.lastNow, now},
             NoNewPin(sched, sched'), UNCHANGED intents
      PROVE  Goal
  BY <1>1, <1>2, PinsStayHeld DEF IntentType, ClockAdvances
<1>3. ASSUME NEW d \in Drafts, Send(d, now) PROVE Goal
  <2>1. d \in Draft
    BY CallerConstants
  <2> QED BY <1>1, <1>2, <1>3, <2>1, SubmitSound DEF Send
<1>4. ASSUME NEW i \in Live(sched), NEW u \in Updates, Amend(i, u, now) PROVE Goal
  <2>1. u \in Update
    BY CallerConstants
  <2> QED BY <1>1, <1>2, <1>4, <2>1, ApplyUpdateSound DEF Amend
<1>5. ASSUME NEW i \in Live(sched), NEW reason \in CloseReasons,
             CloseRequest(i, reason, now)
      PROVE Goal
  <2>1. reason \in Reasons
    BY CallerConstants DEF Reasons
  <2> QED BY <1>1, <1>2, <1>5, <2>1, CloseSound DEF CloseRequest
<1>6. ASSUME NEW available \in BOOLEAN, DisplayChange(available, now) PROVE Goal
  BY <1>1, <1>2, <1>6, SetDisplayAvailableSound DEF DisplayChange
<1>7. ASSUME NEW limits \in LimitsSet, Reconfigure(limits, now) PROVE Goal
  <2>1. limits \in SchedulerLimits
    BY CallerConstants
  <2> QED BY <1>1, <1>2, <1>7, <2>1, UpdateLimitsSound DEF Reconfigure
<1>8. ASSUME Tick(now) PROVE Goal
  BY <1>1, <1>2, <1>8, AdvanceSound DEF Tick
<1>9. ASSUME NEW order \in Bijection(Live(sched), 1 .. Cardinality(Live(sched))),
             Stop(order, now)
      PROVE Goal
  <2>1. DOMAIN order = Live(sched)
    BY DEF Bijection, Injection
  <2>2. "DaemonStopped" \in Reasons
    BY DEF Reasons
  <2> QED BY <1>1, <1>2, <1>9, <2>1, <2>2, ShutdownSound DEF Stop
<1>10. ASSUME NEW i \in Live(sched), StartJump(i, now) PROVE Goal
  <2>1. /\ Sound(sched') /\ sched'.lastNow = now
        /\ \A j \in Live(sched') : sched'.entries[j].nonce # None =>
             \/ j \in Live(sched) /\ sched.entries[j].nonce = sched'.entries[j].nonce
             \/ /\ j = i /\ sched'.entries[j].nonce = sched.nextNonce
                /\ sched'.nextNonce # sched.nextNonce
    BY <1>1, <1>10, BeginJumpSound DEF StartJump
  <2>2. sched.nextNonce \in Nat
    BY <1>1 DEF Sound, IsState
  <2>3. intents' = IF sched'.nextNonce = sched.nextNonce THEN intents
                   ELSE intents \cup {[id |-> i, nonce |-> sched.nextNonce]}
    BY <1>10 DEF StartJump
  <2>4. IntentType'
    BY <1>1, <2>2, <2>3 DEF IntentType
  <2>5. PinHasHolder'
    BY <1>1, <2>1, <2>3 DEF PinHasHolder
  <2> QED BY <1>1, <2>1, <2>4, <2>5 DEF ClockAdvances
<1>11. ASSUME NEW intent \in intents, intents' = intents \ {intent},
              Sound(sched'), sched'.lastNow \in {sched.lastNow, now},
              NoNewPin(sched, sched'), ~IntentPinned(sched', intent)
       PROVE  Goal
  <2>1. IntentType' /\ ClockAdvances
    BY <1>1, <1>11 DEF IntentType, ClockAdvances
  <2>2. PinHasHolder'
    <3> SUFFICES ASSUME NEW j \in Live(sched'), sched'.entries[j].nonce # None
                 PROVE  [id |-> j, nonce |-> sched'.entries[j].nonce] \in intents'
      BY DEF PinHasHolder
    <3>1. [id |-> j, nonce |-> sched'.entries[j].nonce] \in intents
      BY <1>1, <1>11 DEF PinHasHolder, NoNewPin
    <3>2. [id |-> j, nonce |-> sched'.entries[j].nonce] # intent
      BY <1>11 DEF IntentPinned
    <3> QED BY <1>11, <3>1, <3>2
  <2> QED BY <1>11, <2>1, <2>2
<1>12. ASSUME NEW intent \in intents, JumpFailed(intent, now) PROVE Goal
  BY <1>1, <1>11, <1>12, CancelJumpSound DEF JumpFailed
<1>13. ASSUME NEW intent \in intents, JumpSucceeded(intent, now) PROVE Goal
  BY <1>1, <1>11, <1>13, CommitJumpSound DEF JumpSucceeded
<1> QED BY <1>3, <1>4, <1>5, <1>6, <1>7, <1>8, <1>9, <1>10, <1>12, <1>13 DEF Calls

\* Every step keeps the invariant.
LEMMA NextIInv == IInv /\ [Next]_vars => IInv'
<1> SUFFICES ASSUME IInv, [Next]_vars PROVE IInv'
  OBVIOUS
<1>1. sched.lastNow \in Nat /\ Sound(sched) /\ HistoryType
  BY DEF IInv, Sound, IsState
<1>2. CASE UNCHANGED vars
  BY <1>2 DEF IInv, vars, IntentType, HistoryType, PinHasHolder
<1>3. CASE Drain /\ RecordShown
  <2>1. /\ Sound(sched') /\ sched'.lastNow = sched.lastNow
        /\ NoNewPin(sched, sched') /\ UNCHANGED intents
    BY <1>1, <1>3, DrainClosedSound DEF Drain
  <2>2. PinHasHolder' /\ IntentType' /\ ClockAdvances
    BY <1>1, <2>1, PinsStayHeld DEF IInv, IntentType, ClockAdvances
  <2> QED BY <1>1, <1>3, <2>1, <2>2, HistoryTyped DEF IInv
<1>4. ASSUME NEW now \in sched.lastNow .. MaxTime, Calls(now), RecordShown
      PROVE  IInv'
  <2>1. Sound(sched') /\ IntentType' /\ PinHasHolder' /\ ClockAdvances
    BY <1>4, CallKeepsIInv
  <2> QED BY <1>1, <1>4, <2>1, HistoryTyped DEF IInv
<1> QED BY <1>2, <1>3, <1>4 DEF Next

\* The invariant holds throughout.
LEMMA AlwaysIInv == Spec => []IInv
BY InitIInv, NextIInv, PTL DEF Spec

\* Every field of the scheduler, of the intents and of the history keeps its
\* type, whatever the callers do.
THEOREM TypeCorrect == Spec => []TypeOK
<1>1. IInv => TypeOK
  BY DEF IInv, TypeOK, Sound, IntentType, HistoryType
<1> QED BY <1>1, AlwaysIInv, PTL

\* The live Notifications are at all times exactly those in `pending`, in
\* `active_toasts` and in `active_attention`, each in one of them.
THEOREM LifecycleExact == Spec => []LiveIsScheduled
<1>1. IInv => LiveIsScheduled
  BY DEF IInv, LiveIsScheduled, Sound
<1> QED BY <1>1, AlwaysIInv, PTL

\* `live_keys` is at all times exactly the index of the live Keys.
THEOREM KeyIndexCorrect == Spec => []KeyIndexExact
<1>1. IInv => KeyIndexExact
  BY DEF IInv, KeyIndexExact, Sound
<1> QED BY <1>1, AlwaysIInv, PTL

\* Both, as the collections and the key index of one scheduler: no lookup of
\* an id in `entries` fails and no key leads to a closed Notification.
THEOREM IndexesStayExact == Spec => []IndexesExact
<1>1. IndexesExact <=> LiveIsScheduled /\ KeyIndexExact
  BY DEF IndexesExact
<1> QED BY <1>1, LifecycleExact, KeyIndexCorrect, PTL

\* Every jump pin has the intent that will cancel or commit it: no Notification
\* is left unable to jump, or to be suppressed, by a jump nobody holds.
THEOREM PinsAreHeld == Spec => []PinHasHolder
<1>1. IInv => PinHasHolder
  BY DEF IInv
<1> QED BY <1>1, AlwaysIInv, PTL

-----------------------------------------------------------------------------
(* The order of the queue, and the capacity of the screen.                 *)

\* Every call leaves the collections tidy.
LEMMA CallKeepsTidy ==
  ASSUME IInv, Tidy(sched), NEW now \in sched.lastNow .. MaxTime, Calls(now)
  PROVE  Tidy(sched')
<1>1. Sound(sched) /\ now \in Nat
  BY CallerConstants DEF IInv, Sound, IsState
<1>2. ASSUME NEW new, LeavesTidy(sched, new, sched') PROVE Tidy(sched')
  BY <1>2 DEF LeavesTidy
<1>3. ASSUME NEW d \in Drafts, Send(d, now) PROVE Tidy(sched')
  <2>1. d \in Draft
    BY CallerConstants
  <2> QED BY <1>1, <1>2, <1>3, <2>1, SubmitLeaves DEF Send
<1>4. ASSUME NEW i \in Live(sched), NEW u \in Updates, Amend(i, u, now)
      PROVE  Tidy(sched')
  <2>1. u \in Update
    BY CallerConstants
  <2> QED BY <1>1, <1>2, <1>4, <2>1, ApplyUpdateTends DEF Amend, Tends
<1>5. ASSUME NEW i \in Live(sched), NEW reason \in CloseReasons,
             CloseRequest(i, reason, now)
      PROVE  Tidy(sched')
  <2>1. reason \in Reasons
    BY CallerConstants DEF Reasons
  <2> QED BY <1>1, <1>2, <1>5, <2>1, CloseTends DEF CloseRequest, Tends
<1>6. ASSUME NEW available \in BOOLEAN, DisplayChange(available, now)
      PROVE  Tidy(sched')
  BY <1>1, <1>2, <1>6, SetDisplayAvailableTends DEF DisplayChange, Tends
<1>7. ASSUME NEW limits \in LimitsSet, Reconfigure(limits, now)
      PROVE  Tidy(sched')
  <2>1. limits \in SchedulerLimits
    BY CallerConstants
  <2> QED BY <1>1, <1>7, <2>1, UpdateLimitsTidy DEF Reconfigure
<1>8. ASSUME Tick(now) PROVE Tidy(sched')
  BY <1>1, <1>2, <1>8, AdvanceTends DEF Tick, Tends
<1>9. ASSUME NEW line \in Bijection(Live(sched), 1 .. Cardinality(Live(sched))),
             Stop(line, now)
      PROVE  Tidy(sched')
  <2>1. IsLine(line, Live(sched))
    BY DEF Bijection, Injection, IsInjective, IsLine
  <2>2. "DaemonStopped" \in Reasons
    BY DEF Reasons
  <2> QED BY <1>1, <1>2, <1>9, <2>1, <2>2, ShutdownTends DEF Stop, Tends
<1>10. ASSUME NEW i \in Live(sched), StartJump(i, now) PROVE Tidy(sched')
  BY <1>1, <1>2, <1>10, BeginJumpTends DEF StartJump, Tends
<1>11. ASSUME NEW intent \in intents, JumpFailed(intent, now) PROVE Tidy(sched')
  BY <1>1, <1>2, <1>11, CancelJumpTends DEF JumpFailed, Tends
<1>12. ASSUME NEW intent \in intents, JumpSucceeded(intent, now) PROVE Tidy(sched')
  BY <1>1, <1>2, <1>12, CommitJumpTends DEF JumpSucceeded, Tends
<1> QED BY <1>3, <1>4, <1>5, <1>6, <1>7, <1>8, <1>9, <1>10, <1>11, <1>12 DEF Calls

\* Every step does.
LEMMA NextTidy == IInv /\ Tidy(sched) /\ [Next]_vars => Tidy(sched')
<1> SUFFICES ASSUME IInv, Tidy(sched), [Next]_vars PROVE Tidy(sched')
  OBVIOUS
<1>1. CASE UNCHANGED vars
  BY <1>1 DEF vars
<1>2. CASE Drain
  BY <1>2, DrainClosedTidy DEF IInv, Drain
<1>3. ASSUME NEW now \in sched.lastNow .. MaxTime, Calls(now)
      PROVE  Tidy(sched')
  BY <1>3, CallKeepsTidy
<1> QED BY <1>1, <1>2, <1>3 DEF Next

\* No more Toasts are active than there is room for, also just after a reload
\* lowered the capacity, and `pending` is in the order it is served in, also
\* after an update changed a priority or a reload sent Toasts back to it.
THEOREM QueuesStayInOrder == Spec => []QueuesInOrder
<1>1. Init => Tidy(sched)
  <2> SUFFICES ASSUME Init PROVE Tidy(sched)
    OBVIOUS
  <2>1. PICK limits \in LimitsSet : sched = NewScheduler(limits, 0)
    BY DEF Init
  <2> QED BY <2>1, NewSchedulerTidy, CallerConstants
<1>2. IInv /\ Tidy(sched) /\ [Next]_vars => Tidy(sched)'
  BY NextTidy DEF Tidy, Lined, WithinScreen, InServingOrder, ServedBefore,
                  Pending, Toasts, Closed, Live
<1>3. Tidy(sched) => QueuesInOrder
  BY DEF Tidy, WithinScreen, InServingOrder, QueuesInOrder
<1> QED BY <1>1, <1>2, <1>3, AlwaysIInv, PTL DEF Spec

-----------------------------------------------------------------------------
(* The refinement of Lifecycle.                                            *)

\* No Notification appears, and none that was Visible is Pending again.
Onward(s, r) ==
  /\ Live(r) \subseteq Live(s)
  /\ \A i \in Live(r) : s.entries[i].delivery = "visible" =>
                          r.entries[i].delivery = "visible"

\* What is on the screen is live and marked Visible.
Marked(s) ==
  Shown(s) \subseteq {i \in Live(s) : s.entries[i].delivery = "visible"}

\* Going onward twice is going onward.
LEMMA OnwardChains ==
  ASSUME NEW s, NEW q, NEW r, Onward(s, q), Onward(q, r)
  PROVE  Onward(s, r)
BY DEF Onward

\* What is on the screen depends on the display, the gate and the Toasts only.
LEMMA SameScreen ==
  ASSUME NEW s, NEW r, Marked(s),
         r.available = s.available, r.attention = s.attention,
         r.toasts = s.toasts, Live(r) = Live(s),
         \A i \in Live(s) : r.entries[i].delivery = s.entries[i].delivery
  PROVE  Marked(r) /\ Onward(s, r)
<1>1. Shown(r) = Shown(s)
  BY DEF Shown, Toasts
<1> QED BY <1>1 DEF Marked, Onward

\* close_inner moves nobody, and shows nobody unless it closes the Attention.
LEMMA CloseInnerOnward ==
  ASSUME NEW s, Sound(s), NEW batch, NEW reason,
         NEW r, r = CloseInner(s, batch, reason)
  PROVE  /\ Onward(s, r)
         /\ Marked(s) /\ s.attention \notin DOMAIN batch => Marked(r)
         /\ Live(s) \subseteq DOMAIN batch => Marked(r)
<1> DEFINE D == DOMAIN batch
<1>1. /\ r.entries = [i \in Live(s) \ D |-> s.entries[i]]
      /\ r.toasts = Retain(s.toasts, Toasts(s) \ D)
      /\ r.attention = IF s.attention \in D THEN None ELSE s.attention
      /\ r.available = s.available
  BY Zenon DEF Sound, IsState, Fields, CloseInner, Restrict
<1>2. Scheduled(s)
  BY DEF Sound
<1>3. /\ Live(r) = Live(s) \ D
      /\ \A i \in Live(r) : r.entries[i] = s.entries[i]
  BY <1>1 DEF Live
<1>4. Toasts(r) = Toasts(s) \ D
  BY <1>1 DEF Toasts, Retain
<1>5. Onward(s, r)
  BY <1>3 DEF Onward
<1>6. ASSUME Marked(s), s.attention \notin D PROVE Marked(r)
  <2>1. r.attention = s.attention
    BY <1>1, <1>6
  <2>2. Shown(r) \subseteq Shown(s) \ D
    BY <1>1, <1>4, <1>6, <2>1 DEF Shown
  <2> QED BY <1>3, <1>6, <2>2 DEF Marked
<1>7. ASSUME Live(s) \subseteq D PROVE Marked(r)
  <2>1. Toasts(r) = {} /\ r.attention = None
    BY <1>1, <1>2, <1>4, <1>7 DEF Scheduled
  <2> QED BY <2>1 DEF Marked, Shown
<1> QED BY <1>5, <1>6, <1>7

\* rebalance marks everything it shows.
LEMMA RebalanceOnward ==
  ASSUME NEW s, Sound(s), NEW now \in Nat
  PROVE  Onward(s, Rebalance(s, now)) /\ Marked(Rebalance(s, now))
<1> DEFINE q == Promote(s)
<1>1. Sound(q) /\ q.entries = s.entries
  BY PromoteSound
<1>2. Rebalance(s, now) = Present(q, now)
  BY DEF Rebalance
<1> HIDE DEF q
<1> SUFFICES ASSUME NEW r, r = Present(q, now)
             PROVE  Onward(s, r) /\ Marked(r)
  BY <1>2
<1> DEFINE timer(i) == IF i \in Toasts(q)
                       THEN SetRunning(q.entries[i].timer, now,
                                       ToastTimerShouldRun(q, i)
                                         /\ q.entries[i].nonce = None)
                       ELSE q.entries[i].timer
           after == [i \in Live(q) |->
                       [q.entries[i] EXCEPT !.delivery = Delivery(q, i),
                                            !.timer = timer(i)]]
<1>3. /\ DOMAIN q = Fields /\ Scheduled(q) /\ q.entries \in [Live(q) -> Entry]
  BY <1>1, MembersAreIds DEF Sound, IsState
<1>4. r = [q EXCEPT !.entries = after]
  BY DEF Present
<1> HIDE DEF timer
<1>5. \A i \in Live(q) : after[i].delivery = Delivery(q, i)
  BY <1>3 DEF Entry
<1>6. DOMAIN after = Live(q)
  OBVIOUS
<1> HIDE DEF after
<1>7. /\ r.entries = after /\ r.available = q.available
      /\ r.attention = q.attention /\ r.toasts = q.toasts
  BY <1>3, <1>4 DEF Fields
<1>8. Live(r) = Live(q) /\ Live(q) = Live(s) /\ Shown(r) = Shown(q)
  BY <1>1, <1>6, <1>7 DEF Live, Shown, Toasts
<1>9. \A i \in Live(r) : r.entries[i].delivery = Delivery(q, i)
  BY <1>5, <1>7, <1>8
<1>10. Shown(q) \subseteq Live(q)
  BY <1>3 DEF Shown, Scheduled
<1>11. Marked(r)
  BY <1>8, <1>9, <1>10 DEF Marked, Delivery
<1>12. Onward(s, r)
  BY <1>1, <1>8, <1>9 DEF Onward, Delivery
<1> QED BY <1>11, <1>12

\* sort_pending shows and hides nobody.
LEMMA SortPendingOnward ==
  ASSUME NEW s, Sound(s)
  PROVE  /\ Onward(s, SortPending(s))
         /\ Marked(s) => Marked(SortPending(s))
<1> DEFINE r    == SortPending(s)
           line == Sorted(Pending(s), ServedBefore(s))
<1>1. DOMAIN s = Fields
  BY DEF Sound, IsState
<1>2. r = [s EXCEPT !.pending = line]
  BY DEF SortPending
<1> HIDE DEF r, line
<1>3. /\ r.entries = s.entries /\ r.available = s.available
      /\ r.attention = s.attention /\ r.toasts = s.toasts
  BY <1>1, <1>2 DEF Fields
<1>4. Live(r) = Live(s)
  BY <1>3 DEF Live
<1>5. Onward(s, r)
  BY <1>3, <1>4 DEF Onward
<1>6. Marked(s) => Marked(r)
  BY <1>3, <1>4, SameScreen
<1> QED BY <1>5, <1>6 DEF r

\* Neither does a change of the revisions.
LEMMA BumpOnward ==
  ASSUME NEW s, DOMAIN s = Fields
  PROVE  /\ Onward(s, BumpContentRevision(s))
         /\ Marked(s) => Marked(BumpContentRevision(s))
<1> DEFINE r == BumpContentRevision(s)
<1>1. /\ r.entries = s.entries /\ r.available = s.available
      /\ r.attention = s.attention /\ r.toasts = s.toasts
  BY DEF BumpContentRevision, Fields
<1>2. Live(r) = Live(s)
  BY <1>1 DEF Live
<1> HIDE DEF r
<1>3. Onward(s, r)
  BY <1>1, <1>2 DEF Onward
<1>4. Marked(s) => Marked(r)
  BY <1>1, <1>2, SameScreen
<1> QED BY <1>3, <1>4 DEF r

\* enforce_pending_limit takes nobody off the screen.
LEMMA EnforceOnward ==
  ASSUME NEW s, Sound(s)
  PROVE  /\ Onward(s, EnforcePendingLimit(s))
         /\ Marked(s) => Marked(EnforcePendingLimit(s))
<1> DEFINE excess == Cardinality(Pending(s)) - s.limits.maxPending
           line   == Retain(s.pending, Losers(s, excess))
           batch  == Reversed(line)
           c      == CloseInner(s, batch, "RenderSuppressed")
           panic  == Cardinality(Pending(s) \cap Unpinned(s)) < excess
           r      == EnforcePendingLimit(s)
<1>1. Scheduled(s)
  BY DEF Sound
<1>2. DOMAIN batch \subseteq Pending(s)
  BY DEF Retain, Reversed, Pending
<1>3. r = [c EXCEPT !.panicked = panic]
  BY DEF EnforcePendingLimit
<1>4. DOMAIN c = Fields
  BY DEF Sound, IsState, CloseInner, Fields
<1> HIDE DEF batch, panic, r
<1>5. s.attention \notin DOMAIN batch \/ s.attention = None
  BY <1>1, <1>2 DEF Scheduled
<1>6. s.attention \notin DOMAIN batch
  <2>1. None \notin Ids /\ Pending(s) \subseteq Ids
    BY IdsFinite, MembersAreIds DEF Sound
  <2> QED BY <1>2, <1>5, <2>1
<1>7. Onward(s, c) /\ (Marked(s) => Marked(c))
  <2> HIDE DEF c
  <2>1. c = CloseInner(s, batch, "RenderSuppressed")
    BY DEF c
  <2> QED BY <1>6, <2>1, CloseInnerOnward
<1> HIDE DEF c
<1>8. /\ r.entries = c.entries /\ r.available = c.available
      /\ r.attention = c.attention /\ r.toasts = c.toasts
  BY <1>3, <1>4 DEF Fields
<1>9. Live(r) = Live(c)
  BY <1>8 DEF Live
<1>10. Onward(s, r)
  BY <1>7, <1>8, <1>9 DEF Onward
<1>11. Marked(s) => Marked(r)
  BY <1>7, <1>8, <1>9, SameScreen
<1> QED BY <1>10, <1>11 DEF r

\* prepare_time, with which every method begins, ends in a rebalance.
LEMMA PrepareTimeOnward ==
  ASSUME NEW s, Sound(s), NEW now \in Nat
  PROVE  Onward(s, PrepareTime(s, now)) /\ Marked(PrepareTime(s, now))
<1> DEFINE begun   == [s EXCEPT !.lastNow = now, !.revised = FALSE,
                                !.contentRevised = FALSE, !.panicked = FALSE]
           expired == {i \in Toasts(s) : Expired(s.entries[i].timer, now)}
           batch   == Retain(s.toasts, expired)
           closed  == CloseInner(begun, batch, "TimedOut")
<1>1. IsState(s) /\ Scheduled(s) /\ s.entries \in [Live(s) -> Entry]
      /\ Toasts(s) \subseteq Ids
  BY MembersAreIds DEF Sound
<1>2. /\ DOMAIN begun = Fields /\ begun.lastNow = now
      /\ begun.revised = FALSE /\ begun.contentRevised = FALSE
      /\ begun.panicked = FALSE
      /\ begun.entries = s.entries /\ begun.closed = s.closed
      /\ begun.closedAs = s.closedAs /\ begun.liveKeys = s.liveKeys
      /\ begun.pending = s.pending /\ begun.toasts = s.toasts
      /\ begun.attention = s.attention /\ begun.limits = s.limits
      /\ begun.available = s.available
      /\ begun.nextSequence = s.nextSequence /\ begun.nextNonce = s.nextNonce
  BY <1>1 DEF IsState, Fields
<1>3. PrepareTime(s, now) = Rebalance(closed, now)
  BY DEF PrepareTime
<1> HIDE DEF begun
<1>4. Sound(begun) /\ Live(begun) = Live(s)
  <2>1. /\ begun.limits \in SchedulerLimits /\ begun.available \in BOOLEAN
        /\ begun.nextNonce \in Nat /\ begun.lastNow \in Nat
    BY <1>1, <1>2 DEF IsState
  <2> QED BY <1>1, <1>2, <2>1, SoundCarries
<1>5. Onward(s, begun)
  BY <1>2, <1>4 DEF Onward
<1>6. batch \in [DOMAIN batch -> Nat] /\ DOMAIN batch \subseteq Live(begun)
  <2>1. batch \in [expired \cap Toasts(s) -> Nat]
    BY <1>1, IdsFinite, RetainType DEF Toasts
  <2>2. expired \cap Toasts(s) \subseteq Live(s)
    BY <1>1 DEF Scheduled
  <2> QED BY <1>4, <2>1, <2>2
<1> HIDE DEF batch
<1>7. Sound(closed)
  BY <1>4, <1>6, CloseInnerSound DEF Reasons
<1>8. Onward(begun, closed)
  <2> HIDE DEF closed
  <2>1. closed = CloseInner(begun, batch, "TimedOut")
    BY DEF closed
  <2> QED BY <1>4, <2>1, CloseInnerOnward
<1> HIDE DEF closed
<1>9. /\ Onward(closed, Rebalance(closed, now))
      /\ Marked(Rebalance(closed, now))
  BY <1>7, RebalanceOnward
<1> QED BY <1>3, <1>5, <1>8, <1>9, OnwardChains

-----------------------------------------------------------------------------
(* The methods.                                                            *)

\* What a method may do: accept one Notification, and take the others onward.
Forward(s, r) ==
  /\ Marked(r)
  /\ r.nextSequence \in {s.nextSequence, s.nextSequence + 1}
  /\ Live(r) \subseteq Live(s) \cup {s.nextSequence}
  /\ \A i \in Live(r) \cap Live(s) :
       s.entries[i].delivery = "visible" => r.entries[i].delivery = "visible"

LEMMA OnwardIsForward ==
  ASSUME NEW s, NEW r, Onward(s, r), Marked(r), r.nextSequence = s.nextSequence
  PROVE  Forward(s, r)
BY DEF Onward, Forward

\* The next id is not live yet.
LEMMA NextIsFree ==
  ASSUME NEW s, Sound(s)
  PROVE  s.nextSequence \notin Live(s)
<1>1. s.nextSequence \in Nat /\ \A i \in Live(s) : i < s.nextSequence
  BY DEF Sound, IsState, Numbered
<1> QED BY <1>1

\* What follows prepare_time decides.
LEMMA ForwardAfterPrepare ==
  ASSUME NEW s, Sound(s), NEW now \in Nat, NEW r,
         Forward(PrepareTime(s, now), r)
  PROVE  Forward(s, r)
<1> DEFINE p == PrepareTime(s, now)
<1>1. Onward(s, p) /\ p.nextSequence = s.nextSequence
  BY PrepareTimeOnward, PrepareTimeSound
<1> HIDE DEF p
<1>2. Forward(p, r)
  BY DEF p
<1> QED BY <1>1, <1>2, NextIsFree DEF Onward, Forward

\* advance, and every method that ends after prepare_time.
LEMMA PrepareTimeForward ==
  ASSUME NEW s, Sound(s), NEW now \in Nat
  PROVE  Forward(s, PrepareTime(s, now))
BY PrepareTimeOnward, PrepareTimeSound, OnwardIsForward

\* submit without a live key: the new Notification is live, and waits or is shown.
LEMMA InsertForward ==
  ASSUME NEW s, Sound(s), NEW d \in Draft, NEW now \in Nat,
         d.key # None => s.liveKeys[d.key] = None,
         Insert(s, d, now).nextSequence <= MaxSubmits
  PROVE  Forward(s, Insert(s, d, now))
<1> DEFINE added  == Inserted(s, d)
           sorted == SortPending(added)
           placed == Rebalance(sorted, now)
           done   == EnforcePendingLimit(placed)
           r      == Insert(s, d, now)
<1>1. Sound(added)
  BY InsertSound
<1>2. r = IF done.panicked THEN done ELSE BumpContentRevision(done)
  BY DEF Insert, Inserted
<1>3. /\ added.nextSequence = s.nextSequence + 1
      /\ Live(added) = Live(s) \cup {s.nextSequence}
      /\ \A i \in Live(s) : i # s.nextSequence => added.entries[i] = s.entries[i]
  <2>1. DOMAIN s = Fields
    BY DEF Sound, IsState
  <2> QED BY <2>1 DEF Inserted, Fields, Live
<1> HIDE DEF added, r
<1>4. Sound(sorted) /\ SameFrame(added, sorted) /\ Onward(added, sorted)
  BY <1>1, SortPendingSound, SortPendingOnward
<1> HIDE DEF sorted
<1>5. /\ Sound(placed) /\ SameFrame(sorted, placed)
      /\ Onward(sorted, placed) /\ Marked(placed)
  BY <1>4, RebalanceSound, RebalanceOnward
<1> HIDE DEF placed
<1>6. /\ Sound(done) /\ SameFrame(placed, done)
      /\ Onward(placed, done) /\ Marked(done)
  BY <1>5, EnforcePendingLimitSound, EnforceOnward
<1> HIDE DEF done
<1>7. SameFrame(done, r) /\ Onward(done, r) /\ Marked(r)
  <2>1. DOMAIN done = Fields
    BY <1>6 DEF Sound, IsState
  <2>2. CASE r = done
    BY <1>6, <2>2 DEF SameFrame, Onward
  <2>3. CASE r = BumpContentRevision(done)
    BY <1>6, <2>1, <2>3, BumpSound, BumpOnward
  <2> QED BY <1>2, <2>2, <2>3
<1>8. Onward(added, r) /\ r.nextSequence = added.nextSequence
  BY <1>4, <1>5, <1>6, <1>7 DEF Onward, SameFrame
<1>9. s.nextSequence \notin Live(s)
  BY NextIsFree
<1>10. Forward(s, r)
  <2>1. /\ Live(r) \subseteq Live(s) \cup {s.nextSequence}
        /\ r.nextSequence = s.nextSequence + 1
    BY <1>3, <1>8 DEF Onward
  <2>2. ASSUME NEW i \in Live(r) \cap Live(s), s.entries[i].delivery = "visible"
        PROVE  r.entries[i].delivery = "visible"
    <3>1. added.entries[i] = s.entries[i]
      BY <1>3, <1>9
    <3> QED BY <1>8, <2>2, <3>1 DEF Onward
  <2> QED BY <1>7, <2>1, <2>2 DEF Forward
<1> QED BY <1>10 DEF r

\* submit for a live key: a Presentation that changes sends the Notification back
\* to the queue, where it stays marked as it was.
LEMMA ReplaceForward ==
  ASSUME NEW s, Sound(s), NEW i \in Live(s), NEW d \in Draft, NEW now \in Nat,
         d.key = s.entries[i].draft.key
  PROVE  Forward(s, Replace(s, i, d, now))
<1> DEFINE t       == Restart(d.timeout, now, ToastTimerShouldRun(s, i))
           changed == Rewritten(s, i, d, t)
           queued  == Queued(s, i, d, now)
           sorted  == SortPending(queued)
           placed  == Rebalance(sorted, now)
           r       == Replace(s, i, d, now)
<1>1. Sound(queued) /\ SameFrame(s, r)
  BY ReplaceSound
<1>2. r = BumpContentRevision(placed)
  BY DEF Replace, Queued, Rewritten
<1>3. Onward(s, queued)
  <2>1. DOMAIN s = Fields /\ s.entries \in [Live(s) -> Entry]
    BY MembersAreIds DEF Sound, IsState
  <2> DEFINE e == [s.entries[i] EXCEPT !.draft = d, !.timer = t]
  <2>2. changed = [s EXCEPT !.entries = [s.entries EXCEPT ![i] = e]]
    BY <2>1 DEF Fields, Entry, Rewritten
  <2>3. e.delivery = s.entries[i].delivery
    BY <2>1 DEF Entry
  <2> HIDE DEF e
  <2>4. /\ DOMAIN changed = Fields
        /\ changed.entries = [s.entries EXCEPT ![i] = e]
    BY <2>1, <2>2 DEF Fields
  <2> HIDE DEF changed
  <2>5. queued.entries = changed.entries
    <3>1. Requeue(changed, i).entries = changed.entries
      BY <2>4 DEF Requeue, Fields
    <3>2. queued = IF d.pres = s.entries[i].draft.pres THEN changed
                   ELSE Requeue(changed, i)
      BY DEF Queued, changed
    <3> QED BY <3>1, <3>2
  <2>6. /\ Live(queued) = Live(s)
        /\ \A j \in Live(s) : queued.entries[j].delivery = s.entries[j].delivery
    BY <2>1, <2>3, <2>4, <2>5 DEF Live
  <2> QED BY <2>6 DEF Onward
<1> HIDE DEF queued, r
<1>4. Sound(sorted) /\ Onward(queued, sorted)
  BY <1>1, SortPendingSound, SortPendingOnward
<1> HIDE DEF sorted
<1>5. Sound(placed) /\ Onward(sorted, placed) /\ Marked(placed)
  BY <1>4, RebalanceSound, RebalanceOnward
<1> HIDE DEF placed
<1>6. Onward(placed, r) /\ Marked(r)
  <2>1. DOMAIN placed = Fields
    BY <1>5 DEF Sound, IsState
  <2> QED BY <1>2, <1>5, <2>1, BumpOnward
<1>7. Onward(s, r)
  BY <1>3, <1>4, <1>5, <1>6, OnwardChains
<1> QED BY <1>1, <1>6, <1>7, OnwardIsForward DEF SameFrame, r

\* submit.
LEMMA SubmitForward ==
  ASSUME NEW s, Sound(s), NEW d \in Draft, NEW now \in Nat,
         Submit(s, d, now).nextSequence <= MaxSubmits
  PROVE  Forward(s, Submit(s, d, now))
<1> DEFINE p == PrepareTime(s, now)
           i == IF d.key = None THEN None ELSE p.liveKeys[d.key]
           r == Submit(s, d, now)
<1>1. Sound(p)
  BY PrepareTimeSound
<1>2. r = IF i = None THEN Insert(p, d, now)
          ELSE IF p.entries[i].draft = d THEN p ELSE Replace(p, i, d, now)
  BY DEF Submit
<1>3. i # None => i \in Live(p) /\ d.key = p.entries[i].draft.key
  BY <1>1 DEF Sound, KeysIndexed, Draft
<1>4. CASE r = p
  BY <1>4, PrepareTimeForward DEF r
<1>5. CASE i = None
  <2>1. r = Insert(p, d, now) /\ r.nextSequence <= MaxSubmits
    BY <1>2, <1>5
  <2>2. d.key # None => p.liveKeys[d.key] = None
    BY <1>5
  <2> HIDE DEF p, i, r
  <2>3. Forward(p, r)
    BY <1>1, <2>1, <2>2, InsertForward
  <2> QED BY <2>3, ForwardAfterPrepare DEF p, r
<1>6. CASE i # None /\ r = Replace(p, i, d, now)
  <2> HIDE DEF p, i, r
  <2>1. Forward(p, r)
    BY <1>1, <1>3, <1>6, ReplaceForward
  <2> QED BY <2>1, ForwardAfterPrepare DEF p, r
<1> QED BY <1>2, <1>4, <1>5, <1>6

\* One entry gets new content, another pin or another timer: nobody moves.
LEMMA EntryEditOnward ==
  ASSUME NEW s, Sound(s), Marked(s), NEW i \in Live(s), NEW e,
         e.delivery = s.entries[i].delivery,
         NEW r, r.entries = [s.entries EXCEPT ![i] = e],
         r.available = s.available, r.attention = s.attention,
         r.toasts = s.toasts
  PROVE  Onward(s, r) /\ Marked(r)
<1>1. s.entries \in [Live(s) -> Entry]
  BY MembersAreIds DEF Sound
<1>2. /\ Live(r) = Live(s)
      /\ \A j \in Live(s) : r.entries[j].delivery = s.entries[j].delivery
  BY <1>1 DEF Live
<1> QED BY <1>2, SameScreen

\* update and update_by_key.
LEMMA ApplyUpdateForward ==
  ASSUME NEW s, Sound(s), NEW i, NEW u \in Update, NEW now \in Nat
  PROVE  Forward(s, ApplyUpdate(s, i, u, now))
<1> DEFINE p       == PrepareTime(s, now)
           d       == Updated(p.entries[i].draft, u)
           t       == Restart(d.timeout, now, ToastTimerShouldRun(p, i))
           changed == Rewritten(p, i, d, t)
           sorted  == SortPending(changed)
           r       == ApplyUpdate(s, i, u, now)
<1>1. Sound(p) /\ Marked(p)
  BY PrepareTimeSound, PrepareTimeOnward
<1>2. r = IF i \notin Live(p) \/ d = p.entries[i].draft THEN p
          ELSE BumpContentRevision(sorted)
  BY DEF ApplyUpdate, Rewritten
<1> HIDE DEF r
<1>3. CASE r = p
  BY <1>3, PrepareTimeForward DEF r
<1> HIDE DEF p
<1>4. CASE i \in Live(p) /\ r = BumpContentRevision(sorted)
  <2>1. DOMAIN p = Fields /\ p.entries \in [Live(p) -> Entry] /\ IsState(p)
    BY <1>1, MembersAreIds DEF Sound, IsState
  <2>2. /\ d \in Draft /\ d.key = p.entries[i].draft.key
        /\ d.pres = p.entries[i].draft.pres
    BY <1>4, <2>1, UpdatedIsDraft DEF Entry
  <2> HIDE DEF d
  <2>3. t \in Timer
    BY <2>2, RestartType DEF Draft, ToastTimerShouldRun
  <2> HIDE DEF t
  <2> DEFINE e == [p.entries[i] EXCEPT !.draft = d, !.timer = t]
  <2>4. changed = [p EXCEPT !.entries = [p.entries EXCEPT ![i] = e]]
    BY <2>1 DEF Fields, Entry, Rewritten
  <2>5. e.delivery = p.entries[i].delivery
    BY <1>4, <2>1 DEF Entry
  <2> HIDE DEF e
  <2>6. /\ DOMAIN changed = Fields
        /\ changed.entries = [p.entries EXCEPT ![i] = e]
        /\ \A f \in Fields \ {"entries"} : changed[f] = p[f]
    BY <2>1, <2>4 DEF Fields
  <2>7. /\ changed.entries \in [Live(p) -> Entry]
        /\ changed.entries[i].draft = d
        /\ \A j \in Live(p) \ {i} : changed.entries[j] = p.entries[j]
    <3> HIDE DEF changed
    <3>1. changed = Rewritten(p, i, d, t)
      BY DEF changed
    <3> QED BY <1>1, <1>4, <2>2, <2>3, <3>1, RewriteEntry
  <2> HIDE DEF changed
  <2>8. /\ changed.available = p.available /\ changed.attention = p.attention
        /\ changed.toasts = p.toasts /\ changed.nextSequence = p.nextSequence
        /\ changed.closed = p.closed /\ changed.closedAs = p.closedAs
        /\ changed.liveKeys = p.liveKeys /\ changed.pending = p.pending
        /\ changed.limits = p.limits /\ changed.nextNonce = p.nextNonce
        /\ changed.lastNow = p.lastNow /\ changed.revised = p.revised
        /\ changed.panicked = p.panicked
        /\ changed.contentRevised = p.contentRevised
    BY <2>6 DEF Fields
  <2>9. Sound(changed)
    BY <1>1, <2>1, <2>2, <2>6, <2>7, <2>8, SoundCarries DEF IsState
  <2>10. Onward(p, changed) /\ Marked(changed)
    BY <1>1, <1>4, <2>5, <2>6, <2>8, EntryEditOnward
  <2>11. /\ Sound(sorted) /\ SameFrame(changed, sorted)
         /\ Onward(changed, sorted) /\ Marked(sorted)
    BY <2>9, <2>10, SortPendingSound, SortPendingOnward
  <2> HIDE DEF sorted
  <2>12. SameFrame(sorted, r) /\ Onward(sorted, r) /\ Marked(r)
    <3>1. DOMAIN sorted = Fields
      BY <2>11 DEF Sound, IsState
    <3> QED BY <1>4, <2>11, <3>1, BumpSound, BumpOnward
  <2>13. Onward(p, r) /\ r.nextSequence = p.nextSequence
    BY <2>8, <2>10, <2>11, <2>12, OnwardChains DEF SameFrame
  <2>14. Forward(p, r)
    BY <2>12, <2>13, OnwardIsForward
  <2> QED BY <2>14, ForwardAfterPrepare DEF p, r
<1> QED BY <1>2, <1>3, <1>4 DEF r

\* close, behind dismiss, dismiss_by_key, render_failed and commit_jump.
LEMMA CloseForward ==
  ASSUME NEW s, Sound(s), NEW i, NEW reason \in Reasons, NEW now \in Nat
  PROVE  Forward(s, Close(s, i, reason, now))
<1> DEFINE p     == PrepareTime(s, now)
           batch == [j \in {i} |-> 1]
           c     == CloseInner(p, batch, reason)
           r     == Close(s, i, reason, now)
<1>1. Sound(p)
  BY PrepareTimeSound
<1>2. r = IF i \notin Live(p) THEN p ELSE Rebalance(c, now)
  BY DEF Close, CloseOne
<1> HIDE DEF r
<1>3. CASE r = p
  BY <1>3, PrepareTimeForward DEF r
<1>4. DOMAIN batch = {i} /\ batch \in [DOMAIN batch -> Nat]
  OBVIOUS
<1> HIDE DEF p, batch
<1>5. CASE i \in Live(p) /\ r = Rebalance(c, now)
  <2>1. Sound(c) /\ SameFrame(p, c)
    BY <1>1, <1>4, <1>5, CloseInnerSound
  <2>2. Onward(p, c)
    <3> HIDE DEF c
    <3>1. c = CloseInner(p, batch, reason)
      BY DEF c
    <3> QED BY <1>1, <3>1, CloseInnerOnward
  <2> HIDE DEF c
  <2>3. SameFrame(c, r) /\ Onward(c, r) /\ Marked(r)
    BY <1>5, <2>1, RebalanceSound, RebalanceOnward
  <2>4. Onward(p, r) /\ r.nextSequence = p.nextSequence
    BY <2>1, <2>2, <2>3, OnwardChains DEF SameFrame
  <2>5. Forward(p, r)
    BY <2>3, <2>4, OnwardIsForward
  <2> QED BY <2>5, ForwardAfterPrepare DEF p, r
<1> QED BY <1>2, <1>3, <1>5 DEF r

\* shutdown leaves nothing on the screen.
LEMMA ShutdownForward ==
  ASSUME NEW s, Sound(s), NEW order, DOMAIN order = Live(s),
         NEW reason \in Reasons, NEW now \in Nat
  PROVE  Forward(s, Shutdown(s, order, reason, now))
<1> DEFINE p     == PrepareTime(s, now)
           batch == Retain(order, Live(p))
           r     == Shutdown(s, order, reason, now)
<1>1. Sound(p) /\ Onward(s, p)
  BY PrepareTimeSound, PrepareTimeOnward
<1>2. r = CloseInner(p, batch, reason)
  BY DEF Shutdown
<1> HIDE DEF p, r
<1>3. Live(s) \subseteq Ids
  BY MembersAreIds DEF Sound
<1>4. batch \in [Live(p) \cap DOMAIN order -> Nat]
  BY <1>3, IdsFinite, RetainType
<1>5. DOMAIN batch = Live(p) /\ batch \in [DOMAIN batch -> Nat]
  BY <1>1, <1>4 DEF Onward
<1> HIDE DEF batch
<1>6. SameFrame(p, r) /\ Onward(p, r) /\ Marked(r)
  BY <1>1, <1>2, <1>5, CloseInnerSound, CloseInnerOnward
<1>7. Forward(p, r)
  BY <1>6, OnwardIsForward DEF SameFrame
<1> QED BY <1>7, ForwardAfterPrepare DEF p, r

\* set_display_available.
LEMMA SetDisplayAvailableForward ==
  ASSUME NEW s, Sound(s), NEW available \in BOOLEAN, NEW now \in Nat
  PROVE  Forward(s, SetDisplayAvailable(s, available, now))
<1> DEFINE p   == PrepareTime(s, now)
           set == BumpRevision([p EXCEPT !.available = available])
           q   == IF p.available = available THEN p ELSE set
           r   == SetDisplayAvailable(s, available, now)
<1>1. Sound(p)
  BY PrepareTimeSound
<1>2. r = Rebalance(q, now)
  BY DEF SetDisplayAvailable
<1> HIDE DEF p, r
<1>3. IsState(p) /\ p.entries \in [Live(p) -> Entry]
  BY <1>1, MembersAreIds DEF Sound
<1>4. /\ DOMAIN set = Fields /\ set.available = available /\ set.revised = TRUE
      /\ \A f \in Fields \ {"available", "revised"} : set[f] = p[f]
  BY <1>3 DEF BumpRevision, IsState, Fields
<1> HIDE DEF set
<1>5. /\ set.entries = p.entries /\ set.closed = p.closed
      /\ set.closedAs = p.closedAs /\ set.liveKeys = p.liveKeys
      /\ set.pending = p.pending /\ set.toasts = p.toasts
      /\ set.attention = p.attention /\ set.limits = p.limits
      /\ set.nextSequence = p.nextSequence /\ set.nextNonce = p.nextNonce
      /\ set.lastNow = p.lastNow /\ set.panicked = p.panicked
      /\ set.contentRevised = p.contentRevised
  BY <1>4 DEF Fields
<1>6. Sound(set) /\ Live(set) = Live(p)
  BY <1>1, <1>3, <1>4, <1>5, SoundCarries DEF IsState
<1>7. Sound(q) /\ Onward(p, q) /\ q.nextSequence = p.nextSequence
  BY <1>1, <1>5, <1>6 DEF Onward
<1> HIDE DEF q
<1>8. SameFrame(q, r) /\ Onward(q, r) /\ Marked(r)
  BY <1>2, <1>7, RebalanceSound, RebalanceOnward
<1>9. Forward(p, r)
  BY <1>7, <1>8, OnwardChains, OnwardIsForward DEF SameFrame
<1> QED BY <1>9, ForwardAfterPrepare DEF p, r

\* A pin comes or goes: nobody moves.
LEMMA RepinForward ==
  ASSUME NEW s, Sound(s), Marked(s), NEW i \in Live(s), NEW n, NEW t, NEW next,
         NEW r, r = Repinned(s, i, n, t, next)
  PROVE  Forward(s, r)
<1> DEFINE e == [s.entries[i] EXCEPT !.nonce = n, !.timer = t]
<1>1. DOMAIN s = Fields /\ s.entries \in [Live(s) -> Entry]
  BY MembersAreIds DEF Sound, IsState
<1>2. e.delivery = s.entries[i].delivery
  BY <1>1 DEF Entry
<1> HIDE DEF e
<1>3. /\ r.entries = [s.entries EXCEPT ![i] = e]
      /\ \A f \in Fields \ {"nextNonce", "entries"} : r[f] = s[f]
  BY <1>1 DEF Fields, e, Repinned
<1>4. /\ r.available = s.available /\ r.attention = s.attention
      /\ r.toasts = s.toasts /\ r.nextSequence = s.nextSequence
  BY <1>3 DEF Fields
<1>5. Onward(s, r) /\ Marked(r)
  BY <1>2, <1>3, <1>4, EntryEditOnward
<1> QED BY <1>4, <1>5, OnwardIsForward

\* begin_jump.
LEMMA BeginJumpForward ==
  ASSUME NEW s, Sound(s), NEW i, NEW now \in Nat
  PROVE  Forward(s, BeginJump(s, i, now))
<1> DEFINE p == PrepareTime(s, now)
           t == IF ToastTimerShouldRun(p, i)
                THEN SetRunning(p.entries[i].timer, now, FALSE)
                ELSE p.entries[i].timer
           r == BeginJump(s, i, now)
<1>1. Sound(p) /\ Marked(p)
  BY PrepareTimeSound, PrepareTimeOnward
<1>2. DOMAIN p = Fields /\ p.entries \in [Live(p) -> Entry]
  BY <1>1, MembersAreIds DEF Sound, IsState
<1> HIDE DEF p
<1>3. CASE ~JumpAllowed(p, i)
  <2>1. r = p
    BY <1>3 DEF BeginJump, p
  <2> HIDE DEF r
  <2> QED BY <2>1, PrepareTimeForward DEF p, r
<1>4. CASE JumpAllowed(p, i)
  <2>1. i \in Live(p)
    BY <1>4 DEF JumpAllowed
  <2>2. r = Repinned(p, i, p.nextNonce, t, p.nextNonce + 1)
    BY ZenonT(30), <1>2, <1>4, <2>1 DEF BeginJump, p, Fields, Entry, Repinned
  <2> HIDE DEF r, t
  <2>3. Forward(p, r)
    BY <1>1, <2>1, <2>2, RepinForward
  <2> QED BY <2>3, ForwardAfterPrepare DEF p, r
<1> QED BY <1>3, <1>4

\* cancel_jump.
LEMMA CancelJumpForward ==
  ASSUME NEW s, Sound(s), NEW intent, NEW now \in Nat
  PROVE  Forward(s, CancelJump(s, intent, now))
<1> SUFFICES ASSUME NEW i, i = intent.id
             PROVE  Forward(s, CancelJump(s, intent, now))
  OBVIOUS
<1> DEFINE p == PrepareTime(s, now)
           t == IF ToastTimerShouldRun(p, i)
                THEN SetRunning(p.entries[i].timer, now, TRUE)
                ELSE p.entries[i].timer
           r == CancelJump(s, intent, now)
<1>1. Sound(p) /\ Marked(p)
  BY PrepareTimeSound, PrepareTimeOnward
<1>2. DOMAIN p = Fields /\ p.entries \in [Live(p) -> Entry]
  BY <1>1, MembersAreIds DEF Sound, IsState
<1> HIDE DEF p
<1>3. CASE ~IntentValid(p, intent)
  <2>1. r = p
    BY <1>3 DEF CancelJump, p
  <2> HIDE DEF r
  <2> QED BY <2>1, PrepareTimeForward DEF p, r
<1>4. CASE IntentValid(p, intent)
  <2>1. i \in Live(p)
    BY <1>4 DEF IntentValid
  <2>2. r = Repinned(p, i, None, t, p.nextNonce)
    BY ZenonT(30), <1>2, <1>4, <2>1 DEF CancelJump, p, Fields, Entry, Repinned
  <2> HIDE DEF r, t
  <2>3. Forward(p, r)
    BY <1>1, <2>1, <2>2, RepinForward
  <2> QED BY <2>3, ForwardAfterPrepare DEF p, r
<1> QED BY <1>3, <1>4

\* commit_jump.
LEMMA CommitJumpForward ==
  ASSUME NEW s, Sound(s), Marked(s), NEW intent, NEW now \in Nat
  PROVE  Forward(s, CommitJump(s, intent, now))
<1>1. CASE IntentValid(s, intent)
  BY <1>1, CloseForward DEF CommitJump, Reasons
<1>2. CASE ~IntentValid(s, intent)
  BY <1>2 DEF CommitJump, Forward
<1> QED BY <1>1, <1>2

\* drain_closed.
LEMMA DrainClosedForward ==
  ASSUME NEW s, Sound(s), Marked(s)
  PROVE  Forward(s, DrainClosed(s))
<1> DEFINE r == DrainClosed(s)
<1>1. DOMAIN s = Fields
  BY DEF Sound, IsState
<1>2. /\ r.entries = s.entries /\ r.available = s.available
      /\ r.attention = s.attention /\ r.toasts = s.toasts
      /\ r.nextSequence = s.nextSequence
  BY <1>1 DEF DrainClosed, Fields
<1> HIDE DEF r
<1>3. Live(r) = Live(s)
  BY <1>2 DEF Live
<1>4. Marked(r) /\ Onward(s, r)
  BY <1>2, <1>3, SameScreen
<1> QED BY <1>2, <1>4, OnwardIsForward DEF r

\* update_limits: deferred Toasts stay marked while they wait again.
LEMMA UpdateLimitsForward ==
  ASSUME NEW s, Sound(s), NEW limits \in SchedulerLimits, NEW now \in Nat
  PROVE  Forward(s, UpdateLimits(s, limits, now))
<1> DEFINE p        == PrepareTime(s, now)
           deferred == Deferred(p, limits)
           resized  == Resized(p, limits, deferred, now)
           sorted   == SortPending(resized)
           placed   == Rebalance(sorted, now)
           full     == EnforcePendingLimit(placed)
           kept     == LastOf(full.closed, Closed(full), ClosedCapacity(limits))
           trimmed  == [full EXCEPT !.closed   = Retain(full.closed, kept),
                                    !.closedAs = Restrict(full.closedAs, kept)]
           bumped   == BumpContentRevision(trimmed)
           r        == UpdateLimits(s, limits, now)
<1>1. Sound(p)
  BY PrepareTimeSound
<1>2. r = IF p.limits = limits THEN p
          ELSE IF full.panicked THEN full ELSE bumped
  BY DEF UpdateLimits, Resized
<1> HIDE DEF r
<1>3. CASE r = p
  BY <1>3, PrepareTimeForward DEF r
<1> HIDE DEF p
<1>4. deferred \subseteq Toasts(p)
  BY DEF Deferred
<1> HIDE DEF deferred
<1>5. Sound(resized) /\ Live(resized) = Live(p)
  <2> HIDE DEF resized
  <2>1. resized = Resized(p, limits, deferred, now)
    BY DEF resized
  <2> QED BY <1>1, <1>4, <2>1, ResizedSound
<1>6. Onward(p, resized) /\ resized.nextSequence = p.nextSequence
  <2>1. DOMAIN p = Fields /\ p.entries \in [Live(p) -> Entry]
    BY <1>1, MembersAreIds DEF Sound, IsState
  <2> DEFINE entries == TimersStopped(p, deferred, now)
  <2>2. \A i \in Live(p) : entries[i].delivery = p.entries[i].delivery
    BY <2>1 DEF TimersStopped, Entry
  <2> HIDE DEF entries
  <2>3. resized.entries = entries /\ resized.nextSequence = p.nextSequence
    BY <2>1 DEF Resized, Fields, entries
  <2> HIDE DEF resized
  <2> QED BY <1>5, <2>2, <2>3 DEF Onward
<1> HIDE DEF resized
<1>7. Sound(sorted) /\ SameFrame(resized, sorted) /\ Onward(resized, sorted)
  BY <1>5, SortPendingSound, SortPendingOnward
<1> HIDE DEF sorted
<1>8. /\ Sound(placed) /\ SameFrame(sorted, placed)
      /\ Onward(sorted, placed) /\ Marked(placed)
  BY <1>7, RebalanceSound, RebalanceOnward
<1> HIDE DEF placed
<1>9. /\ Sound(full) /\ SameFrame(placed, full)
      /\ Onward(placed, full) /\ Marked(full)
  BY <1>8, EnforcePendingLimitSound, EnforceOnward
<1> HIDE DEF full
<1>10. Onward(p, full) /\ full.nextSequence = p.nextSequence
  BY <1>6, <1>7, <1>8, <1>9, OnwardChains DEF SameFrame
<1>11. DOMAIN full = Fields
  BY <1>9 DEF Sound, IsState
<1>12. /\ DOMAIN bumped = Fields /\ bumped.entries = full.entries
       /\ bumped.available = full.available /\ bumped.toasts = full.toasts
       /\ bumped.attention = full.attention
       /\ bumped.nextSequence = full.nextSequence
  BY <1>11 DEF BumpContentRevision, Fields
<1> HIDE DEF bumped
<1>13. Live(bumped) = Live(full)
  BY <1>12 DEF Live
<1>14. Onward(full, bumped) /\ Marked(bumped)
  BY <1>9, <1>12, <1>13, SameScreen
<1>15. CASE r = full
  <2>1. Forward(p, r)
    BY <1>9, <1>10, <1>15, OnwardIsForward
  <2> QED BY <2>1, ForwardAfterPrepare DEF p, r
<1>16. CASE r = bumped
  <2>1. Onward(p, r) /\ r.nextSequence = p.nextSequence /\ Marked(r)
    BY <1>10, <1>12, <1>14, <1>16, OnwardChains
  <2>2. Forward(p, r)
    BY <2>1, OnwardIsForward
  <2> QED BY <2>2, ForwardAfterPrepare DEF p, r
<1> QED BY <1>2, <1>3, <1>15, <1>16 DEF r

-----------------------------------------------------------------------------
(* The refinement.                                                         *)

\* StageOf in a state that is given.
StageIn(s, i) ==
  IF i \in Live(s) THEN s.entries[i].delivery
  ELSE IF i < s.nextSequence THEN "closed" ELSE "none"

\* Every step of the callers takes the scheduler forward.
LEMMA StepForward ==
  ASSUME IInv, Marked(sched), [Next]_vars
  PROVE  Forward(sched, sched')
<1>1. /\ Sound(sched) /\ sched.lastNow \in Nat
      /\ \A now \in sched.lastNow .. MaxTime : now \in Nat
  BY CallerConstants DEF IInv, Sound, IsState
<1>2. CASE UNCHANGED vars
  BY <1>2 DEF vars, Forward
<1>3. CASE Drain
  BY <1>1, <1>3, DrainClosedForward DEF Drain
<1>4. ASSUME NEW now \in sched.lastNow .. MaxTime, Calls(now)
      PROVE  Forward(sched, sched')
  <2>1. now \in Nat
    BY <1>1
  <2>2. ASSUME NEW d \in Drafts, Send(d, now) PROVE Forward(sched, sched')
    <3>1. d \in Draft
      BY CallerConstants
    <3> QED BY <1>1, <2>1, <2>2, <3>1, SubmitForward DEF Send
  <2>3. ASSUME NEW i \in Live(sched), NEW u \in Updates, Amend(i, u, now)
        PROVE  Forward(sched, sched')
    <3>1. u \in Update
      BY CallerConstants
    <3> QED BY <1>1, <2>1, <2>3, <3>1, ApplyUpdateForward DEF Amend
  <2>4. ASSUME NEW i \in Live(sched), NEW reason \in CloseReasons,
               CloseRequest(i, reason, now)
        PROVE  Forward(sched, sched')
    <3>1. reason \in Reasons
      BY CallerConstants DEF Reasons
    <3> QED BY <1>1, <2>1, <2>4, <3>1, CloseForward DEF CloseRequest
  <2>5. ASSUME NEW available \in BOOLEAN, DisplayChange(available, now)
        PROVE  Forward(sched, sched')
    BY <1>1, <2>1, <2>5, SetDisplayAvailableForward DEF DisplayChange
  <2>6. ASSUME NEW limits \in LimitsSet, Reconfigure(limits, now)
        PROVE  Forward(sched, sched')
    <3>1. limits \in SchedulerLimits
      BY CallerConstants
    <3> QED BY <1>1, <2>1, <2>6, <3>1, UpdateLimitsForward DEF Reconfigure
  <2>7. ASSUME Tick(now) PROVE Forward(sched, sched')
    BY <1>1, <2>1, <2>7, PrepareTimeForward DEF Tick, Advance
  <2>8. ASSUME NEW order \in Bijection(Live(sched), 1 .. Cardinality(Live(sched))),
               Stop(order, now)
        PROVE  Forward(sched, sched')
    <3>1. DOMAIN order = Live(sched) /\ "DaemonStopped" \in Reasons
      BY DEF Bijection, Injection, Reasons
    <3> QED BY <1>1, <2>1, <2>8, <3>1, ShutdownForward DEF Stop
  <2>9. ASSUME NEW i \in Live(sched), StartJump(i, now)
        PROVE  Forward(sched, sched')
    BY <1>1, <2>1, <2>9, BeginJumpForward DEF StartJump
  <2>10. ASSUME NEW intent \in intents, JumpFailed(intent, now)
         PROVE  Forward(sched, sched')
    BY <1>1, <2>1, <2>10, CancelJumpForward DEF JumpFailed
  <2>11. ASSUME NEW intent \in intents, JumpSucceeded(intent, now)
         PROVE  Forward(sched, sched')
    BY <1>1, <2>1, <2>11, CommitJumpForward DEF JumpSucceeded
  <2> QED BY <1>4, <2>2, <2>3, <2>4, <2>5, <2>6, <2>7, <2>8, <2>9, <2>10, <2>11
          DEF Calls
<1> QED BY <1>2, <1>3, <1>4 DEF Next

\* A step forward is a step of Lifecycle.
LEMMA ForwardIsLife ==
  ASSUME Sound(sched), Sound(sched'), Forward(sched, sched')
  PROVE  Life!Next
<1> SUFFICES ASSUME NEW s, s = sched, NEW r, r = sched' PROVE Life!Next
  OBVIOUS
<1> DEFINE stage == [i \in Ids |-> StageIn(s, i)]
           after == [i \in Ids |-> StageIn(r, i)]
<1>1. /\ Sound(s) /\ Sound(r) /\ Forward(s, r) /\ Ids \subseteq Nat
      /\ s.nextSequence \in Nat /\ r.nextSequence \in Nat
      /\ \A i \in Live(s) : i < s.nextSequence
      /\ \A i \in Live(r) : i < r.nextSequence
      /\ Live(s) \subseteq Ids /\ Live(r) \subseteq Ids
  BY MembersAreIds, IdsFinite DEF Sound, IsState, Numbered
<1>2. /\ \A i \in Live(s) : s.entries[i].delivery \in {"pending", "visible"}
      /\ \A i \in Live(r) : r.entries[i].delivery \in {"pending", "visible"}
  BY <1>1, MembersAreIds DEF Sound, Entry
<1>3. \A i \in Ids : /\ stage[i] = "none" <=> i >= s.nextSequence
                     /\ after[i] = "none" <=> i >= r.nextSequence
                     /\ stage[i] = "closed" <=> i < s.nextSequence /\ i \notin Live(s)
                     /\ after[i] = "closed" <=> i < r.nextSequence /\ i \notin Live(r)
  BY <1>1, <1>2 DEF StageIn
<1>4. after \in [Ids -> Life!Stages]
  <2>1. \A i \in Ids : StageIn(r, i) \in Life!Stages
    BY <1>2 DEF StageIn, Life!Stages
  <2> QED BY <2>1
<1>5. \A i \in Ids : /\ stage[i] = "visible" <=>
                            i \in Live(s) /\ s.entries[i].delivery = "visible"
                     /\ after[i] = "visible" <=>
                            i \in Live(r) /\ r.entries[i].delivery = "visible"
                     /\ after[i] = "pending" => i \in Live(r)
  BY DEF StageIn
<1> HIDE DEF stage, after
<1>6. r.nextSequence \in {s.nextSequence, s.nextSequence + 1}
  BY <1>1 DEF Forward
<1>7. ASSUME NEW i \in Ids, stage[i] = "none", after[i] # "none",
             NEW j \in Ids, stage[j] = "none"
      PROVE  i <= j
  <2>1. i >= s.nextSequence /\ i < r.nextSequence /\ j >= s.nextSequence
        /\ i \in Nat /\ j \in Nat
    BY <1>1, <1>3, <1>7
  <2> QED BY <1>1, <1>6, <2>1
<1>8. ASSUME NEW i \in Ids, stage[i] # "none"
      PROVE  /\ after[i] # "none"
             /\ stage[i] = "visible" => after[i] # "pending"
             /\ stage[i] = "closed" => after[i] = "closed"
  <2>1. i < s.nextSequence /\ i < r.nextSequence
    BY <1>1, <1>3, <1>6, <1>8
  <2>2. i # s.nextSequence
    BY <1>1, <2>1
  <2>3. stage[i] = "visible" => after[i] # "pending"
    BY <1>1, <1>5 DEF Forward
  <2>4. stage[i] = "closed" => after[i] = "closed"
    BY <1>1, <1>3, <2>1, <2>2 DEF Forward
  <2>5. after[i] # "none"
    BY <1>1, <1>3, <2>1
  <2> QED BY <2>3, <2>4, <2>5
<1>9. /\ Shown(r) \in SUBSET Ids
      /\ Shown(r) \subseteq {i \in Ids : after[i] = "visible"}
  BY <1>1, <1>5 DEF Forward, Marked
<1>10. /\ [i \in Ids |-> StageOf(i)] = stage
       /\ [i \in Ids |-> StageOf(i)]' = after
       /\ Shown(sched)' = Shown(r)
  BY DEF StageOf, StageIn, stage, after
<1> QED BY <1>4, <1>7, <1>8, <1>9, <1>10
        DEF Life!Next, Life!Accept, Life!Advance, Life!Show, Life!Unaccepted

\* LiveScheduler implements Lifecycle: a Notification is accepted once and in
\* order, what the plan shows is marked Visible, and none goes back to the queue
\* once it was Visible, nor to life once it was closed.
THEOREM LifecycleImplemented == Spec => ImplementsLifecycle
<1>1. Init => Life!Init /\ Marked(sched)
  <2> SUFFICES ASSUME Init PROVE Life!Init /\ Marked(sched)
    OBVIOUS
  <2>1. PICK limits \in LimitsSet : sched = NewScheduler(limits, 0)
    BY DEF Init
  <2>2. Live(sched) = {} /\ sched.nextSequence = 0 /\ sched.available = FALSE
    BY <2>1 DEF NewScheduler, Live, EmptyLine
  <2>3. Shown(sched) = {} /\ \A i \in Ids : StageOf(i) = "none"
    BY <2>2, IdsFinite DEF Shown, StageOf
  <2> QED BY <2>3 DEF Life!Init, Marked
<1>2. IInv /\ Marked(sched) /\ [Next]_vars => IInv' /\ Marked(sched)' /\ Life!Next
  <2> SUFFICES ASSUME IInv, Marked(sched), [Next]_vars
               PROVE  IInv' /\ Marked(sched)' /\ Life!Next
    OBVIOUS
  <2>1. IInv' /\ Forward(sched, sched')
    BY NextIInv, StepForward
  <2>2. Marked(sched)'
    BY <2>1 DEF Forward
  <2>3. Life!Next
    BY <2>1, ForwardIsLife DEF IInv
  <2> QED BY <2>1, <2>2, <2>3
<1> QED BY <1>1, <1>2, InitIInv, PTL DEF Spec, ImplementsLifecycle, Life!Spec

-----------------------------------------------------------------------------
(* The shape of a step: what every call does to the scheduler.             *)

\* Nothing but the records changes, and those are taken away or stay.
Quiet(s, r) ==
  /\ r.entries = s.entries /\ r.pending = s.pending /\ r.toasts = s.toasts
  /\ r.attention = s.attention /\ r.limits = s.limits /\ r.available = s.available
  /\ r.lastNow = s.lastNow
  /\ \A i \in Closed(r) : i \in Closed(s) /\ r.closedAs[i] = s.closedAs[i]

Moved(s, r) ==
  \/ Quiet(s, r)
  \/ \E now \in Nat : s.lastNow <= now /\ Reached(s, now, r)

\* Every call is a method that prepares the time first, or finds its intent
\* spent and does nothing.
LEMMA CallReaches ==
  ASSUME IInv, Tidy(sched), NEW now \in sched.lastNow .. MaxTime, Calls(now)
  PROVE  sched' = sched \/ Reached(sched, now, sched')
<1>1. Sound(sched) /\ now \in Nat
  BY CallerConstants DEF IInv, Sound, IsState
<1>2. ASSUME NEW d \in Drafts, Send(d, now) PROVE Reached(sched, now, sched')
  <2>1. d \in Draft
    BY CallerConstants
  <2>2. sched' = Submit(sched, d, now) /\ sched'.nextSequence <= MaxSubmits
    BY <1>2 DEF Send
  <2> QED BY <1>1, <2>1, <2>2, SubmitReaches
<1>3. ASSUME NEW i \in Live(sched), NEW u \in Updates, Amend(i, u, now)
      PROVE  Reached(sched, now, sched')
  <2>1. u \in Update
    BY CallerConstants
  <2> QED BY <1>1, <1>3, <2>1, ApplyUpdateReaches DEF Amend
<1>4. ASSUME NEW i \in Live(sched), NEW reason \in CloseReasons,
             CloseRequest(i, reason, now)
      PROVE  Reached(sched, now, sched')
  <2>1. PICK why \in Reasons : why = reason /\ why \notin {"TimedOut", "RenderSuppressed"}
    BY CallerConstants DEF Reasons
  <2>2. sched' = Close(sched, i, why, now)
    BY <1>4, <2>1 DEF CloseRequest
  <2>3. why \in Reasons /\ why \notin {"TimedOut", "RenderSuppressed"}
    BY <2>1
  <2> QED BY <1>1, <2>2, <2>3, ClosingReaches
<1>5. ASSUME NEW available \in BOOLEAN, DisplayChange(available, now)
      PROVE  Reached(sched, now, sched')
  BY <1>1, <1>5, SetAvailableReaches DEF DisplayChange
<1>6. ASSUME NEW limits \in LimitsSet, Reconfigure(limits, now)
      PROVE  Reached(sched, now, sched')
  <2>1. limits \in SchedulerLimits
    BY CallerConstants
  <2> QED BY <1>1, <1>6, <2>1, UpdateLimitsReaches DEF Reconfigure
<1>7. ASSUME Tick(now) PROVE Reached(sched, now, sched')
  BY <1>1, <1>7, AdvanceReaches DEF Tick
<1>8. ASSUME NEW line \in Bijection(Live(sched), 1 .. Cardinality(Live(sched))),
             Stop(line, now)
      PROVE  Reached(sched, now, sched')
  <2>1. IsLine(line, Live(sched))
    BY DEF Bijection, Injection, IsInjective, IsLine
  <2>2. PICK why \in Reasons : why = "DaemonStopped" /\ why \notin {"TimedOut", "RenderSuppressed"}
    BY DEF Reasons
  <2>3. sched' = Shutdown(sched, line, why, now)
    BY <1>8, <2>2 DEF Stop
  <2>4. why \in Reasons /\ why \notin {"TimedOut", "RenderSuppressed"}
    BY <2>2
  <2> QED BY <1>1, <2>1, <2>3, <2>4, ShuttingReaches
<1>9. ASSUME NEW i \in Live(sched), StartJump(i, now)
      PROVE  Reached(sched, now, sched')
  BY <1>1, <1>9, BeginJumpReaches DEF StartJump
<1>10. ASSUME NEW intent \in intents, JumpFailed(intent, now)
       PROVE  Reached(sched, now, sched')
  BY <1>1, <1>10, CancelJumpReaches DEF JumpFailed
<1>11. ASSUME NEW intent \in intents, JumpSucceeded(intent, now)
       PROVE  sched' = sched \/ Reached(sched, now, sched')
  <2>1. PICK why \in Reasons : why = "Jumped" /\ why \notin {"TimedOut", "RenderSuppressed"}
    BY DEF Reasons
  <2>2. sched' = sched \/ sched' = Close(sched, intent.id, why, now)
    BY <1>11, <2>1 DEF JumpSucceeded, CommitJump
  <2>3. why \in Reasons /\ why \notin {"TimedOut", "RenderSuppressed"}
    BY <2>1
  <2> QED BY <1>1, <2>2, <2>3, ClosingReaches
<1> QED BY <1>2, <1>3, <1>4, <1>5, <1>6, <1>7, <1>8, <1>9, <1>10, <1>11 DEF Calls

\* Every step moves the scheduler so, and leaves it sound and tidy.
LEMMA StepMoves ==
  ASSUME IInv, Tidy(sched), [Next]_vars
  PROVE  /\ Moved(sched, sched')
         /\ Sound(sched) /\ Sound(sched') /\ Tidy(sched')
<1>1. ASSUME sched' = sched PROVE Moved(sched, sched')
  BY <1>1 DEF Moved, Quiet
<1>2. ASSUME Drain PROVE Moved(sched, sched')
  <2>1. DOMAIN sched = Fields
    BY DEF IInv, Sound, IsState
  <2>2. sched' = DrainClosed(sched)
    BY <1>2 DEF Drain
  <2> QED BY <2>1, <2>2 DEF Moved, Quiet, DrainClosed, Fields, Closed, EmptyLine
<1>3. ASSUME NEW now \in sched.lastNow .. MaxTime, Calls(now)
      PROVE  Moved(sched, sched')
  <2>1. now \in Nat /\ sched.lastNow <= now
    BY CallerConstants DEF IInv, Sound, IsState
  <2>2. sched' = sched \/ Reached(sched, now, sched')
    BY <1>3, CallReaches
  <2> QED BY <1>1, <2>1, <2>2 DEF Moved
<1>4. Moved(sched, sched')
  BY <1>1, <1>2, <1>3 DEF Next, vars
<1>5. Sound(sched) /\ Sound(sched')
  BY NextIInv DEF IInv
<1> QED BY <1>4, <1>5, NextTidy

-----------------------------------------------------------------------------
(* The places on the screen.                                               *)

\* A method leaves no place empty while a Notification waits for it.
LEMMA ReachedPlaced ==
  ASSUME NEW s, NEW now, NEW r, Sound(r), Reached(s, now, r)
  PROVE  Placed(r)
<1>1. PICK p : Prepared(s, now, p) /\ Leads(p, r)
  BY DEF Reached
<1>2. PICK q : Edit(p, q) /\ (Rebalanced(p, q, r) \/ Still(p, q, r))
  BY <1>1 DEF Leads
<1>3. CASE Rebalanced(p, q, r)
  BY <1>3 DEF Rebalanced, Arranged
<1>4. CASE Still(p, q, r)
  <2>1. /\ r.available = p.available /\ r.limits = p.limits
        /\ Pending(r) \subseteq Pending(p) /\ r.entries = q.entries
        /\ \A i \in Live(q) :
             i \in Live(p) /\ q.entries[i].draft.pres = p.entries[i].draft.pres
    BY <1>4 DEF Still, SameFrame
  <2>2. Pending(r) \subseteq Live(r) /\ Live(r) = Live(q)
    BY <2>1 DEF Sound, Scheduled, Live
  <2>3. CASE Live(q) = {}
    BY <2>2, <2>3 DEF Placed
  <2>4. CASE q.toasts = p.toasts /\ q.attention = p.attention
    <3>1. Toasts(r) = Toasts(p) /\ r.attention = p.attention
      BY <1>4, <2>4 DEF Still, Toasts
    <3>2. \A kind : OfKind(r, kind) \subseteq OfKind(p, kind)
      BY <2>1, <2>2 DEF OfKind
    <3>3. Placed(p)
      BY <1>1 DEF Prepared
    <3> QED BY <2>1, <3>1, <3>2, <3>3 DEF Placed
  <2> QED BY <1>4, <2>3, <2>4 DEF Still
<1> QED BY <1>2, <1>3, <1>4

\* Who leaves the screen, and who is behind whom on it.
PlaceKept(s, r) ==
  /\ \A i \in Toasts(s) \ Toasts(r) :
       i \in Live(r) => r.entries[i].draft.pres # "toast" \/ r.limits # s.limits
  /\ \A i \in Toasts(s) \cap Toasts(r), j \in Toasts(r) \ Toasts(s) :
       r.toasts[i] < r.toasts[j]
  /\ ToastsInOrder(s, r)

\* After prepare_time ...
LEMMA ReachesKeepPlaces ==
  ASSUME NEW p, NEW r, Sound(r), WithinScreen(r), Leads(p, r)
  PROVE  PlaceKept(p, r) /\ Live(r) \ Live(p) \subseteq {p.nextSequence}
<1>1. PICK q : Edit(p, q) /\ (Rebalanced(p, q, r) \/ Still(p, q, r))
  BY DEF Leads
<1>2. /\ Toasts(q) \subseteq Toasts(r) /\ ToastsInOrder(q, r)
      /\ \A i \in Toasts(q), j \in Toasts(r) \ Toasts(q) : r.toasts[i] < r.toasts[j]
      /\ r.limits = q.limits /\ Live(r) \subseteq Live(q)
      /\ \A i \in Live(r) : r.entries[i].draft = q.entries[i].draft
  <2>1. CASE Rebalanced(p, q, r)
    BY <2>1 DEF Rebalanced, Arranged, Seated, SameFrame, Kept
  <2>2. CASE Still(p, q, r)
    BY <2>2 DEF Still, SameFrame, Toasts, Live, ToastsInOrder
  <2> QED BY <1>1, <2>1, <2>2
<1>3. /\ Toasts(q) \subseteq Toasts(p) /\ ToastsInOrder(p, q)
      /\ \A i \in (Toasts(p) \ Toasts(q)) \cap Live(q) :
           \/ q.entries[i].draft.pres # "toast"
           \/ q.limits # p.limits /\ Cardinality(Toasts(q)) = q.limits.maxVisible
      /\ Live(q) \ Live(p) \subseteq {p.nextSequence}
  BY <1>1 DEF Edit, PlacesEdited
<1>4. /\ Toasts(r) \subseteq Live(r) /\ Toasts(r) \subseteq Ids
      /\ \A i \in Toasts(r) : r.entries[i].draft.pres = "toast"
  BY MembersAreIds DEF Sound, Scheduled, OfKind
<1>5. Toasts(p) \cap Toasts(r) \subseteq Toasts(q)
  <2> SUFFICES ASSUME NEW i \in Toasts(p) \cap Toasts(r), i \notin Toasts(q)
               PROVE  FALSE
    OBVIOUS
  <2>1. Cardinality(Toasts(q)) = r.limits.maxVisible
    BY <1>2, <1>3, <1>4
  <2>2. IsFiniteSet(Toasts(r))
    BY <1>4, IdsFinite, FS_Subset
  <2>3. Cardinality(Toasts(q)) \in Nat /\ Cardinality(Toasts(r)) \in Nat
    BY <1>2, <2>2, FS_Subset, FS_CardinalityType
  <2>4. Cardinality(Toasts(q)) <= Cardinality(Toasts(r))
    BY <1>2, <2>2, FS_Subset
  <2>5. Cardinality(Toasts(q)) = Cardinality(Toasts(r))
    BY <2>1, <2>3, <2>4 DEF WithinScreen
  <2>6. Toasts(q) = Toasts(r)
    BY <1>2, <2>2, <2>5, FS_Subset
  <2> QED BY <2>6
<1>6. PlaceKept(p, r)
  BY <1>2, <1>3, <1>5 DEF PlaceKept, ToastsInOrder
<1> QED BY <1>2, <1>3, <1>6

\* ... and with it.
LEMMA ReachedKeepsPlaces ==
  ASSUME NEW s, Sound(s), NEW now, NEW r, Sound(r), WithinScreen(r), Reached(s, now, r)
  PROVE  PlaceKept(s, r)
<1>1. PICK p : Prepared(s, now, p) /\ Leads(p, r)
  BY DEF Reached
<1>2. PICK c : ClearedFrom(s, now, c) /\ Arranged(c, p) /\ Live(p) = Live(c)
  BY <1>1 DEF Prepared
<1>3. /\ PlaceKept(p, r) /\ Live(r) \ Live(p) \subseteq {s.nextSequence}
      /\ p.limits = s.limits
  BY <1>1, <1>2, ReachesKeepPlaces DEF ClearedFrom, Arranged, SameFrame
<1>4. /\ Toasts(c) = Toasts(s) \ Overdue(s, now) /\ Live(p) = Live(s) \ Overdue(s, now)
      /\ ToastsInOrder(s, c) /\ Toasts(c) \subseteq Toasts(p) /\ ToastsInOrder(c, p)
      /\ \A i \in Toasts(c), j \in Toasts(p) \ Toasts(c) : p.toasts[i] < p.toasts[j]
  BY <1>2 DEF ClearedFrom, Arranged, Seated
<1>5. Toasts(s) \cap Live(r) \subseteq Toasts(c)
  <2>1. \A i \in Toasts(s) : i \in Live(s) /\ i # s.nextSequence
    <3>1. Toasts(s) \subseteq Live(s) /\ Live(s) \subseteq Nat /\ s.nextSequence \in Nat
      BY MembersAreIds, IdsFinite DEF Sound, Scheduled, IsState
    <3>2. \A i \in Live(s) : i < s.nextSequence
      BY DEF Sound, Numbered
    <3> QED BY <3>1, <3>2
  <2> QED BY <1>3, <1>4, <2>1
<1>6. Toasts(r) \subseteq Live(r)
  BY DEF Sound, Scheduled
<1>7. ASSUME NEW i \in Toasts(s) \ Toasts(r), i \in Live(r)
      PROVE  r.entries[i].draft.pres # "toast" \/ r.limits # s.limits
  BY <1>3, <1>4, <1>5, <1>7 DEF PlaceKept
<1>8. ASSUME NEW i \in Toasts(s) \cap Toasts(r), NEW j \in Toasts(r) \ Toasts(s)
      PROVE  r.toasts[i] < r.toasts[j]
  <2>1. i \in Toasts(c) /\ i \in Toasts(p) /\ j \notin Toasts(c)
    BY <1>4, <1>5, <1>6, <1>8
  <2>2. CASE j \in Toasts(p)
    <3>1. p.toasts[i] < p.toasts[j]
      BY <1>4, <2>1, <2>2
    <3> QED BY <1>3, <1>8, <2>1, <2>2, <3>1 DEF PlaceKept, ToastsInOrder
  <2>3. CASE j \notin Toasts(p)
    BY <1>3, <1>8, <2>1, <2>3 DEF PlaceKept
  <2> QED BY <2>2, <2>3
<1>9. ToastsInOrder(s, r)
  <2> SUFFICES ASSUME NEW i \in Toasts(s) \cap Toasts(r), NEW j \in Toasts(s) \cap Toasts(r)
               PROVE  r.toasts[i] < r.toasts[j] <=> s.toasts[i] < s.toasts[j]
    BY DEF ToastsInOrder
  <2>1. i \in Toasts(c) /\ j \in Toasts(c) /\ i \in Toasts(p) /\ j \in Toasts(p)
    BY <1>4, <1>5, <1>6
  <2>2. /\ c.toasts[i] < c.toasts[j] <=> s.toasts[i] < s.toasts[j]
        /\ p.toasts[i] < p.toasts[j] <=> c.toasts[i] < c.toasts[j]
    BY <1>4, <2>1 DEF ToastsInOrder
  <2>3. r.toasts[i] < r.toasts[j] <=> p.toasts[i] < p.toasts[j]
    BY <1>3, <2>1 DEF PlaceKept, ToastsInOrder
  <2> QED BY <2>2, <2>3
<1> QED BY <1>7, <1>8, <1>9 DEF PlaceKept

\* The invariant with tidy collections and no idle place.
LEMMA NextPlaced == IInv /\ Tidy(sched) /\ Placed(sched) /\ [Next]_vars => Placed(sched')
<1> SUFFICES ASSUME IInv, Tidy(sched), Placed(sched), [Next]_vars
             PROVE  Placed(sched')
  OBVIOUS
<1>1. Moved(sched, sched') /\ Sound(sched')
  BY StepMoves
<1>2. CASE Quiet(sched, sched')
  BY <1>2 DEF Quiet, Placed, Pending, Toasts, OfKind, Live
<1> QED BY <1>1, <1>2, ReachedPlaced DEF Moved

\* The initial state is tidy, and nobody waits.
LEMMA InitPlaced == Init => Tidy(sched) /\ Placed(sched)
<1> SUFFICES ASSUME Init PROVE Tidy(sched) /\ Placed(sched)
  OBVIOUS
<1>1. PICK limits \in LimitsSet : sched = NewScheduler(limits, 0)
  BY DEF Init
<1>2. Tidy(sched)
  BY <1>1, NewSchedulerTidy, CallerConstants
<1>3. ~sched.available
  BY <1>1 DEF NewScheduler
<1> QED BY <1>2, <1>3 DEF Placed

\* The invariant of places, revisions, ranks and records.
Orderly == IInv /\ Tidy(sched) /\ Placed(sched)

\* Every step keeps it, ...
LEMMA NextOrderly == Orderly /\ [Next]_vars => Orderly'
<1>1. Orderly /\ [Next]_vars => IInv' /\ Tidy(sched') /\ Placed(sched')
  BY NextIInv, NextTidy, NextPlaced DEF Orderly
<1>2. Tidy(sched') => Tidy(sched)'
  BY DEF Tidy, Lined, WithinScreen, InServingOrder, ServedBefore,
         Pending, Toasts, Closed, Live
<1>3. Placed(sched') => Placed(sched)'
  BY DEF Placed, Pending, Toasts, OfKind, Live
<1> QED BY <1>1, <1>2, <1>3 DEF Orderly

\* ... so it holds throughout.
LEMMA AlwaysOrderly == Spec => []Orderly
<1>1. Init => Orderly
  BY InitIInv, InitPlaced DEF Orderly
<1> QED BY <1>1, NextOrderly, PTL DEF Spec

\* A place on the screen is taken as soon as a Notification waits for it, and a
\* Toast keeps its place and its order until it is closed, becomes an Attention
\* or is deferred by a reload that lowers the capacity.
THEOREM PlacesStayKept == Spec => PlacesAreKept
<1>1. Orderly => NoIdlePlace
  BY DEF Orderly, Placed, NoIdlePlace
<1>2. ASSUME Orderly, [Next]_vars PROVE VisibleToastKeepsPlace
  <2>1. Moved(sched, sched') /\ Sound(sched) /\ Sound(sched') /\ WithinScreen(sched')
    BY <1>2, StepMoves DEF Orderly, Tidy
  <2>2. PlaceKept(sched, sched')
    <3>1. CASE Quiet(sched, sched')
      BY <3>1 DEF Quiet, PlaceKept, ToastsInOrder, Toasts
    <3> QED BY <2>1, <3>1, ReachedKeepsPlaces DEF Moved
  <2>3. Toasts(sched) \ (Toasts(sched) \cap Toasts(sched')) = Toasts(sched) \ Toasts(sched')
    OBVIOUS
  <2>4. Toasts(sched') \ (Toasts(sched) \cap Toasts(sched')) = Toasts(sched') \ Toasts(sched)
    OBVIOUS
  <2>5. Toasts(sched)' = Toasts(sched')
    BY DEF Toasts
  <2> QED BY <2>2, <2>3, <2>4, <2>5 DEF VisibleToastKeepsPlace, PlaceKept, ToastsInOrder
<1>3. Orderly /\ [Next]_vars => [NoIdlePlace /\ VisibleToastKeepsPlace]_vars
  BY <1>1, <1>2
<1> QED BY <1>3, AlwaysOrderly, PTL DEF Spec, PlacesAreKept

-----------------------------------------------------------------------------
(* The revisions.                                                          *)

\* A method says what it changed since the one before.
Answered(s, r) ==
  \/ r.panicked
  \/ r.revised /\ r.contentRevised
  \/ /\ Live(r) = Live(s) /\ \A i \in Live(s) : SameDraft(s, r, i)
     /\ r.revised \/ (Shown(r) = Shown(s) /\ ToastsInOrder(s, r))

LEMMA ReachedAnswers ==
  ASSUME NEW s, Sound(s), Placed(s), NEW now, NEW r, Reached(s, now, r)
  PROVE  Answered(s, r)
<1>1. PICK p : Prepared(s, now, p) /\ Announced(p, r)
  BY DEF Reached, Leads
<1>2. PICK c : /\ ClearedFrom(s, now, c) /\ Arranged(c, p) /\ Live(p) = Live(c)
               /\ p.revised = c.revised /\ p.contentRevised = c.contentRevised
  BY <1>1 DEF Prepared
<1>3. CASE Overdue(s, now) # {}
  <2>1. p.revised /\ p.contentRevised
    BY <1>2, <1>3 DEF ClearedFrom
  <2> QED BY <1>1, <2>1 DEF Announced, Answered
<1>4. CASE Overdue(s, now) = {}
  <2>1. /\ Live(c) = Live(s) /\ Pending(c) = Pending(s) /\ Toasts(c) = Toasts(s)
        /\ c.attention = s.attention /\ c.limits = s.limits /\ c.available = s.available
        /\ Untouched(s, c) /\ ToastsInOrder(s, c)
    BY <1>2, <1>4 DEF ClearedFrom
  <2>2. \A kind : OfKind(c, kind) = OfKind(s, kind)
    BY <2>1 DEF OfKind, Untouched
  <2>3. Placed(c)
    BY <2>1, <2>2 DEF Placed
  <2>4. /\ Toasts(p) = Toasts(s) /\ p.attention = s.attention
        /\ p.available = s.available /\ ToastsInOrder(c, p)
    BY <1>2, <2>1, <2>3 DEF Arranged, Seated, SameFrame
  <2>5. Shown(p) = Shown(s)
    BY <2>4 DEF Shown
  <2>6. ToastsInOrder(s, p)
    BY <2>1, <2>4 DEF ToastsInOrder
  <2>7. Live(p) = Live(s) /\ \A i \in Live(s) : SameDraft(s, p, i)
    BY <1>2, <2>1 DEF Arranged, Kept, Untouched, SameDraft
  <2>8. ASSUME ToastsInOrder(p, r) PROVE ToastsInOrder(s, r)
    BY <2>4, <2>6, <2>8 DEF ToastsInOrder
  <2>9. ASSUME Live(r) = Live(p), \A i \in Live(p) : SameDraft(p, r, i)
        PROVE  Live(r) = Live(s) /\ \A i \in Live(s) : SameDraft(s, r, i)
    BY <2>7, <2>9 DEF SameDraft
  <2> QED BY <1>1, <2>5, <2>8, <2>9 DEF Announced, Answered
<1> QED BY <1>3, <1>4

\* The revision changes with what is shown and its order, and both revisions
\* with what is live: a renderer that compares them misses no change.
THEOREM RevisionsFollow == Spec => RevisionFollowsPlan
<1> DEFINE Follows ==
      /\ \/ Shown(sched') # Shown(sched)
         \/ \E i, j \in Toasts(sched) \cap Toasts(sched') :
              (sched.toasts[i] < sched.toasts[j]) #
                (sched'.toasts[i] < sched'.toasts[j])
         => sched'.revised \/ sched'.panicked
      /\ (\E i \in Live(sched) \cup Live(sched') : ~SameContent(i))
         => sched'.contentRevised \/ sched'.panicked
<1>1. ASSUME Orderly, [Next]_vars PROVE Follows
  <2>1. Moved(sched, sched') /\ Sound(sched) /\ Placed(sched)
    BY <1>1, StepMoves DEF Orderly
  <2>2. Answered(sched, sched')
    <3>1. CASE Quiet(sched, sched')
      BY <3>1 DEF Quiet, Answered, SameDraft, ToastsInOrder, Toasts, Live, Shown
    <3> QED BY <2>1, <3>1, ReachedAnswers DEF Moved
  <2>3. \A i : SameDraft(sched, sched', i) => SameContent(i)
    BY DEF SameDraft, SameContent
  <2>4. ASSUME ToastsInOrder(sched, sched'),
               NEW i \in Toasts(sched) \cap Toasts(sched'),
               NEW j \in Toasts(sched) \cap Toasts(sched')
        PROVE  (sched.toasts[i] < sched.toasts[j]) = (sched'.toasts[i] < sched'.toasts[j])
    BY <2>4 DEF ToastsInOrder
  <2> QED BY <2>2, <2>3, <2>4 DEF Answered
<1>2. Orderly /\ [Next]_vars => [Follows]_vars
  BY <1>1
<1> QED BY <1>2, AlwaysOrderly, PTL DEF Spec, RevisionFollowsPlan

-----------------------------------------------------------------------------
(* The ranks.                                                              *)

\* What prepare_time leaves of the state before it.
PreparedFrom(s, now, p) ==
  /\ Live(p) = Live(s) \ Overdue(s, now) /\ Overdue(s, now) \subseteq Toasts(s)
  /\ \A i \in Live(p) : /\ p.entries[i].draft = s.entries[i].draft
                        /\ p.entries[i].nonce = s.entries[i].nonce
  /\ p.limits = s.limits /\ p.nextSequence = s.nextSequence
  /\ p.lastNow = now /\ s.nextSequence \notin Live(s)
  /\ \A i \in Closed(p) :
       \/ i \in Overdue(s, now) /\ p.closedAs[i] = "TimedOut"
       \/ i \in Closed(s) /\ p.closedAs[i] = s.closedAs[i]
  /\ Cardinality(Closed(s) \cup Overdue(s, now)) <= ClosedCapacity(s.limits) =>
       Closed(p) = Closed(s) \cup Overdue(s, now)

LEMMA PreparedKeeps ==
  ASSUME NEW s, Sound(s), NEW now, NEW p, Prepared(s, now, p)
  PROVE  PreparedFrom(s, now, p)
<1>1. PICK c : /\ ClearedFrom(s, now, c) /\ Arranged(c, p) /\ Live(p) = Live(c)
               /\ p.closed = c.closed /\ p.closedAs = c.closedAs /\ p.lastNow = now
  BY DEF Prepared
<1>2. /\ Live(c) = Live(s) \ Overdue(s, now) /\ Untouched(s, c)
      /\ c.limits = s.limits /\ c.nextSequence = s.nextSequence
      /\ \A i \in Closed(c) :
           \/ i \in Overdue(s, now) /\ c.closedAs[i] = "TimedOut"
           \/ i \in Closed(s) /\ c.closedAs[i] = s.closedAs[i]
      /\ Cardinality(Closed(s) \cup Overdue(s, now)) <= ClosedCapacity(s.limits) =>
           Closed(c) = Closed(s) \cup Overdue(s, now)
  BY <1>1 DEF ClearedFrom
<1>3. /\ p.limits = c.limits /\ p.nextSequence = c.nextSequence
      /\ \A i \in Live(p) : /\ p.entries[i].draft = c.entries[i].draft
                            /\ p.entries[i].nonce = c.entries[i].nonce
  BY <1>1 DEF Arranged, SameFrame, Kept
<1>4. s.nextSequence \notin Live(s)
  <2>1. Live(s) \subseteq Nat /\ s.nextSequence \in Nat
    BY MembersAreIds, IdsFinite DEF Sound, IsState
  <2>2. \A i \in Live(s) : i < s.nextSequence
    BY DEF Sound, Numbered
  <2> QED BY <2>1, <2>2
<1>5. Closed(p) = Closed(c)
  BY <1>1 DEF Closed
<1>6. Overdue(s, now) \subseteq Toasts(s)
  BY DEF Overdue
<1>7. \A i \in Live(p) : /\ p.entries[i].draft = s.entries[i].draft
                         /\ p.entries[i].nonce = s.entries[i].nonce
  BY <1>1, <1>2, <1>3 DEF Untouched
<1> QED BY <1>1, <1>2, <1>3, <1>4, <1>5, <1>6, <1>7 DEF PreparedFrom

\* Ranks depend on nothing but the content.
LEMMA RankCarries ==
  ASSUME NEW a, NEW b, NEW i \in Live(b), NEW j \in Live(b),
         b.entries[i].draft = a.entries[i].draft,
         b.entries[j].draft = a.entries[j].draft, <<i, j>> \in ServedBefore(a)
  PROVE  <<i, j>> \in ServedBefore(b)
BY DEF ServedBefore

\* Who got its place in prepare_time, ahead of the changes of the call: a
\* timeout had freed it, and the ranks were respected as they were then.
LEMMA EarlyPlaces ==
  ASSUME NEW s, Sound(s), Placed(s), NEW now, NEW p, Prepared(s, now, p),
         NEW q, Edit(p, q), NEW i \in Live(q) \ Pending(q), NEW j \in Pending(q),
         i \notin Live(s) \/ i \in Pending(s),
         q.entries[i].draft.pres = q.entries[j].draft.pres
  PROVE  /\ Overdue(s, now) # {}
         /\ SameDraft(s, q, i) /\ SameDraft(s, q, j) => <<i, j>> \in ServedBefore(q)
<1>1. PICK c : ClearedFrom(s, now, c) /\ Arranged(c, p) /\ Live(p) = Live(c)
  BY DEF Prepared
<1>2. /\ Live(p) = Live(s) \ Overdue(s, now)
      /\ \A k \in Live(p) : p.entries[k].draft = s.entries[k].draft
      /\ p.nextSequence = s.nextSequence /\ s.nextSequence \notin Live(s)
  <2>1. PreparedFrom(s, now, p)
    BY PreparedKeeps
  <2> QED BY <2>1 DEF PreparedFrom
<1>3. /\ Pending(p) \cap Live(q) \subseteq Pending(q)
      /\ \A k \in (Toasts(p) \ Toasts(q)) \cap Live(q) :
           \/ q.entries[k].draft.pres # "toast"
           \/ \A l \in Toasts(q) : p.toasts[l] < p.toasts[k]
      /\ \A k \in Pending(q) \ Pending(p) :
           ~SameDraft(p, q, k) \/ k \in Toasts(p) \ Toasts(q)
      /\ Live(q) \ Live(p) \subseteq Pending(q) \cap {p.nextSequence}
      /\ Toasts(q) \subseteq Toasts(p)
  BY DEF Edit, PlacesEdited
<1>4. i \in Live(p) /\ i \in Live(s) /\ i \in Pending(s) /\ i \notin Pending(p)
  BY <1>2, <1>3
<1>5. /\ Pending(c) = Pending(s) /\ Toasts(c) = Toasts(s) \ Overdue(s, now)
      /\ Untouched(s, c)
  BY <1>1 DEF ClearedFrom
<1>6. Overdue(s, now) # {}
  <2> SUFFICES ASSUME Overdue(s, now) = {} PROVE FALSE
    OBVIOUS
  <2>1. /\ Live(c) = Live(s) /\ Pending(c) = Pending(s) /\ Toasts(c) = Toasts(s)
        /\ c.attention = s.attention /\ c.limits = s.limits /\ c.available = s.available
    BY <1>1 DEF ClearedFrom
  <2>2. \A kind : OfKind(c, kind) = OfKind(s, kind)
    BY <1>5, <2>1 DEF OfKind, Untouched
  <2>3. Placed(c)
    BY <2>1, <2>2 DEF Placed
  <2>4. Pending(p) = Pending(c) \cap Live(p)
    BY <1>1, <2>3 DEF Arranged, Seated
  <2> QED BY <1>4, <1>5, <2>4
<1>7. ASSUME SameDraft(s, q, i), SameDraft(s, q, j)
      PROVE  <<i, j>> \in ServedBefore(q)
  <2>1. j \in Live(q) /\ j \in Live(s) /\ j \in Live(p) /\ i \in Live(q)
    BY <1>2, <1>3, <1>7 DEF SameDraft
  <2>2. /\ p.entries[i].draft = q.entries[i].draft
        /\ p.entries[j].draft = q.entries[j].draft
        /\ c.entries[i].draft = q.entries[i].draft
        /\ c.entries[j].draft = q.entries[j].draft
    BY <1>1, <1>2, <1>4, <1>5, <1>7, <2>1 DEF SameDraft, Untouched
  <2>3. <<i, j>> \in ServedBefore(c)
    <3>1. CASE j \in Pending(p)
      <4>1. i \in (Pending(c) \cap Live(p)) \ Pending(p)
        BY <1>4, <1>5
      <4>2. c.entries[i].draft.pres = c.entries[j].draft.pres
        BY <2>2
      <4> QED BY <1>1, <3>1, <4>1, <4>2 DEF Arranged, Ranked
    <3>2. CASE j \notin Pending(p)
      <4>1. j \in Toasts(p) \ Toasts(q)
        BY <1>3, <2>1, <2>2, <3>2 DEF SameDraft
      <4>2. /\ Scheduled(p) /\ Scheduled(q)
        BY DEF Prepared, Edit, Sound
      <4>3. p.entries[j].draft.pres = "toast"
        BY <4>1, <4>2 DEF Scheduled, OfKind
      <4>4. q.entries[j].draft.pres = "toast" /\ q.entries[i].draft.pres = "toast"
            /\ p.entries[i].draft.pres = "toast"
        BY <2>2, <4>3
      <4>5. i \in Toasts(p) /\ i \in Toasts(q)
        BY <1>4, <2>1, <4>2, <4>4 DEF Scheduled, OfKind
      <4>6. p.toasts[i] < p.toasts[j]
        BY <1>3, <2>1, <4>1, <4>4, <4>5
      <4>7. p.toasts[i] \in Nat /\ p.toasts[j] \in Nat
        BY <4>1, <4>5, MembersAreIds DEF Prepared, Sound
      <4>8. i \notin Toasts(c)
        <5>1. Scheduled(s)
          BY DEF Sound
        <5> QED BY <1>4, <1>5, <5>1 DEF Scheduled
      <4>9. j \notin Toasts(c)
        <5>1. \A k \in Toasts(c), l \in Toasts(p) \ Toasts(c) : p.toasts[k] < p.toasts[l]
          BY <1>1 DEF Arranged, Seated
        <5> QED BY <4>5, <4>6, <4>7, <4>8, <5>1
      <4> QED BY <1>1, <4>1, <4>5, <4>6, <4>8, <4>9 DEF Arranged, Seated
    <3> QED BY <3>1, <3>2
  <2> QED BY <2>1, <2>2, <2>3, RankCarries
<1> QED BY <1>6, <1>7

\* Who gets a place is the best of those that waited.
BestTaken(s, r) ==
  \A i \in Live(r) \ Pending(r), j \in Pending(r) :
    /\ i \notin Live(s) \/ i \in Pending(s)
    /\ r.entries[i].draft.pres = r.entries[j].draft.pres
    => \/ <<i, j>> \in ServedBefore(r)
       \/ Overdue(s, r.lastNow) # {} /\ (~SameDraft(s, r, i) \/ ~SameDraft(s, r, j))

LEMMA ReachedTakesBest ==
  ASSUME NEW s, Sound(s), Placed(s), NEW now, NEW r, Sound(r), Reached(s, now, r)
  PROVE  BestTaken(s, r)
<1>1. PICK p : Prepared(s, now, p) /\ Leads(p, r)
  BY DEF Reached
<1>2. PICK q : Edit(p, q) /\ (Rebalanced(p, q, r) \/ Still(p, q, r))
  BY <1>1 DEF Leads
<1>3. /\ Pending(r) \subseteq Pending(q) /\ r.lastNow = now
      /\ \A i \in Live(r) : i \in Live(q) /\ r.entries[i].draft = q.entries[i].draft
      /\ \A i \in (Pending(q) \cap Live(r)) \ Pending(r), j \in Pending(r) :
           q.entries[i].draft.pres = q.entries[j].draft.pres =>
             <<i, j>> \in ServedBefore(q)
  <2>1. q.lastNow = now
    BY <1>1, <1>2 DEF Prepared, Edit
  <2>2. CASE Rebalanced(p, q, r)
    BY <2>1, <2>2 DEF Rebalanced, Arranged, Seated, Ranked, SameFrame, Kept
  <2>3. CASE Still(p, q, r)
    BY <2>1, <2>3 DEF Still, SameFrame, Live
  <2> QED BY <1>2, <2>2, <2>3
<1>4. Pending(r) \subseteq Live(r)
  BY DEF Sound, Scheduled
<1>5. SUFFICES ASSUME NEW i \in Live(r) \ Pending(r), NEW j \in Pending(r),
                      i \notin Live(s) \/ i \in Pending(s),
                      r.entries[i].draft.pres = r.entries[j].draft.pres
               PROVE  \/ <<i, j>> \in ServedBefore(r)
                      \/ /\ Overdue(s, now) # {}
                         /\ ~SameDraft(s, r, i) \/ ~SameDraft(s, r, j)
  BY <1>3 DEF BestTaken
<1>6. /\ i \in Live(r) /\ j \in Live(r) /\ i \in Live(q) /\ j \in Pending(q)
      /\ r.entries[i].draft = q.entries[i].draft
      /\ r.entries[j].draft = q.entries[j].draft
      /\ q.entries[i].draft.pres = q.entries[j].draft.pres
  BY <1>3, <1>4, <1>5
<1>7. ASSUME <<i, j>> \in ServedBefore(q) PROVE <<i, j>> \in ServedBefore(r)
  BY <1>6, <1>7, RankCarries
<1>8. CASE i \in Pending(q)
  BY <1>3, <1>5, <1>6, <1>7, <1>8
<1>9. CASE i \notin Pending(q)
  <2>1. /\ Overdue(s, now) # {}
        /\ SameDraft(s, q, i) /\ SameDraft(s, q, j) => <<i, j>> \in ServedBefore(q)
    BY <1>1, <1>2, <1>5, <1>6, <1>9, EarlyPlaces
  <2>2. /\ SameDraft(s, r, i) => SameDraft(s, q, i)
        /\ SameDraft(s, r, j) => SameDraft(s, q, j)
    BY <1>3, <1>6 DEF SameDraft
  <2> QED BY <1>7, <2>1, <2>2
<1> QED BY <1>8, <1>9

\* Who is suppressed is the worst of a queue over its limit.
WorstSuppressed(s, r) ==
  \A i \in (Live(s) \ Live(r)) \cap Closed(r) :
    r.closedAs[i] = "RenderSuppressed" =>
      /\ Cardinality(Pending(r)) >= r.limits.maxPending
      /\ s.entries[i].nonce = None
      /\ \A j \in Pending(r) \cap Unpinned(r) :
           LET p == r.entries[j].draft.prio
               q == s.entries[i].draft.prio
           IN  p > q \/ (p = q /\ j < i)

LEMMA ReachedSuppressesWorst ==
  ASSUME NEW s, Sound(s), NEW now, NEW r, Sound(r), Reached(s, now, r)
  PROVE  WorstSuppressed(s, r)
<1>1. PICK p : Prepared(s, now, p) /\ Leads(p, r)
  BY DEF Reached
<1>2. PICK q : Edit(p, q) /\ (Rebalanced(p, q, r) \/ Still(p, q, r))
  BY <1>1 DEF Leads
<1>3. /\ Live(p) = Live(s) \ Overdue(s, now)
      /\ \A i \in Live(p) : /\ p.entries[i].draft = s.entries[i].draft
                            /\ p.entries[i].nonce = s.entries[i].nonce
      /\ p.nextSequence = s.nextSequence /\ s.nextSequence \notin Live(s)
      /\ \A i \in Closed(p) :
           \/ i \in Overdue(s, now) /\ p.closedAs[i] = "TimedOut"
           \/ i \in Closed(s) /\ p.closedAs[i] = s.closedAs[i]
  <2>1. PreparedFrom(s, now, p)
    BY <1>1, PreparedKeeps
  <2> QED BY <2>1 DEF PreparedFrom
<1>4. SUFFICES ASSUME NEW i \in (Live(s) \ Live(r)) \cap Closed(r),
                      r.closedAs[i] = "RenderSuppressed"
               PROVE  /\ Cardinality(Pending(r)) >= r.limits.maxPending
                      /\ s.entries[i].nonce = None
                      /\ \A j \in Pending(r) \cap Unpinned(r) :
                           LET a == r.entries[j].draft.prio
                               b == s.entries[i].draft.prio
                           IN  a > b \/ (a = b /\ j < i)
  BY DEF WorstSuppressed
<1>5. i \notin Closed(s)
  BY <1>4 DEF Sound, Scheduled
<1>6. ~(i \in Closed(q) /\ q.closedAs[i] = "RenderSuppressed")
  <2>1. ~(i \in Closed(p) /\ p.closedAs[i] = "RenderSuppressed")
    BY <1>3, <1>5
  <2> QED BY <1>2, <2>1 DEF Edit, RecordsEdited
<1>7. Rebalanced(p, q, r)
  <2>1. CASE Still(p, q, r)
    <3>1. Closed(r) = Closed(q) /\ r.closedAs = q.closedAs
      BY <2>1 DEF Still, Closed
    <3> QED BY <1>4, <1>6, <3>1
  <2> QED BY <1>2, <2>1
<1>8. /\ i \in Live(q) \ Live(r) /\ i \in Unpinned(q)
      /\ Cardinality(Pending(r)) >= q.limits.maxPending
      /\ \A j \in Pending(r) :
           q.entries[j].nonce = None => <<j, i>> \in ServedBefore(q)
  BY <1>4, <1>6, <1>7 DEF Rebalanced, Arranged, Suppressed
<1>9. /\ r.limits = q.limits
      /\ \A j \in Live(r) : /\ j \in Live(q)
                            /\ r.entries[j].draft = q.entries[j].draft
                            /\ r.entries[j].nonce = q.entries[j].nonce
  BY <1>7 DEF Rebalanced, Arranged, SameFrame, Kept
<1>10. i \in Live(p) /\ i \in Live(q)
  BY <1>2, <1>3, <1>4, <1>8 DEF Edit, PlacesEdited
<1>11. /\ q.entries[i].draft = s.entries[i].draft
       /\ s.entries[i].nonce = None
  <2>1. SameDraft(p, q, i) /\ q.entries[i].nonce = p.entries[i].nonce
    BY <1>7, <1>8, <1>10 DEF Rebalanced
  <2> QED BY <1>3, <1>8, <1>10, <2>1 DEF SameDraft, Unpinned
<1>12. ASSUME NEW j \in Pending(r) \cap Unpinned(r)
       PROVE  LET a == r.entries[j].draft.prio
                  b == s.entries[i].draft.prio
              IN  a > b \/ (a = b /\ j < i)
  <2>1. r.entries[j].draft = q.entries[j].draft /\ q.entries[j].nonce = None
    BY <1>9, <1>12 DEF Unpinned
  <2>2. <<j, i>> \in ServedBefore(q)
    BY <1>8, <1>12, <2>1
  <2> QED BY <1>11, <2>1, <2>2 DEF ServedBefore
<1> QED BY <1>8, <1>9, <1>11, <1>12

\* Whoever gets a place on the screen outranks all it leaves behind, and whoever
\* is suppressed is outranked by all that stay: the order of `pending`, which
\* many methods edit, is what decides in both.
THEOREM RanksAlwaysDecide == Spec => RanksDecide
<1> DEFINE Best ==
      \A i \in Live(sched') \ Pending(sched'), j \in Pending(sched') :
        /\ i \notin Live(sched) \/ i \in Pending(sched)
        /\ sched'.entries[i].draft.pres = sched'.entries[j].draft.pres
        => \/ <<i, j>> \in ServedBefore(sched')
           \/ /\ \E t \in Toasts(sched) : Expired(sched.entries[t].timer, sched'.lastNow)
              /\ ~SameContent(i) \/ ~SameContent(j)
           Worst ==
      \A i \in ClosedNow \cap Closed(sched') :
        sched'.closedAs[i] = "RenderSuppressed" =>
          /\ Cardinality(Pending(sched')) >= sched'.limits.maxPending
          /\ sched.entries[i].nonce = None
          /\ \A j \in Pending(sched') \cap Unpinned(sched') :
               LET p == sched'.entries[j].draft.prio
                   q == sched.entries[i].draft.prio
               IN  p > q \/ (p = q /\ j < i)
<1>1. ASSUME Orderly, [Next]_vars PROVE Best /\ Worst
  <2>1. Moved(sched, sched') /\ Sound(sched) /\ Sound(sched') /\ Placed(sched)
    BY <1>1, StepMoves DEF Orderly
  <2>2. BestTaken(sched, sched')
    <3>1. CASE Quiet(sched, sched')
      BY <3>1 DEF Quiet, BestTaken, Live, Pending
    <3> QED BY <2>1, <3>1, ReachedTakesBest DEF Moved
  <2>3. WorstSuppressed(sched, sched')
    <3>1. CASE Quiet(sched, sched')
      BY <3>1 DEF Quiet, WorstSuppressed, Live
    <3> QED BY <2>1, <3>1, ReachedSuppressesWorst DEF Moved
  <2>4. \A i : SameDraft(sched, sched', i) <=> SameContent(i)
    BY DEF SameDraft, SameContent
  <2>5. Best
    BY <2>2, <2>4 DEF BestTaken, Overdue
  <2>6. Worst
    BY <2>3 DEF WorstSuppressed, ClosedNow
  <2> QED BY <2>5, <2>6
<1>2. Orderly /\ [Next]_vars => [Best]_vars /\ [Worst]_vars
  BY <1>1
<1>3. Spec => PromotedIsBest
  BY <1>2, AlwaysOrderly, PTL DEF Spec, PromotedIsBest
<1>4. Spec => SuppressedIsWorst
  BY <1>2, AlwaysOrderly, PTL DEF Spec, SuppressedIsWorst
<1> QED BY <1>3, <1>4 DEF RanksDecide

-----------------------------------------------------------------------------
(* The records of what is closed.                                          *)

\* Two disjoint parts of a set and one more element count no more than it.
LEMMA PartsCount ==
  ASSUME NEW U, IsFiniteSet(U), NEW id, NEW A, NEW B,
         A \subseteq U \cup {id}, B \subseteq U \cup {id}, A \cap B = {}
  PROVE  /\ Cardinality(A) \in Nat /\ Cardinality(B) \in Nat /\ Cardinality(U) \in Nat
         /\ Cardinality(A) + Cardinality(B) <= Cardinality(U) + 1
<1>1. PICK V : V = U \cup {id}
  OBVIOUS
<1>2. IsFiniteSet(V)
  BY <1>1, FS_AddElement
<1>3. Cardinality(V) <= Cardinality(U) + 1 /\ Cardinality(U) \in Nat
  <2>1. Cardinality(U) \in Nat
    BY FS_CardinalityType
  <2>2. Cardinality(V) = IF id \in U THEN Cardinality(U) ELSE Cardinality(U) + 1
    BY <1>1, FS_AddElement
  <2> QED BY <2>1, <2>2
<1>4. IsFiniteSet(A) /\ IsFiniteSet(B) /\ A \cup B \subseteq V
  BY <1>1, <1>2, FS_Subset
<1>5. Cardinality(A) \in Nat /\ Cardinality(B) \in Nat
  BY <1>4, FS_CardinalityType
<1>6. Cardinality(A \cup B) = Cardinality(A) + Cardinality(B)
  <2>1. Cardinality(A \cup B) = Cardinality(A) + Cardinality(B) - Cardinality(A \cap B)
    BY <1>4, FS_Union
  <2>2. Cardinality(A \cap B) = 0
    BY FS_EmptySet
  <2> QED BY <1>5, <2>1, <2>2
<1>7. Cardinality(A \cup B) <= Cardinality(V)
  BY <1>2, <1>4, FS_Subset
<1>8. Cardinality(V) \in Nat
  BY <1>2, FS_CardinalityType
<1> QED BY <1>3, <1>5, <1>6, <1>7, <1>8

\* A method keeps the record of all it closes.
LEMMA ReachedRecords ==
  ASSUME NEW s, Sound(s), NEW now, NEW r, Sound(r), Reached(s, now, r),
         Closed(s) = {}, r.limits = s.limits,
         Cardinality(Live(s)) <= ClosedCapacity(s.limits)
  PROVE  Live(s) \ Live(r) \subseteq Closed(r)
<1>1. PICK p : Prepared(s, now, p) /\ Leads(p, r)
  BY DEF Reached
<1>2. PICK q : Edit(p, q) /\ (Rebalanced(p, q, r) \/ Still(p, q, r))
  BY <1>1 DEF Leads
<1>3. PICK late : late = Overdue(s, now)
  OBVIOUS
<1>4. PreparedFrom(s, now, p)
  BY <1>1, PreparedKeeps
<1>5. /\ Live(p) = Live(s) \ late /\ late \subseteq Live(s) /\ p.limits = s.limits
      /\ p.nextSequence = s.nextSequence
      /\ Cardinality({} \cup late) <= ClosedCapacity(s.limits) => Closed(p) = {} \cup late
  BY <1>3, <1>4 DEF PreparedFrom, Sound, Scheduled
<1>6. IsFiniteSet(Live(s)) /\ IsFiniteSet(Live(r))
  <2>1. Live(s) \subseteq Ids /\ Live(r) \subseteq Ids
    BY MembersAreIds DEF Sound
  <2> QED BY <2>1, IdsFinite, FS_Subset
<1>7. PICK room \in Nat : room = ClosedCapacity(s.limits) /\ room > s.limits.maxPending
  BY DEF Sound, IsState, SchedulerLimits, ClosedCapacity
<1>8. ASSUME NEW A, A \subseteq Live(s) PROVE Cardinality(A) <= room
  <2>1. Cardinality(A) <= Cardinality(Live(s)) /\ IsFiniteSet(A)
    BY <1>6, <1>8, FS_Subset
  <2>2. Cardinality(A) \in Nat /\ Cardinality(Live(s)) \in Nat
    BY <1>6, <2>1, FS_CardinalityType
  <2> QED BY <1>7, <2>1, <2>2
<1>9. Closed(p) = late
  BY <1>5, <1>7, <1>8
<1>10. q.limits = s.limits /\ Live(r) \subseteq Live(q)
  <2>1. CASE Rebalanced(p, q, r)
    BY <2>1 DEF Rebalanced, Arranged, SameFrame, Kept
  <2>2. CASE Still(p, q, r)
    BY <2>2 DEF Still, SameFrame, Live
  <2> QED BY <1>2, <2>1, <2>2
<1>11. PICK gone : gone = Live(p) \ Live(q)
  OBVIOUS
<1>12. Closed(q) = late \cup gone
  <2>1. late \cup gone \subseteq Live(s)
    BY <1>5, <1>11
  <2>2. Cardinality(late \cup gone) <= ClosedCapacity(p.limits)
    BY <1>5, <1>7, <1>8, <2>1
  <2> QED BY <1>2, <1>5, <1>9, <1>10, <1>11, <2>2 DEF Edit, RecordsEdited
<1>13. CASE Still(p, q, r)
  <2>1. Closed(r) = Closed(q) /\ Live(r) = Live(q)
    BY <1>13 DEF Still, Closed, Live
  <2> QED BY <1>5, <1>11, <1>12, <2>1
<1>14. CASE Rebalanced(p, q, r)
  <2>1. PICK lost : lost = Live(q) \ Live(r)
    OBVIOUS
  <2>2. /\ lost # {} => Cardinality(Pending(r)) >= q.limits.maxPending
        /\ Cardinality(Closed(q) \cup lost) <= ClosedCapacity(q.limits) =>
             Closed(r) = Closed(q) \cup lost
    BY <1>14, <2>1 DEF Rebalanced, Arranged, Suppressed
  <2>3. Cardinality(Closed(q) \cup lost) <= room
    <3>1. CASE lost = {}
      <4>1. Closed(q) \cup lost \subseteq Live(s)
        BY <1>5, <1>11, <1>12, <3>1
      <4> QED BY <1>8, <4>1
    <3>2. CASE lost # {}
      <4>1. PICK A : A = Closed(q) \cup lost
        OBVIOUS
      <4>2. PICK B : B = Pending(r)
        OBVIOUS
      <4>3. PICK id : id = p.nextSequence
        OBVIOUS
      <4>4. Live(q) \subseteq Live(p) \cup {id}
        BY <1>2, <4>3 DEF Edit, PlacesEdited
      <4>5. B \subseteq Live(r)
        BY <4>2 DEF Sound, Scheduled
      <4>6. Closed(q) \cap Live(q) = {}
        BY <1>2 DEF Edit, Sound, Scheduled
      <4>7. A \subseteq Live(s) \cup {id} /\ B \subseteq Live(s) \cup {id} /\ A \cap B = {}
        BY <1>5, <1>10, <1>11, <1>12, <2>1, <4>1, <4>4, <4>5, <4>6
      <4>8. /\ Cardinality(A) \in Nat /\ Cardinality(B) \in Nat
            /\ Cardinality(Live(s)) \in Nat
            /\ Cardinality(A) + Cardinality(B) <= Cardinality(Live(s)) + 1
        BY <1>6, <4>7, PartsCount
      <4>9. Cardinality(B) >= s.limits.maxPending /\ s.limits.maxPending \in Nat \ {0}
        BY <1>10, <2>2, <3>2, <4>2 DEF Sound, IsState, SchedulerLimits
      <4> QED BY <1>7, <4>1, <4>8, <4>9
    <3> QED BY <3>1, <3>2
  <2>4. Closed(r) = late \cup gone \cup lost
    BY <1>7, <1>10, <1>12, <2>2, <2>3
  <2> QED BY <1>5, <1>11, <2>1, <2>4
<1> QED BY <1>2, <1>13, <1>14

\* Whatever one method closes, by its timeouts, by the call and by
\* suppression, its caller finds the records of all of it: the capacity of
\* `closed` suffices for everything that can be live.
THEOREM CloseRecordsStay == Spec => CloseRecordKept
<1> DEFINE RecordsStay ==
      /\ Closed(sched) = {}
      /\ sched'.limits = sched.limits
      /\ Cardinality(Live(sched)) <=
           sched.limits.maxPending + sched.limits.maxVisible + 1
      => ClosedNow \subseteq Closed(sched')
<1>1. ASSUME Orderly, [Next]_vars PROVE RecordsStay
  <2>1. Moved(sched, sched') /\ Sound(sched) /\ Sound(sched')
    BY <1>1, StepMoves DEF Orderly
  <2>2. CASE Quiet(sched, sched')
    BY <2>2 DEF Quiet, ClosedNow, Live
  <2>3. ASSUME NEW now, Reached(sched, now, sched'), Closed(sched) = {},
               sched'.limits = sched.limits,
               Cardinality(Live(sched)) <=
                 sched.limits.maxPending + sched.limits.maxVisible + 1
        PROVE  Live(sched) \ Live(sched') \subseteq Closed(sched')
    <3>1. Cardinality(Live(sched)) <= ClosedCapacity(sched.limits)
      BY <2>3 DEF ClosedCapacity
    <3> QED BY <2>1, <2>3, <3>1, ReachedRecords
  <2> QED BY <2>1, <2>2, <2>3 DEF Moved, ClosedNow
<1>2. Orderly /\ [Next]_vars => [RecordsStay]_vars
  BY <1>1
<1> QED BY <1>2, AlwaysOrderly, PTL DEF Spec, CloseRecordKept

-----------------------------------------------------------------------------
(* The timers.                                                             *)

\* A timer has not run for longer than its timeout.
Fits(t, now) ==
  t.left # Never /\ t.since # None => t.since <= now /\ now - t.since <= t.left

\* What is left of a timeout.
Rest(t, now) == t.left - (IF t.since = None THEN 0 ELSE now - t.since)

\* The same timeout with the same rest, whether it runs or not.
TimerKept(u, t, now) ==
  /\ t.left = Never <=> u.left = Never
  /\ Fits(u, now) => /\ Fits(t, now)
                     /\ u.left # Never => Rest(t, now) = Rest(u, now)

\* set_running.
LEMMA SetRunningCounts ==
  ASSUME NEW u \in Timer, NEW now \in Nat, NEW running \in BOOLEAN,
         NEW t, t = SetRunning(u, now, running)
  PROVE  /\ TimerKept(u, t, now)
         /\ t.left # Never => (t.since # None <=> running)
<1>1. /\ u.left \in Nat \cup {Never} /\ u.since \in Nat \cup {None}
      /\ None \notin Nat /\ Never \notin Nat
  BY SchedulerConstants DEF Timer
<1>2. CASE u.left = Never \/ (u.since # None) = running
  <2>1. t = u
    BY <1>2 DEF SetRunning
  <2> QED BY <1>2, <2>1 DEF TimerKept
<1>3. CASE ~(u.left = Never \/ (u.since # None) = running) /\ running
  <2>1. t = [u EXCEPT !.since = now]
    BY <1>3 DEF SetRunning
  <2>2. t.left = u.left /\ t.since = now /\ u.since = None /\ u.left # Never
    BY <1>3, <2>1 DEF Timer
  <2>3. u.left \in Nat /\ now # None
    BY <1>1, <2>2
  <2>4. Fits(t, now) /\ Rest(t, now) = Rest(u, now)
    BY <2>2, <2>3 DEF Fits, Rest
  <2> QED BY <1>3, <2>2, <2>3, <2>4 DEF TimerKept
<1>4. CASE ~(u.left = Never \/ (u.since # None) = running) /\ ~running
  <2>1. t = [left |-> LeftAfter(u, now), since |-> None]
    BY <1>4 DEF SetRunning
  <2>2. t.left = LeftAfter(u, now) /\ t.since = None /\ u.since # None /\ u.left # Never
    BY <1>4, <2>1
  <2>3. u.left \in Nat /\ u.since \in Nat
    BY <1>1, <2>2
  <2>4. t.left # Never
    <3>1. LeftAfter(u, now) \in Int
      BY <2>3 DEF LeftAfter
    <3>2. LeftAfter(u, now) >= 0
      BY <2>3 DEF LeftAfter
    <3> QED BY <1>1, <2>2, <3>1, <3>2
  <2>5. Fits(t, now)
    BY <2>2 DEF Fits
  <2>6. ASSUME Fits(u, now) PROVE Rest(t, now) = Rest(u, now)
    <3>1. u.since <= now /\ now - u.since <= u.left
      BY <2>2, <2>6 DEF Fits
    <3>2. LeftAfter(u, now) = u.left - (now - u.since)
      BY <2>3, <3>1 DEF LeftAfter
    <3> QED BY <2>2, <2>3, <3>2 DEF Rest
  <2> QED BY <1>4, <2>2, <2>4, <2>5, <2>6 DEF TimerKept
<1> QED BY <1>2, <1>3, <1>4

\* Keeping a timer twice is keeping it.
LEMMA TimerKeptChains ==
  ASSUME NEW u, NEW v, NEW t, NEW now, TimerKept(u, v, now), TimerKept(v, t, now)
  PROVE  TimerKept(u, t, now)
BY DEF TimerKept

\* Whatever ends with rebalance keeps the timers, ...
LEMMA ArrangedTimers ==
  ASSUME NEW q, Sound(q), NEW r, Arranged(q, r), NEW i \in Live(r)
  PROVE  /\ TimerKept(q.entries[i].timer, r.entries[i].timer, q.lastNow)
         /\ i \in Toasts(r) /\ r.entries[i].timer.left # Never =>
              (r.entries[i].timer.since # None <=>
                 ToastTimerShouldRun(r, i) /\ r.entries[i].nonce = None)
<1>1. i \in Live(q) /\ r.entries[i].nonce = q.entries[i].nonce
  BY DEF Arranged, Kept
<1>2. q.entries[i].timer \in Timer /\ q.lastNow \in Nat
  <2>1. q.entries \in [Live(q) -> Entry]
    BY MembersAreIds DEF Sound
  <2> QED BY <1>1, <2>1 DEF Entry, Sound, IsState
<1>3. CASE i \in Toasts(r)
  <2>1. PICK running \in BOOLEAN :
          running <=> ToastTimerShouldRun(r, i) /\ q.entries[i].nonce = None
    OBVIOUS
  <2>2. r.entries[i].timer = SetRunning(q.entries[i].timer, q.lastNow, running)
    <3>1. r.entries[i].timer =
            SetRunning(q.entries[i].timer, q.lastNow,
                       ToastTimerShouldRun(r, i) /\ q.entries[i].nonce = None)
      BY <1>3 DEF Arranged, Timed
    <3> QED BY <2>1, <3>1
  <2>3. /\ TimerKept(q.entries[i].timer, r.entries[i].timer, q.lastNow)
        /\ r.entries[i].timer.left # Never =>
             (r.entries[i].timer.since # None <=> running)
    BY <1>2, <2>2, SetRunningCounts
  <2> QED BY <1>1, <2>1, <2>3
<1>4. CASE i \notin Toasts(r)
  <2>1. r.entries[i].timer = q.entries[i].timer
    BY <1>4 DEF Arranged, Timed
  <2> QED BY <1>4, <2>1 DEF TimerKept
<1> QED BY <1>3, <1>4

\* Off the screen no timer runs.
Idle(s) ==
  \A i \in Live(s) \ Toasts(s) :
    s.entries[i].timer.left = Never \/ s.entries[i].timer.since = None

\* ... starts those on the screen and stops the others.
LEMMA ArrangedRuns ==
  ASSUME NEW q, Sound(q), Idle(q), NEW r, Arranged(q, r)
  PROVE  Runs(r)
<1> SUFFICES ASSUME NEW i \in Live(r), r.entries[i].timer.left # Never
             PROVE  /\ r.entries[i].timer.since # None => ToastTimerShouldRun(r, i)
                    /\ ToastTimerShouldRun(r, i) /\ r.entries[i].nonce = None =>
                         r.entries[i].timer.since # None
  BY DEF Runs
<1>1. CASE i \in Toasts(r)
  BY <1>1, ArrangedTimers
<1>2. CASE i \notin Toasts(r)
  <2>1. /\ r.entries[i].timer = q.entries[i].timer
        /\ i \in Live(q) /\ i \notin Toasts(q)
    BY <1>2 DEF Arranged, Timed, Kept, Seated
  <2>2. r.entries[i].timer.since = None
    BY <2>1 DEF Idle
  <2> QED BY <1>2, <2>2 DEF ToastTimerShouldRun
<1> QED BY <1>1, <1>2

\* What a method edits keeps its timer, or starts with all of its timeout.
Anew(t, timeout, now) == t.left = timeout /\ (t.since # None => t.since = now)

LEMMA EditTimers ==
  ASSUME NEW p, Sound(p), NEW q, Edit(p, q), NEW i \in Live(q)
  PROVE  IF SameDraft(p, q, i)
         THEN TimerKept(p.entries[i].timer, q.entries[i].timer, p.lastNow)
         ELSE Anew(q.entries[i].timer, q.entries[i].draft.timeout, p.lastNow)
<1>1. CASE ~SameDraft(p, q, i)
  BY <1>1 DEF Edit, TimersEdited, Anew
<1>2. CASE SameDraft(p, q, i)
  <2>1. p.entries[i].timer \in Timer /\ p.lastNow \in Nat
    <3>1. p.entries \in [Live(p) -> Entry]
      BY MembersAreIds DEF Sound
    <3> QED BY <1>2, <3>1 DEF Entry, Sound, IsState, SameDraft
  <2>2. \/ q.entries[i].timer = p.entries[i].timer
        \/ \E running \in BOOLEAN :
             q.entries[i].timer = SetRunning(p.entries[i].timer, p.lastNow, running)
    BY <1>2 DEF Edit, TimersEdited
  <2>3. CASE q.entries[i].timer = p.entries[i].timer
    BY <1>2, <2>3 DEF TimerKept
  <2>4. ASSUME NEW running \in BOOLEAN,
               q.entries[i].timer = SetRunning(p.entries[i].timer, p.lastNow, running)
        PROVE  TimerKept(p.entries[i].timer, q.entries[i].timer, p.lastNow)
    BY <2>1, <2>4, SetRunningCounts
  <2> QED BY <1>2, <2>2, <2>3, <2>4
<1> QED BY <1>1, <1>2

\* ... and what leaves the screen stops.
LEMMA EditIdles ==
  ASSUME NEW p, Sound(p), Runs(p), NEW q, Edit(p, q)
  PROVE  Idle(q)
<1> SUFFICES ASSUME NEW i \in Live(q) \ Toasts(q), q.entries[i].timer.left # Never
             PROVE  q.entries[i].timer.since = None
  BY DEF Idle
<1>1. CASE i \in Toasts(p)
  BY <1>1 DEF Edit, TimersEdited
<1>2. CASE i \notin Toasts(p) /\ ~SameDraft(p, q, i)
  BY <1>2 DEF Edit, TimersEdited
<1>3. CASE i \notin Toasts(p) /\ SameDraft(p, q, i)
  <2>1. p.entries[i].timer \in Timer /\ p.lastNow \in Nat /\ i \in Live(p)
    <3>1. p.entries \in [Live(p) -> Entry]
      BY MembersAreIds DEF Sound
    <3> QED BY <1>3, <3>1 DEF Entry, Sound, IsState, SameDraft
  <2>2. \/ q.entries[i].timer = p.entries[i].timer
        \/ \E running \in BOOLEAN :
             /\ q.entries[i].timer = SetRunning(p.entries[i].timer, p.lastNow, running)
             /\ ~running
    BY <1>3 DEF Edit, TimersEdited
  <2>3. CASE q.entries[i].timer = p.entries[i].timer
    BY <1>3, <2>1, <2>3 DEF Runs, ToastTimerShouldRun
  <2>4. ASSUME NEW running \in BOOLEAN, ~running,
               q.entries[i].timer = SetRunning(p.entries[i].timer, p.lastNow, running)
        PROVE  q.entries[i].timer.since = None
    BY <2>1, <2>4, SetRunningCounts
  <2> QED BY <2>2, <2>3, <2>4
<1> QED BY <1>1, <1>2, <1>3

\* Every running timer is within its timeout, and only Timeout::Never never ends.
Measured(s) ==
  \A i \in Live(s) :
    /\ Fits(s.entries[i].timer, s.lastNow)
    /\ s.entries[i].timer.left = Never <=> s.entries[i].draft.timeout = Never

\* A Notification with the content it had keeps what is left of its timeout,
\* one with new content has all of it.
Counted(s, r) ==
  \A i \in Live(r) :
    LET t == r.entries[i].timer
    IN  t.left # Never =>
          Rest(t, r.lastNow) =
            IF SameDraft(s, r, i) THEN Rest(s.entries[i].timer, r.lastNow)
            ELSE r.entries[i].draft.timeout

\* New content starts with all of its timeout.
LEMMA AnewCounts ==
  ASSUME NEW t, NEW timeout \in Timeouts, NEW now \in Nat, Anew(t, timeout, now)
  PROVE  /\ Fits(t, now) /\ t.left = timeout
         /\ t.left # Never => Rest(t, now) = timeout
<1>1. timeout # Never => timeout \in Nat
  BY SchedulerConstants DEF Timeouts
<1> QED BY <1>1 DEF Anew, Fits, Rest

\* The close of the Toasts whose time is up leaves no timer past its timeout.
LEMMA ClearedMeasured ==
  ASSUME NEW s, Sound(s), Runs(s), Measured(s), NEW now \in Nat, s.lastNow <= now,
         NEW c, ClearedFrom(s, now, c)
  PROVE  /\ Idle(c)
         /\ \A i \in Live(c) : i \in Live(s) /\ c.entries[i] = s.entries[i]
                               /\ Fits(s.entries[i].timer, now)
<1>1. /\ Live(c) = Live(s) \ Overdue(s, now) /\ Toasts(c) = Toasts(s) \ Overdue(s, now)
      /\ \A i \in Live(c) : i \in Live(s) /\ c.entries[i] = s.entries[i]
  BY DEF ClearedFrom, Untouched
<1>2. Idle(c)
  <2> SUFFICES ASSUME NEW i \in Live(c) \ Toasts(c), s.entries[i].timer.left # Never
               PROVE  s.entries[i].timer.since = None
    BY <1>1 DEF Idle
  <2>1. i \in Live(s) /\ i \notin Toasts(s)
    BY <1>1
  <2> QED BY <2>1 DEF Runs, ToastTimerShouldRun
<1>3. ASSUME NEW i \in Live(c) PROVE Fits(s.entries[i].timer, now)
  <2>1. PICK t \in Timer : t = s.entries[i].timer
    <3>1. s.entries \in [Live(s) -> Entry]
      BY MembersAreIds DEF Sound
    <3> QED BY <1>1, <3>1 DEF Entry
  <2>2. SUFFICES ASSUME t.left # Never, t.since # None
                 PROVE  t.since <= now /\ now - t.since <= t.left
    BY <2>1 DEF Fits
  <2>3. t.left \in Nat /\ t.since \in Nat /\ s.lastNow \in Nat
    BY <2>2 DEF Timer, Sound, IsState
  <2>4. t.since <= s.lastNow
    BY <1>1, <2>1, <2>2 DEF Measured, Fits
  <2>5. i \in Toasts(s) /\ i \notin Overdue(s, now)
    BY <1>1, <2>1, <2>2 DEF Runs, ToastTimerShouldRun
  <2>6. ~(now - t.since >= t.left)
    BY <2>1, <2>2, <2>5 DEF Overdue, Expired
  <2> QED BY <2>3, <2>4, <2>6
<1> QED BY <1>1, <1>2, <1>3

\* The timers after a method.
LEMMA ReachedTimers ==
  ASSUME NEW s, Sound(s), Runs(s), Measured(s), NEW now \in Nat, s.lastNow <= now,
         NEW r, Sound(r), Reached(s, now, r)
  PROVE  Runs(r) /\ Measured(r) /\ r.lastNow = now /\ Counted(s, r)
<1>1. PICK p : Prepared(s, now, p) /\ Leads(p, r)
  BY DEF Reached
<1>2. PICK q : Edit(p, q) /\ (Rebalanced(p, q, r) \/ Still(p, q, r))
  BY <1>1 DEF Leads
<1>3. PICK c : ClearedFrom(s, now, c) /\ Arranged(c, p) /\ Live(p) = Live(c)
  BY <1>1 DEF Prepared
<1>4. Sound(c) /\ Sound(p) /\ Sound(q) /\ c.lastNow = now /\ p.lastNow = now /\ q.lastNow = now
  BY <1>1, <1>2, <1>3 DEF ClearedFrom, Prepared, Edit
<1>5. /\ Idle(c)
      /\ \A i \in Live(c) : i \in Live(s) /\ c.entries[i] = s.entries[i]
                            /\ Fits(s.entries[i].timer, now)
  BY <1>3, ClearedMeasured
<1>6. Runs(p) /\ Idle(q)
  BY <1>2, <1>3, <1>4, <1>5, ArrangedRuns, EditIdles
<1>7. /\ Runs(r) /\ r.lastNow = now
      /\ \A i \in Live(r) :
           /\ i \in Live(q) /\ r.entries[i].draft = q.entries[i].draft
           /\ TimerKept(q.entries[i].timer, r.entries[i].timer, now)
  <2>1. CASE Rebalanced(p, q, r)
    <3>1. Arranged(q, r)
      BY <2>1 DEF Rebalanced
    <3>2. Runs(r)
      BY <1>4, <1>6, <3>1, ArrangedRuns
    <3>3. \A i \in Live(r) : TimerKept(q.entries[i].timer, r.entries[i].timer, now)
      BY <1>4, <3>1, ArrangedTimers
    <3> QED BY <1>4, <3>1, <3>2, <3>3 DEF Arranged, Kept, SameFrame
  <2>2. CASE Still(p, q, r)
    BY <1>4, <1>6, <2>2 DEF Still, SameFrame, Live, TimerKept
  <2> QED BY <1>2, <2>1, <2>2
<1>8. PreparedFrom(s, now, p)
  BY <1>1, PreparedKeeps
<1>9. ASSUME NEW i \in Live(r)
      PROVE  /\ Fits(r.entries[i].timer, now)
             /\ r.entries[i].timer.left = Never <=> r.entries[i].draft.timeout = Never
             /\ r.entries[i].timer.left # Never =>
                  Rest(r.entries[i].timer, now) =
                    IF SameDraft(s, r, i) THEN Rest(s.entries[i].timer, now)
                    ELSE r.entries[i].draft.timeout
  <2>1. /\ i \in Live(q) /\ r.entries[i].draft = q.entries[i].draft
        /\ TimerKept(q.entries[i].timer, r.entries[i].timer, now)
    BY <1>7
  <2>2. CASE SameDraft(p, q, i)
    <3>1. i \in Live(p) /\ i \in Live(c) /\ i \in Live(s)
      BY <1>3, <1>5, <2>2 DEF SameDraft
    <3>2. TimerKept(p.entries[i].timer, q.entries[i].timer, now)
      BY <1>2, <1>4, <2>1, <2>2, EditTimers
    <3>3. TimerKept(c.entries[i].timer, p.entries[i].timer, now)
      BY <1>3, <1>4, <3>1, ArrangedTimers
    <3>4. TimerKept(s.entries[i].timer, p.entries[i].timer, now)
      BY <1>5, <3>1, <3>3
    <3>5. TimerKept(s.entries[i].timer, r.entries[i].timer, now)
      BY <2>1, <3>2, <3>4, TimerKeptChains
    <3>6. Fits(s.entries[i].timer, now)
      BY <1>5, <3>1
    <3>7. p.entries[i].draft = s.entries[i].draft
      BY <1>8, <3>1 DEF PreparedFrom
    <3>8. r.entries[i].draft = s.entries[i].draft /\ SameDraft(s, r, i)
      BY <2>1, <2>2, <3>1, <3>7 DEF SameDraft
    <3>9. s.entries[i].timer.left = Never <=> s.entries[i].draft.timeout = Never
      BY <3>1 DEF Measured
    <3> QED BY <3>5, <3>6, <3>8, <3>9 DEF TimerKept
  <2>3. CASE ~SameDraft(p, q, i)
    <3>1. Anew(q.entries[i].timer, q.entries[i].draft.timeout, now)
      BY <1>2, <1>4, <2>1, <2>3, EditTimers
    <3>2. q.entries[i].draft.timeout \in Timeouts
      <4>1. q.entries \in [Live(q) -> Entry]
        BY <1>4, MembersAreIds DEF Sound
      <4> QED BY <2>1, <4>1 DEF Entry, Draft
    <3>3. /\ Fits(q.entries[i].timer, now)
          /\ q.entries[i].timer.left = q.entries[i].draft.timeout
          /\ q.entries[i].timer.left # Never =>
               Rest(q.entries[i].timer, now) = q.entries[i].draft.timeout
      BY <3>1, <3>2, AnewCounts
    <3>4. ~SameDraft(s, r, i)
      <4>1. CASE i \in Live(p)
        <5>1. p.entries[i].draft = s.entries[i].draft
          BY <1>8, <4>1 DEF PreparedFrom
        <5> QED BY <2>1, <2>3, <4>1, <5>1 DEF SameDraft
      <4>2. CASE i \notin Live(p)
        <5>1. i = p.nextSequence
          BY <1>2, <2>1, <4>2 DEF Edit, PlacesEdited
        <5> QED BY <1>8, <5>1 DEF PreparedFrom, SameDraft
      <4> QED BY <4>1, <4>2
    <3> QED BY <2>1, <3>3, <3>4 DEF TimerKept
  <2> QED BY <2>2, <2>3
<1> QED BY <1>7, <1>9 DEF Measured, Counted

-----------------------------------------------------------------------------
\* The timers after a step.
LEMMA MovedTimers ==
  ASSUME NEW s, Sound(s), Runs(s), Measured(s), NEW r, Sound(r), Moved(s, r)
  PROVE  /\ Runs(r) /\ Measured(r) /\ Counted(s, r)
         /\ s.lastNow <= r.lastNow
<1>1. CASE Quiet(s, r)
  <2>1. /\ Live(r) = Live(s) /\ Toasts(r) = Toasts(s) /\ r.entries = s.entries
        /\ r.lastNow = s.lastNow /\ r.available = s.available /\ r.attention = s.attention
    BY <1>1 DEF Quiet, Live, Toasts
  <2>2. Runs(r)
    BY <2>1 DEF Runs, ToastTimerShouldRun
  <2>3. Measured(r) /\ Counted(s, r)
    BY <2>1 DEF Measured, Counted, SameDraft
  <2>4. s.lastNow \in Nat
    BY DEF Sound, IsState
  <2> QED BY <2>1, <2>2, <2>3, <2>4
<1>2. ASSUME NEW now \in Nat, s.lastNow <= now, Reached(s, now, r)
      PROVE  /\ Runs(r) /\ Measured(r) /\ Counted(s, r)
             /\ s.lastNow <= r.lastNow
  BY <1>2, ReachedTimers
<1> QED BY <1>1, <1>2 DEF Moved

\* Who timed out was overdue.
LEMMA ReachedTimesOut ==
  ASSUME NEW s, Sound(s), NEW now, NEW r, Sound(r), Reached(s, now, r),
         NEW i \in (Live(s) \ Live(r)) \cap Closed(r), r.closedAs[i] = "TimedOut"
  PROVE  i \in Overdue(s, now) /\ r.lastNow = now
<1>1. PICK p : Prepared(s, now, p) /\ Leads(p, r)
  BY DEF Reached
<1>2. PICK q : Edit(p, q) /\ (Rebalanced(p, q, r) \/ Still(p, q, r))
  BY <1>1 DEF Leads
<1>3. \A j \in Closed(p) :
        \/ j \in Overdue(s, now) /\ p.closedAs[j] = "TimedOut"
        \/ j \in Closed(s) /\ p.closedAs[j] = s.closedAs[j]
  <2>1. PreparedFrom(s, now, p)
    BY <1>1, PreparedKeeps
  <2> QED BY <2>1 DEF PreparedFrom
<1>4. i \notin Closed(s)
  BY DEF Sound, Scheduled
<1>5. i \in Closed(q) /\ q.closedAs[i] = "TimedOut"
  <2>1. CASE Rebalanced(p, q, r)
    BY <2>1 DEF Rebalanced, Arranged, Suppressed
  <2>2. CASE Still(p, q, r)
    <3>1. Closed(r) = Closed(q) /\ r.closedAs = q.closedAs
      BY <2>2 DEF Still, Closed
    <3> QED BY <3>1
  <2> QED BY <1>2, <2>1, <2>2
<1>6. i \in Closed(p) /\ p.closedAs[i] = "TimedOut"
  BY <1>2, <1>5 DEF Edit, RecordsEdited
<1>7. r.lastNow = now
  <2>1. q.lastNow = now
    BY <1>1, <1>2 DEF Prepared, Edit
  <2> QED BY <1>2, <2>1 DEF Rebalanced, Arranged, Still, SameFrame
<1> QED BY <1>3, <1>4, <1>6, <1>7

\* TimeoutCountsShownTime of a state s with the history h.
CountsTrue(s, h) ==
  \A i \in Live(s) :
    LET e        == s.entries[i]
        running  == IF e.timer.since = None THEN 0 ELSE s.lastNow - e.timer.since
        consumed == e.draft.timeout - e.timer.left + running
    IN  e.timer.left # Never =>
          /\ consumed <= h[i].total
          /\ consumed >= h[i].total - h[i].pinned

\* The time a step adds to the history.
Passed(s, r, i) == IF i \in Shown(s) THEN r.lastNow - s.lastNow ELSE 0

\* A Toast with a timeout is on the screen exactly when its timer should run.
LEMMA ShownToasts ==
  ASSUME NEW s, Sound(s), Measured(s), NEW i \in Live(s),
         s.entries[i].timer.left # Never
  PROVE  i \in Shown(s) <=> ToastTimerShouldRun(s, i)
<1>1. s.entries[i].draft \in Draft /\ s.entries[i].draft.timeout # Never
  <2>1. s.entries \in [Live(s) -> Entry]
    BY MembersAreIds DEF Sound
  <2> QED BY <2>1 DEF Entry, Measured
<1>2. s.entries[i].draft.pres # "attention"
  BY <1>1 DEF Draft
<1>3. s.attention # None => s.attention # i
  BY <1>2 DEF Sound, Scheduled, OfKind
<1> QED BY <1>3 DEF Shown, ToastTimerShouldRun

\* The numbers of a timer with a timeout.
LEMMA TimerNumbers ==
  ASSUME NEW s, Sound(s), Measured(s), NEW i \in Live(s),
         s.entries[i].timer.left # Never
  PROVE  /\ s.entries[i].timer.left \in Nat /\ s.entries[i].draft.timeout \in Nat
         /\ s.entries[i].timer.since \in Nat \cup {None} /\ s.lastNow \in Nat
<1>1. s.entries[i] \in Entry
  <2>1. s.entries \in [Live(s) -> Entry]
    BY MembersAreIds DEF Sound
  <2> QED BY <2>1
<1>2. /\ s.entries[i].timer.left \in Nat \cup {Never}
      /\ s.entries[i].timer.since \in Nat \cup {None}
      /\ s.entries[i].draft.timeout \in Timeouts
  BY <1>1 DEF Entry, Timer, Draft
<1>3. s.entries[i].draft.timeout # Never
  BY DEF Measured
<1>4. s.lastNow \in Nat
  BY DEF Sound, IsState
<1> QED BY <1>2, <1>3, <1>4, SchedulerConstants DEF Timeouts

\* The history stays true.
LEMMA CountsStep ==
  ASSUME NEW s, Sound(s), Runs(s), Measured(s), NEW r, Sound(r), Measured(r),
         Counted(s, r), s.lastNow <= r.lastNow,
         NEW h, h \in [Ids -> [total : Nat, pinned : Nat]], CountsTrue(s, h), NEW g,
         \A i \in Live(r) :
           IF SameDraft(s, r, i)
           THEN /\ g[i].total = h[i].total + Passed(s, r, i)
                /\ g[i].pinned = h[i].pinned +
                     (IF s.entries[i].nonce = None THEN 0 ELSE Passed(s, r, i))
           ELSE g[i].total = 0 /\ g[i].pinned = 0
  PROVE  CountsTrue(r, g)
<1> SUFFICES ASSUME NEW i \in Live(r), r.entries[i].timer.left # Never
             PROVE  LET e        == r.entries[i]
                        running  == IF e.timer.since = None THEN 0
                                    ELSE r.lastNow - e.timer.since
                        consumed == e.draft.timeout - e.timer.left + running
                    IN  /\ consumed <= g[i].total
                        /\ consumed >= g[i].total - g[i].pinned
  BY DEF CountsTrue
<1>1. /\ r.entries[i].timer.left \in Nat /\ r.entries[i].draft.timeout \in Nat
      /\ r.entries[i].timer.since \in Nat \cup {None} /\ r.lastNow \in Nat
  BY TimerNumbers
<1>2. PICK left, since, timeout, now, rest :
        /\ left = r.entries[i].timer.left /\ since = r.entries[i].timer.since
        /\ timeout = r.entries[i].draft.timeout /\ now = r.lastNow
        /\ rest = left - (IF since = None THEN 0 ELSE now - since)
  OBVIOUS
<1>3. /\ left \in Nat /\ timeout \in Nat /\ since \in Nat \cup {None} /\ now \in Nat
      /\ rest \in Int
  BY <1>1, <1>2
<1>4. timeout - left + (IF since = None THEN 0 ELSE now - since) = timeout - rest
  BY <1>2, <1>3
<1>5. rest = IF SameDraft(s, r, i) THEN Rest(s.entries[i].timer, now) ELSE timeout
  BY <1>2 DEF Counted, Rest
<1>6. SUFFICES timeout - rest <= g[i].total /\ timeout - rest >= g[i].total - g[i].pinned
  BY <1>2, <1>4
<1>7. CASE ~SameDraft(s, r, i)
  BY <1>3, <1>5, <1>7
<1>8. CASE SameDraft(s, r, i)
  <2>1. i \in Live(s) /\ s.entries[i].draft.timeout = timeout /\ i \in Ids
    BY <1>2, <1>8, MembersAreIds DEF SameDraft, Sound
  <2>2. s.entries[i].timer.left # Never
    BY <1>1, <1>2, <2>1, SchedulerConstants DEF Measured
  <2>3. PICK l0, s0, t0 : /\ l0 = s.entries[i].timer.left /\ s0 = s.entries[i].timer.since
                          /\ t0 = s.lastNow
    OBVIOUS
  <2>4. l0 \in Nat /\ s0 \in Nat \cup {None} /\ t0 \in Nat /\ t0 <= now
    BY <1>2, <2>1, <2>2, <2>3, TimerNumbers
  <2>5. PICK total \in Nat, pinned \in Nat : total = h[i].total /\ pinned = h[i].pinned
    BY <2>1
  <2>6. PICK c0 : c0 = timeout - l0 + (IF s0 = None THEN 0 ELSE t0 - s0)
    OBVIOUS
  <2>7. c0 \in Int /\ c0 <= total /\ c0 >= total - pinned
    BY <1>3, <2>1, <2>2, <2>3, <2>4, <2>5, <2>6 DEF CountsTrue
  <2>8. PICK passed \in Nat : /\ passed = Passed(s, r, i)
                              /\ i \in Shown(s) => passed = now - t0
                              /\ i \notin Shown(s) => passed = 0
    BY <1>2, <1>3, <2>3, <2>4 DEF Passed
  <2>9. /\ g[i].total = total + passed
        /\ g[i].pinned = pinned + (IF s.entries[i].nonce = None THEN 0 ELSE passed)
    BY <1>8, <2>5, <2>8
  <2>10. rest = l0 - (IF s0 = None THEN 0 ELSE now - s0)
    BY <1>5, <1>8, <2>3 DEF Rest
  <2>11. timeout - rest = c0 + (IF s0 = None THEN 0 ELSE now - t0)
    BY <1>3, <2>4, <2>6, <2>10
  <2>12. /\ s0 # None => i \in Shown(s)
         /\ i \in Shown(s) /\ s.entries[i].nonce = None => s0 # None
    <3>1. i \in Shown(s) <=> ToastTimerShouldRun(s, i)
      BY <2>1, <2>2, ShownToasts
    <3> QED BY <2>1, <2>2, <2>3, <3>1 DEF Runs
  <2>13. CASE s0 # None
    <3>1. passed = now - t0 /\ timeout - rest = c0 + passed
      BY <2>8, <2>11, <2>12, <2>13
    <3>2. g[i].total = total + passed /\ (g[i].pinned = pinned \/ g[i].pinned = pinned + passed)
      BY <2>9
    <3> QED BY <2>7, <2>8, <3>1, <3>2
  <2>14. CASE s0 = None
    <3>1. timeout - rest = c0
      BY <2>7, <2>11, <2>14
    <3>2. passed = 0 \/ g[i].pinned = pinned + passed
      BY <2>8, <2>9, <2>12, <2>14
    <3>3. g[i].pinned = pinned \/ g[i].pinned = pinned + passed
      BY <2>9
    <3> QED BY <2>7, <2>8, <2>9, <3>1, <3>2, <3>3
  <2> QED BY <2>13, <2>14
<1> QED BY <1>7, <1>8

\* The invariant of the timers.
Timely == Orderly /\ Runs(sched) /\ Measured(sched) /\ TimeoutCountsShownTime

\* The step of a caller adds to the history what the model records.
LEMMA HistoryGrows ==
  ASSUME Sound(sched), Sound(sched'), RecordShown
  PROVE  \A i \in Live(sched') :
           IF SameDraft(sched, sched', i)
           THEN /\ shownFor'[i].total = shownFor[i].total + Passed(sched, sched', i)
                /\ shownFor'[i].pinned = shownFor[i].pinned +
                     (IF sched.entries[i].nonce = None THEN 0
                      ELSE Passed(sched, sched', i))
           ELSE shownFor'[i].total = 0 /\ shownFor'[i].pinned = 0
<1>1. Live(sched') \subseteq Ids
  BY MembersAreIds DEF Sound
<1>2. \A i : SameDraft(sched, sched', i) <=> SameContent(i)
  BY DEF SameDraft, SameContent
<1>3. \A i : ShownNow(i) = Passed(sched, sched', i)
  BY DEF ShownNow, Passed
<1> QED BY <1>1, <1>2, <1>3 DEF RecordShown

\* Every step keeps it.
LEMMA NextTimely == Timely /\ [Next]_vars => Timely'
<1> SUFFICES ASSUME Timely, [Next]_vars PROVE Timely'
  OBVIOUS
<1>1. /\ Orderly' /\ Moved(sched, sched') /\ Sound(sched) /\ Sound(sched')
      /\ HistoryType
  BY StepMoves, NextOrderly DEF Timely, Orderly, IInv
<1>2. /\ Runs(sched') /\ Measured(sched') /\ Counted(sched, sched')
      /\ sched.lastNow <= sched'.lastNow
  BY <1>1, MovedTimers DEF Timely
<1>3. TimeoutCountsShownTime'
  <2>1. CASE UNCHANGED vars
    BY <2>1 DEF vars, Timely, TimeoutCountsShownTime
  <2>2. CASE RecordShown
    <3>1. CountsTrue(sched, shownFor)
      BY DEF CountsTrue, Timely, TimeoutCountsShownTime
    <3>2. CountsTrue(sched', shownFor')
      BY <1>1, <1>2, <2>2, <3>1, HistoryGrows, CountsStep DEF Timely, HistoryType
    <3> QED BY <3>2 DEF CountsTrue, TimeoutCountsShownTime
  <2> QED BY <2>1, <2>2 DEF Next
<1>4. (Runs(sched') => Runs(sched)') /\ (Measured(sched') => Measured(sched)')
  BY DEF Runs, Measured, ToastTimerShouldRun, Live, Toasts
<1> QED BY <1>1, <1>2, <1>3, <1>4 DEF Timely

\* The time a Toast was shown for is what its timer has counted, and it does
\* not time out before that is all of its timeout.
THEOREM TimeoutsStayExact == Spec => TimeoutsAreExact
<1>1. Init => Timely
  <2> SUFFICES ASSUME Init PROVE Timely
    OBVIOUS
  <2>1. Orderly
    BY InitIInv, InitPlaced DEF Orderly
  <2>2. Live(sched) = {}
    <3>1. PICK limits \in LimitsSet : sched = NewScheduler(limits, 0)
      BY DEF Init
    <3> QED BY <3>1, NewSchedulerSound, CallerConstants
  <2> QED BY <2>1, <2>2 DEF Timely, Runs, Measured, TimeoutCountsShownTime
<1>2. Timely => TimerRunsWhileShown
  <2> SUFFICES ASSUME Timely, NEW i \in Live(sched),
                      sched.entries[i].timer.left # Never
               PROVE  LET running == sched.entries[i].timer.since # None
                          shown   == sched.attention = None /\ i \in Shown(sched)
                      IN  /\ running => shown
                          /\ shown /\ sched.entries[i].nonce = None => running
    BY DEF TimerRunsWhileShown
  <2>1. ToastTimerShouldRun(sched, i) <=> sched.attention = None /\ i \in Shown(sched)
    BY DEF ToastTimerShouldRun, Shown
  <2> QED BY <2>1 DEF Timely, Runs
<1>3. Timely => TimeoutCountsShownTime
  BY DEF Timely
<1>4. ASSUME Timely, [Next]_vars PROVE NeverTimesOutEarly
  <2> SUFFICES ASSUME NEW i \in ClosedNow \cap Closed(sched'),
                      sched'.closedAs[i] = "TimedOut"
               PROVE  shownFor[i].total + ShownNow(i) >= sched.entries[i].draft.timeout
    BY DEF NeverTimesOutEarly
  <2>1. /\ Moved(sched, sched') /\ Sound(sched) /\ Sound(sched') /\ Runs(sched)
        /\ Measured(sched) /\ HistoryType
    BY <1>4, StepMoves DEF Timely, Orderly, IInv
  <2>2. i \in Live(sched) \ Live(sched') /\ i \in Live(sched) /\ i \in Ids
    BY <2>1, MembersAreIds DEF ClosedNow, Sound
  <2>3. PICK now \in Nat : sched.lastNow <= now /\ Reached(sched, now, sched')
    BY <2>1, <2>2 DEF Moved, Quiet, Live
  <2>4. i \in Overdue(sched, now) /\ sched'.lastNow = now
    BY <2>1, <2>2, <2>3, ReachedTimesOut
  <2>5. /\ sched.entries[i].timer.left # Never /\ sched.entries[i].timer.since # None
        /\ now - sched.entries[i].timer.since >= sched.entries[i].timer.left
    BY <2>4 DEF Overdue, Expired
  <2>6. /\ sched.entries[i].timer.left \in Nat /\ sched.entries[i].draft.timeout \in Nat
        /\ sched.entries[i].timer.since \in Nat \cup {None} /\ sched.lastNow \in Nat
    BY <2>1, <2>2, <2>5, TimerNumbers
  <2>7. sched.entries[i].draft.timeout - sched.entries[i].timer.left
          + (sched.lastNow - sched.entries[i].timer.since) <= shownFor[i].total
    BY <1>4, <2>2, <2>5 DEF Timely, TimeoutCountsShownTime
  <2>8. ShownNow(i) = now - sched.lastNow
    <3>1. i \in Shown(sched)
      BY <2>1, <2>2, <2>5, ShownToasts DEF Runs
    <3> QED BY <2>4, <3>1 DEF ShownNow
  <2>9. shownFor[i].total \in Nat
    BY <2>1, <2>2 DEF HistoryType
  <2> QED BY <2>5, <2>6, <2>7, <2>8, <2>9
<1>5. Timely /\ [Next]_vars =>
        [TimerRunsWhileShown /\ TimeoutCountsShownTime /\ NeverTimesOutEarly]_vars
  BY <1>2, <1>3, <1>4
<1> QED BY <1>1, <1>5, NextTimely, PTL DEF Spec, TimeoutsAreExact
=============================================================================
