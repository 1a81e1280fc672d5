------------------------ MODULE DaemonRequestsProofs ------------------------
(***************************************************************************)
(* Proofs about DaemonRequests, for any clients, renderers, commands,      *)
(* limits, clock and History queue: a jump pin outlives its jump only by   *)
(* the clock or an abort, History is told of every content and close, and  *)
(* a row that a client closed stays closed.                                *)
(***************************************************************************)
EXTENDS DaemonRequests, SchedulerTheorems, SequenceTheorems, WellFoundedInduction

-----------------------------------------------------------------------------
(* The invariant: types.                                                   *)

Intent == [id : Ids, nonce : Nat]

PlacesOfClient   == {"idle", "waiting", "ready", "begun", "switching", "switched",
                     "refused", "persist", "receipt", "answered", "aborted"}
PlacesOfRenderer == (PlacesOfClient \ {"waiting"}) \cup {"received"}
PlacesOfCleanup  == {"idle", "ready", "persist", "receipt", "flushing", "flushed"}

Task == [pc : PlacesOfClient \cup PlacesOfRenderer \cup PlacesOfCleanup,
         cmd : Command \cup Action \cup {None}, at : Nat,
         intent : Intent \cup {None}, todo : Seq(Snapshot),
         error : Errors \cup {None}]

Mark == [id : {None}]
Mail == [snap : Snapshot \cup Mark, by : Procs \cup {"loop"}, late : BOOLEAN]
Row  == [state : Texts \cup {"closed", None}, by : Procs \cup {"loop", None}]

\* The scheduler between two calls.
Fit(s) == Sound(s) /\ Tidy(s)

SchedulerFits == Fit(sched) /\ clock \in Nat /\ sched.lastNow <= clock

TasksTyped ==
  /\ tasks \in [Procs -> Task]
  /\ \A p \in Procs : tasks[p].at <= clock
  /\ \A c \in Clients :
       /\ tasks[c].pc \in PlacesOfClient
       /\ tasks[c].pc \in {"waiting", "ready"} => tasks[c].cmd \in Commands
  /\ \A r \in Renderers :
       /\ tasks[r].pc \in PlacesOfRenderer
       /\ tasks[r].pc \in {"received", "ready"} => tasks[r].cmd \in Action
  /\ tasks[Cleanup].pc \in PlacesOfCleanup

ControlTyped ==
  /\ order \in Clients \cup {None} /\ backend \in Tasks \cup {None}
  /\ settings \in [limits : LimitsSet, changed : BOOLEAN, reloads : Nat]
  /\ loop \in [pc : {"top", "tick", "enqueue", "dead"},
               limits : LimitsSet \cup {None}, todo : Seq(Snapshot)]
  /\ daemon \in {"serving", "draining", "cleaning", "stopped"}

HistoryTyped ==
  /\ queue \in Seq(Mail) /\ Len(queue) <= HistoryCapacity
  /\ rows \in [Ids -> Row]
  /\ lost \cup recorded \subseteq Ids

Typed == SchedulerFits /\ TasksTyped /\ ControlTyped /\ HistoryTyped

-----------------------------------------------------------------------------
(* The invariant: where each process may be.                               *)

Ending == daemon \in {"cleaning", "stopped"}

\* What a task holds, it holds at the places where it is used.
Discipline ==
  /\ \A p \in Procs :
       /\ tasks[p].todo # <<>> => tasks[p].pc \in {"persist", "receipt"}
       /\ tasks[p].intent # None =>
            tasks[p].pc \in {"begun", "switching", "switched", "refused"}
  /\ \A t \in Tasks : tasks[t].error # None => tasks[t].pc = "answered"
  /\ loop.todo # <<>> => loop.pc = "enqueue"

\* A request that has read the clock holds request_order.
OrderHeld ==
  \A c \in Clients :
    tasks[c].pc \in {"ready", "begun", "switching", "switched", "refused",
                     "persist", "receipt"} => order = c

\* Once the connections are done no request and no action starts, and what is
\* left of them was in tmux.
Winding ==
  /\ \A t \in Tasks : tasks[t].pc = "aborted" => Ending
  /\ Ending => \A t \in Tasks :
       tasks[t].pc \notin {"waiting", "received", "ready", "begun"}
  /\ daemon = "stopped" => /\ \A t \in Tasks : Ended(t)
                           /\ tasks[Cleanup].pc = "flushed"

\* After its first step the cleanup has nothing left to close.
Emptied ==
  /\ tasks[Cleanup].pc # "idle" => Ending
  /\ tasks[Cleanup].pc \notin {"idle", "ready"} =>
       Live(sched) = {} /\ Closed(sched) = {}

\* The clients that may still send.
Early == {c \in Clients : tasks[c].pc \in {"idle", "waiting", "ready"}}

\* There is an id for each of them.
Counted == sched.nextSequence + Cardinality(Early) <= Cardinality(Clients)

Disciplined == Discipline /\ OrderHeld /\ Winding /\ Emptied /\ Counted

-----------------------------------------------------------------------------
(* The invariant: jumps.                                                   *)

Excused == \E t \in Tasks : At(t, "aborted") \/ tasks[t].error = "TimeWentBackwards"

Held(intent) == \E t \in Tasks : tasks[t].intent = intent

PinsHeld ==
  \A i \in Live(sched) : sched.entries[i].nonce # None =>
    Held([id |-> i, nonce |-> sched.entries[i].nonce]) \/ Excused

-----------------------------------------------------------------------------
(* The invariant: History.                                                 *)

Holders == Procs \cup {"loop"}

\* The snapshots that b holds, has in the queue, and both.
TodoOf(b)   == IF b = "loop" THEN Range(loop.todo) ELSE Range(tasks[b].todo)
QueuedBy(b) == {queue[n].snap : n \in {m \in DOMAIN queue : queue[m].by = b}}
Carries(b)  == TodoOf(b) \cup QueuedBy(b)

Closing(i)      == [id |-> i, state |-> "closed"]
IsClose(snap)   == snap.id # None /\ snap.state = "closed"
IsContent(snap) == snap.id # None /\ snap.state # "closed"

\* Each task has one message in the queue at most, and waits for it unless it
\* was aborted.
MailAwaited ==
  /\ \A m, n \in DOMAIN queue :
       queue[m].by = queue[n].by /\ queue[m].by # "loop" => m = n
  /\ \A n \in DOMAIN queue :
       IF queue[n].snap.id = None
       THEN queue[n].by = Cleanup /\ At(Cleanup, "flushing")
       ELSE queue[n].by # "loop" =>
              At(queue[n].by, "receipt") \/ At(queue[n].by, "aborted")

\* One client at a time carries snapshots: the one that holds request_order, or
\* one that was aborted.
OneClient ==
  /\ \A c \in Clients : Carries(c) # {} =>
       order = c \/ (order = None /\ At(c, "aborted"))
  /\ \A c, d \in Clients : Carries(c) # {} /\ Carries(d) # {} => c = d

\* Contents are carried by clients and, while the Notification is live, are the
\* present ones; closes are of what is not live any more.
ContentsPresent ==
  \A b \in Holders : \A snap \in Carries(b) :
    /\ IsContent(snap) =>
         /\ b \in Clients
         /\ snap.id \in Live(sched) =>
              snap.state = sched.entries[snap.id].draft.text
         /\ Closing(snap.id) \notin Carries(b)
    /\ IsClose(snap) => snap.id \in Accepted \ Live(sched)

\* `closed` has room for the records of all that is live.
RoomKept == Panicked \/ Roomy(sched)

\* The close of a Notification is on its way, written, or lost.
ClosesKept ==
  \/ Panicked
  \/ \A i \in Accepted \ Live(sched) :
       \/ i \in recorded \cup lost \cup Closed(sched)
       \/ \E b \in Holders : Closing(i) \in Carries(b)

\* So is the content of a live one.
ContentsKept ==
  \/ Panicked
  \/ \A i \in Live(sched) :
       \/ i \in lost
       \/ \E b \in Holders : \E snap \in Carries(b) : snap.id = i
       \/ rows[i].state = sched.entries[i].draft.text

\* Nothing that would open it again is under way for a row a client closed.
ClientCloses ==
  \A i \in Ids : rows[i].state = "closed" /\ rows[i].by \in Clients =>
    /\ i \in Accepted \ Live(sched)
    /\ \A b \in Holders : \A snap \in Carries(b) : IsContent(snap) => snap.id # i

\* What was sent before the flush is before it in the queue.
FlushInLine ==
  /\ At(Cleanup, "flushing") =>
       \E m \in DOMAIN queue :
         /\ queue[m].snap.id = None
         /\ \A n \in DOMAIN queue : m < n => queue[n].late
  /\ At(Cleanup, "flushed") =>
       \/ tasks[Cleanup].error = "QueueFull"
       \/ \A n \in DOMAIN queue : queue[n].late

HistorySound ==
  /\ MailAwaited /\ OneClient /\ ContentsPresent
  /\ ClosesKept /\ ContentsKept /\ ClientCloses /\ FlushInLine

\* The inductive invariant.
IInv == Typed /\ Disciplined /\ RoomKept /\ PinsHeld /\ HistorySound

-----------------------------------------------------------------------------
(* What the calls of the scheduler do.                                     *)

Known(s) == 0 .. s.nextSequence - 1

\* A call that adds the Notifications in `new` and changes no content but that
\* of those in `amended`.
Turns(s, r, now, new, amended) ==
  /\ Fit(r) /\ r.lastNow \in {s.lastNow, now}
  /\ r.nextSequence \in Nat
  /\ Known(r) = Known(s) \cup new /\ new \cap Known(s) = {}
  /\ Live(r) \subseteq Live(s) \cup new
  /\ \A i \in Live(r) : \/ i \in amended
                        \/ i \in Live(s) /\ r.entries[i].draft = s.entries[i].draft

\* A call that does neither, and sets no pin.
Calm(s, r, now) ==
  /\ Turns(s, r, now, {}, {}) /\ NoNewPin(s, r)
  /\ r.nextSequence = s.nextSequence
  /\ Live(s) \cup Closed(s) = {} => Closed(r) = {}

\* A call that records every close: there is room for them, and when they are
\* drained, or nothing was added, there is room for the next.
Complete(s, r, new) ==
  Roomy(s) => /\ Closed(r) = Closed(s) \cup ((Live(s) \cup new) \ Live(r))
              /\ Roomy(DrainClosed(r))
              /\ new = {} => Roomy(r)

\* A call under the same limits that adds nothing and does so.
Steady(s, r) == r.limits = s.limits /\ Complete(s, r, {})

LEMMA CalmChains ==
  ASSUME NEW s, NEW p, NEW r, NEW now, Calm(s, p, now), Calm(p, r, now)
  PROVE  Calm(s, r, now)
BY DEF Calm, Turns, NoNewPin

LEMMA SteadyChains ==
  ASSUME NEW s, NEW p, NEW r, Live(p) \subseteq Live(s), Live(r) \subseteq Live(p),
         Steady(s, p), Steady(p, r)
  PROVE  Steady(s, r)
BY DEF Steady, Complete

\* It does when it keeps the records there is room for.
LEMMA KeptSteady ==
  ASSUME NEW s, Sound(s), NEW r, Sound(r), r.limits = s.limits,
         Live(r) \subseteq Live(s), RecordsKept(s, r)
  PROVE  Steady(s, r)
<1>1. SUFFICES ASSUME Roomy(s)
               PROVE  /\ Closed(r) = Closed(s) \cup (Live(s) \ Live(r))
                      /\ Roomy(DrainClosed(r)) /\ Roomy(r)
  BY DEF Steady, Complete
<1>2. PICK S : S = Closed(s) \cup Live(s)
  OBVIOUS
<1>3. S \subseteq Ids /\ HasRoom(s, S)
  BY <1>1, <1>2, MembersAreIds DEF Sound, Roomy
<1>4. Records(s, {}, r) \subseteq S
  BY <1>2 DEF Records
<1>5. HasRoom(s, Records(s, {}, r))
  BY <1>3, <1>4, LessHasRoom
<1>6. Closed(r) = Closed(s) \cup (Live(s) \ Live(r))
  BY <1>5 DEF RecordsKept, RecordsWith, Records
<1>7. Closed(r) \cup Live(r) \subseteq S /\ Live(r) \subseteq S
  BY <1>2, <1>6
<1>8. HasRoom(r, Closed(r) \cup Live(r)) /\ HasRoom(r, Live(r))
  BY <1>3, <1>7, LessHasRoom
<1>9. Roomy(r)
  BY <1>8 DEF Roomy
<1> QED BY <1>6, <1>8, <1>9, DrainRoom

\* With nothing live and nothing recorded there is room.
LEMMA EmptyRoomy ==
  ASSUME NEW s, Sound(s), Live(s) \cup Closed(s) = {}
  PROVE  Roomy(s)
<1>1. ClosedCapacity(s.limits) \in Nat
  BY DEF Sound, IsState, SchedulerLimits, ClosedCapacity
<1>2. Closed(s) \cup Live(s) = {} /\ Cardinality({}) = 0
  BY FS_EmptySet
<1> QED BY <1>1, <1>2 DEF Roomy, HasRoom

\* What has a number is live, closed or neither.
LEMMA FitNumbers ==
  ASSUME NEW s, Fit(s)
  PROVE  /\ Live(s) \subseteq Ids /\ Closed(s) \subseteq Ids
         /\ Live(s) \cap Closed(s) = {}
         /\ Live(s) \cup Closed(s) \subseteq Known(s)
         /\ s.nextSequence \in Nat /\ s.lastNow \in Nat /\ s.nextNonce \in Nat
         /\ s.entries \in [Live(s) -> Entry]
         /\ s.liveKeys \in [Keys -> Ids \cup {None}]
         /\ s.attention \in Ids \cup {None}
<1>1. IsState(s) /\ Scheduled(s) /\ Numbered(s)
  BY DEF Fit, Sound
<1>2. /\ Live(s) \subseteq Ids /\ Closed(s) \subseteq Ids
      /\ s.entries \in [Live(s) -> Entry]
  BY <1>1, MembersAreIds
<1>3. s.nextSequence \in Nat /\ s.lastNow \in Nat /\ s.nextNonce \in Nat
  BY <1>1 DEF IsState
<1>4. Live(s) \cap Closed(s) = {}
  BY <1>1 DEF Scheduled
<1>5. ASSUME NEW i \in Live(s) \cup Closed(s) PROVE i \in Known(s)
  <2>1. i \in Nat /\ i < s.nextSequence
    BY <1>1, <1>2, <1>5, IdsFinite DEF Numbered
  <2> QED BY <1>3, <2>1 DEF Known
<1> QED BY <1>1, <1>2, <1>3, <1>4, <1>5 DEF IsState

\* Drafts that Kept keeps, said the other way round.
LEMMA TendsCalm ==
  ASSUME NEW s, Fit(s), NEW now, NEW r, Sound(r), r.lastNow \in {s.lastNow, now},
         Tends(s, r), NoNewPin(s, r),
         \A i \in Live(r) : r.entries[i].draft = s.entries[i].draft
  PROVE  Calm(s, r, now) /\ Steady(s, r)
<1>1. /\ Tidy(r) /\ RecordsKept(s, r) /\ r.limits = s.limits
      /\ r.nextSequence = s.nextSequence /\ Live(r) \subseteq Live(s)
  BY DEF Fit, Tends, LeavesTidy, RecordsKept
<1>2. Steady(s, r)
  BY <1>1, KeptSteady DEF Fit
<1>3. r.nextSequence \in Nat
  BY DEF Sound, IsState
<1>4. Live(s) \cup Closed(s) = {} => Closed(r) = {}
  BY <1>2, EmptyRoomy DEF Fit, Steady, Complete
<1> QED BY <1>1, <1>2, <1>3, <1>4 DEF Calm, Turns, Fit, Known

\* prepare_time.
LEMMA PrepareCalm ==
  ASSUME NEW s, Fit(s), NEW now \in Nat
  PROVE  Calm(s, PrepareTime(s, now), now) /\ Steady(s, PrepareTime(s, now))
<1>1. Sound(s)
  BY DEF Fit
<1>2. /\ Sound(Advance(s, now)) /\ Advance(s, now).lastNow = now
      /\ NoNewPin(s, Advance(s, now)) /\ Tends(s, Advance(s, now))
  BY <1>1, AdvanceSound, AdvanceTends
<1>3. Kept(s, PrepareTime(s, now))
  BY <1>1, PreparedLeaves
<1> QED BY <1>2, <1>3, TendsCalm DEF Advance, Kept

\* close.
LEMMA CloseCalm ==
  ASSUME NEW s, Fit(s), NEW i, NEW reason \in Reasons, NEW now \in Nat
  PROVE  LET r == Close(s, i, reason, now)
         IN  Calm(s, r, now) /\ Steady(s, r) /\ i \notin Live(r)
<1>1. Sound(s)
  BY DEF Fit
<1> QED BY <1>1, CloseSound, CloseTends, TendsCalm DEF Kept

\* shutdown.
LEMMA ShutdownCalm ==
  ASSUME NEW s, Fit(s), NEW line, IsLine(line, Live(s)), NEW now \in Nat
  PROVE  LET r == Shutdown(s, line, "DaemonStopped", now)
         IN  Calm(s, r, now) /\ Steady(s, r) /\ Live(r) = {}
<1>1. Sound(s) /\ DOMAIN line = Live(s) /\ "DaemonStopped" \in Reasons
  BY DEF Fit, IsLine, Reasons
<1> QED BY <1>1, ShutdownSound, ShutdownTends, TendsCalm

\* set_display_available.
LEMMA DisplayCalm ==
  ASSUME NEW s, Fit(s), NEW available \in BOOLEAN, NEW now \in Nat
  PROVE  LET r == SetDisplayAvailable(s, available, now)
         IN  Calm(s, r, now) /\ Steady(s, r)
<1>1. Sound(s)
  BY DEF Fit
<1> QED BY <1>1, SetDisplayAvailableSound, SetDisplayAvailableTends, TendsCalm DEF Kept

\* update_limits: it records every close when the limits stay, and leaves room
\* for those to come when others hold from now on.
LEMMA LimitsCalm ==
  ASSUME NEW s, Fit(s), NEW limits \in SchedulerLimits, NEW now \in Nat
  PROVE  LET r == UpdateLimits(s, limits, now)
         IN  /\ Calm(s, r, now)
             /\ \/ Steady(s, r)
                \/ r.limits # s.limits /\ (~r.panicked => HasRoom(r, Live(r)))
<1>1. PICK r : r = UpdateLimits(s, limits, now)
  OBVIOUS
<1>2. Sound(s) /\ Tidy(s)
  BY DEF Fit
<1>3. Sound(r) /\ r.lastNow = now /\ NoNewPin(s, r)
  BY <1>1, <1>2, UpdateLimitsSound
<1>4. /\ Tidy(r) /\ Kept(s, r) /\ r.nextSequence = s.nextSequence
      /\ r.limits \in {s.limits, limits}
      /\ r.limits = s.limits => RecordsKept(s, r)
      /\ Live(s) \cup Closed(s) = {} => Closed(r) = {}
  BY <1>1, <1>2, UpdateLimitsTidy
<1>5. r.nextSequence \in Nat
  BY <1>3 DEF Sound, IsState
<1>6. Calm(s, r, now)
  BY <1>3, <1>4, <1>5 DEF Calm, Turns, Fit, Known, Kept
<1>7. CASE r.limits = s.limits
  <2>1. Steady(s, r)
    BY <1>2, <1>3, <1>4, <1>7, KeptSteady DEF Kept
  <2> QED BY <1>1, <1>6, <2>1
<1>8. CASE r.limits # s.limits
  <2>1. ~r.panicked => HasRoom(r, Live(r))
    BY <1>1, <1>2, <1>4, <1>8, UpdateLimitsHasRoom
  <2> QED BY <1>1, <1>6, <1>8, <2>1
<1> QED BY <1>7, <1>8

\* cancel_jump.
LEMMA CancelCalm ==
  ASSUME NEW s, Fit(s), NEW intent, NEW now \in Nat
  PROVE  LET r == CancelJump(s, intent, now)
         IN  Calm(s, r, now) /\ Steady(s, r) /\ ~IntentPinned(r, intent)
<1>1. PICK r : r = CancelJump(s, intent, now)
  OBVIOUS
<1>2. Sound(s)
  BY DEF Fit
<1>3. Sound(r) /\ r.lastNow = now /\ NoNewPin(s, r) /\ ~IntentPinned(r, intent)
  BY <1>1, <1>2, CancelJumpSound
<1>4. Tends(s, r) /\ \A j \in Live(r) : r.entries[j].draft = s.entries[j].draft
  BY <1>1, <1>2, CancelJumpTends
<1> QED BY <1>1, <1>3, <1>4, TendsCalm

\* begin_jump: the pin it sets has the nonce of its intent.
LEMMA BeginTurns ==
  ASSUME NEW s, Fit(s), NEW i, NEW now \in Nat
  PROVE  LET r == BeginJump(s, i, now)
         IN  /\ Turns(s, r, now, {}, {}) /\ r.nextSequence = s.nextSequence
             /\ Steady(s, r)
             /\ \A j \in Live(r) : r.entries[j].nonce # None =>
                  \/ j \in Live(s) /\ s.entries[j].nonce = r.entries[j].nonce
                  \/ /\ j = i /\ r.entries[j].nonce = s.nextNonce
                     /\ r.nextNonce # s.nextNonce
             /\ r.nextNonce # s.nextNonce => i \in Ids
<1>1. PICK r : r = BeginJump(s, i, now)
  OBVIOUS
<1>2. Sound(s) /\ Tidy(s)
  BY DEF Fit
<1>3. /\ Sound(r) /\ r.lastNow = now
      /\ \A j \in Live(r) : r.entries[j].nonce # None =>
           \/ j \in Live(s) /\ s.entries[j].nonce = r.entries[j].nonce
           \/ /\ j = i /\ r.entries[j].nonce = s.nextNonce
              /\ r.nextNonce # s.nextNonce
      /\ r.nextNonce # s.nextNonce => i \in Ids
  BY <1>1, <1>2, BeginJumpSound
<1>4. Tends(s, r) /\ \A j \in Live(r) : r.entries[j].draft = s.entries[j].draft
  BY <1>1, <1>2, BeginJumpTends
<1>5. /\ Tidy(r) /\ RecordsKept(s, r) /\ r.limits = s.limits
      /\ r.nextSequence = s.nextSequence /\ Live(r) \subseteq Live(s)
  BY <1>2, <1>4 DEF Tends, LeavesTidy, RecordsKept
<1>6. r.nextSequence \in Nat
  BY <1>3 DEF Sound, IsState
<1>7. Steady(s, r)
  BY <1>2, <1>3, <1>5, KeptSteady
<1> QED BY <1>1, <1>3, <1>4, <1>5, <1>6, <1>7 DEF Turns, Fit, Known

\* update.
LEMMA UpdateTurns ==
  ASSUME NEW s, Fit(s), NEW i, NEW u \in Update, NEW now \in Nat
  PROVE  LET r == ApplyUpdate(s, i, u, now)
         IN  /\ Turns(s, r, now, {}, {i}) /\ NoNewPin(s, r)
             /\ Steady(s, r)
             /\ r.nextSequence = s.nextSequence /\ Live(r) \subseteq Live(s)
<1>1. PICK r : r = ApplyUpdate(s, i, u, now)
  OBVIOUS
<1>2. Sound(s) /\ Tidy(s)
  BY DEF Fit
<1>3. Sound(r) /\ r.lastNow = now /\ NoNewPin(s, r)
  BY <1>1, <1>2, ApplyUpdateSound
<1>4. Tends(s, r) /\ \A j \in Live(r) \ {i} : r.entries[j].draft = s.entries[j].draft
  BY <1>1, <1>2, ApplyUpdateTends
<1>5. /\ Tidy(r) /\ RecordsKept(s, r) /\ r.limits = s.limits
      /\ r.nextSequence = s.nextSequence /\ Live(r) \subseteq Live(s)
  BY <1>2, <1>4 DEF Tends, LeavesTidy, RecordsKept
<1>6. r.nextSequence \in Nat
  BY <1>3 DEF Sound, IsState
<1>7. Steady(s, r)
  BY <1>2, <1>3, <1>5, KeptSteady
<1> QED BY <1>1, <1>3, <1>4, <1>5, <1>6, <1>7 DEF Turns, Fit, Known

\* submit: it is about the Notification of its key, or about a new one.
LEMMA SubmitTurns ==
  ASSUME NEW s, Fit(s), NEW d \in Draft, NEW now \in Nat,
         s.nextSequence < MaxSubmits
  PROVE  LET r == Submit(s, d, now)
             i == Target(PrepareTime(s, now), d)
         IN  /\ Turns(s, r, now, Joined(s, r), {i}) /\ NoNewPin(s, r)
             /\ ~r.panicked => Complete(s, r, Joined(s, r))
             /\ r.nextSequence \in {s.nextSequence, s.nextSequence + 1}
<1>1. PICK r : r = Submit(s, d, now)
  OBVIOUS
<1>2. Sound(s) /\ Tidy(s) /\ s.nextSequence \in Nat
  BY FitNumbers DEF Fit
<1>3. r.nextSequence <= MaxSubmits
  <2>1. r.nextSequence \in {s.nextSequence, s.nextSequence + 1}
    BY <1>1, <1>2, SubmitNumbers
  <2> QED BY <1>2, <2>1, SchedulerConstants
<1>4. Sound(r) /\ r.lastNow = now /\ NoNewPin(s, r)
  BY <1>1, <1>2, <1>3, SubmitSound
<1>5. /\ LeavesTidy(s, Joined(s, r), r)
      /\ r.nextSequence \in {s.nextSequence, s.nextSequence + 1}
      /\ Live(r) \subseteq Live(s) \cup Joined(s, r)
      /\ \A j \in Live(r) : \/ j = Addressed(PrepareTime(s, now), d)
                            \/ j \in Live(s) /\ r.entries[j].draft = s.entries[j].draft
  BY <1>1, <1>2, <1>3, SubmitLeaves
<1>6. /\ Known(r) = Known(s) \cup Joined(s, r) /\ Joined(s, r) \cap Known(s) = {}
      /\ r.nextSequence \in Nat
  BY <1>2, <1>5 DEF Known, Joined
<1>7. Tidy(r)
  BY <1>2, <1>5 DEF LeavesTidy
<1>8. Target(PrepareTime(s, now), d) = Addressed(PrepareTime(s, now), d)
  BY DEF Target, Addressed
<1>9. ~r.panicked => Complete(s, r, Joined(s, r))
  BY <1>1, <1>2, <1>3, SubmitRoomy DEF Complete
<1> QED BY <1>1, <1>4, <1>5, <1>6, <1>7, <1>8, <1>9 DEF Turns, Fit

-----------------------------------------------------------------------------
(* The tick of the reconcile loop.                                         *)

\* A set of naturals has a least member.
LEMMA Least ==
  ASSUME NEW T \in SUBSET Nat, T # {}
  PROVE  \E n \in T : \A m \in T : n <= m
<1>1. PICK R : IsWellFoundedOn(R, Nat) /\ R = {p \in Nat \X Nat : p[1] < p[2]}
  BY NatLessThanWellFounded DEF OpToRel
<1>2. PICK n \in T : \A m \in T : <<m, n>> \notin R
  BY <1>1, WFMin
<1>3. ASSUME NEW m \in T PROVE n <= m
  <2>1. n \in Nat /\ m \in Nat
    OBVIOUS
  <2>2. <<m, n>> \in Nat \X Nat /\ <<m, n>>[1] = m /\ <<m, n>>[2] = n
    BY <2>1
  <2>3. ~(m < n)
    BY <1>1, <1>2, <2>2
  <2> QED BY <2>1, <2>3
<1> QED BY <1>3

\* g is the states that render_failed leaves, one after the other.
Fails(g, s, plan, len) ==
  g = [n \in 0 .. len |-> IF n = 0 THEN s
                          ELSE Close(g[n - 1], plan[n], "RenderFailed", clock)]

\* There is one for every plan.
LEMMA FailsExists ==
  ASSUME NEW s, NEW plan, NEW len \in Nat
  PROVE  \E g : Fails(g, s, plan, len)
<1> DEFINE T == {m \in Nat : ~\E g : Fails(g, s, plan, m)}
<1>1. SUFFICES ASSUME T # {} PROVE FALSE
  OBVIOUS
<1>2. PICK m \in T : \A k \in T : m <= k
  BY <1>1, Least
<1>3. CASE m = 0
  <2> DEFINE g == [n \in 0 .. m |-> s]
  <2>1. g = [n \in 0 .. m |-> IF n = 0 THEN s
                              ELSE Close(g[n - 1], plan[n], "RenderFailed", clock)]
    BY <1>3
  <2>2. Fails(g, s, plan, m)
    BY <2>1 DEF Fails
  <2> QED BY <2>2
<1>4. CASE m # 0
  <2>1. m \in Nat /\ m - 1 \in Nat /\ m - 1 \notin T
    BY <1>2, <1>4
  <2>2. PICK g : Fails(g, s, plan, m - 1)
    BY <2>1
  <2> DEFINE next(f, n) == IF n = 0 THEN s
                           ELSE Close(f[n - 1], plan[n], "RenderFailed", clock)
             h == [n \in 0 .. m |-> next(g, n)]
  <2>3. g = [n \in 0 .. (m - 1) |-> next(g, n)]
    BY <2>2 DEF Fails
  <2> HIDE DEF next
  <2>4. \A n \in 0 .. (m - 1) : h[n] = g[n]
    BY <2>1, <2>3
  <2>5. ASSUME NEW n \in 0 .. m PROVE next(h, n) = next(g, n)
    <3>1. CASE n = 0
      BY <3>1 DEF next
    <3>2. CASE n # 0
      <4>1. n - 1 \in 0 .. (m - 1)
        BY <2>1, <3>2
      <4>2. h[n - 1] = g[n - 1]
        BY <2>4, <4>1
      <4> HIDE DEF h
      <4> QED BY <3>2, <4>2 DEF next
    <3> QED BY <3>1, <3>2
  <2>6. h = [n \in 0 .. m |-> next(h, n)]
    BY <2>5
  <2>7. Fails(h, s, plan, m)
    BY <2>6 DEF Fails, next
  <2> QED BY <2>7
<1> QED BY <1>3, <1>4

\* A scheduler that nobody calls.
LEMMA CalmItself ==
  ASSUME NEW s, Fit(s), NEW now
  PROVE  Calm(s, s, now) /\ Steady(s, s)
<1>1. Sound(s) /\ RecordsKept(s, s)
  BY DEF Fit, RecordsKept, RecordsWith, Records
<1>2. Steady(s, s)
  BY <1>1, KeptSteady
<1> QED BY <1>2, FitNumbers DEF Calm, Turns, NoNewPin

\* Its last state is calm.
LEMMA FailsCalm ==
  ASSUME NEW s, Fit(s), clock \in Nat, NEW plan, NEW len \in Nat,
         NEW g, Fails(g, s, plan, len)
  PROVE  Calm(s, g[len], clock) /\ Steady(s, g[len])
<1> DEFINE T == {m \in 0 .. len : ~(Calm(s, g[m], clock) /\ Steady(s, g[m]))}
<1>1. SUFFICES ASSUME T # {} PROVE FALSE
  OBVIOUS
<1>2. PICK m \in T : \A k \in T : m <= k
  <2>1. T \in SUBSET Nat
    OBVIOUS
  <2> QED BY <1>1, <2>1, Least
<1>3. g = [n \in 0 .. len |-> IF n = 0 THEN s
                              ELSE Close(g[n - 1], plan[n], "RenderFailed", clock)]
  BY DEF Fails
<1>4. CASE m = 0
  <2>1. g[m] = s
    BY <1>3, <1>4
  <2> QED BY <2>1, CalmItself
<1>5. CASE m # 0
  <2>1. m - 1 \in 0 .. len /\ m - 1 \notin T
    BY <1>2, <1>5
  <2>2. PICK p : p = g[m - 1]
    OBVIOUS
  <2>3. g[m] = Close(p, plan[m], "RenderFailed", clock)
    BY <1>3, <1>5, <2>2
  <2>4. Calm(s, p, clock) /\ Steady(s, p)
    BY <2>1, <2>2
  <2>5. Fit(p) /\ Live(p) \subseteq Live(s) /\ "RenderFailed" \in Reasons
    BY <2>4 DEF Calm, Turns, Reasons
  <2>6. Calm(p, g[m], clock) /\ Steady(p, g[m])
    BY <2>3, <2>5, CloseCalm
  <2>7. Live(g[m]) \subseteq Live(p)
    BY <2>6 DEF Calm, Turns
  <2> QED BY <2>4, <2>5, <2>6, <2>7, CalmChains, SteadyChains
<1> QED BY <1>4, <1>5

\* render_failed for the whole plan.
LEMMA AllFailedCalm ==
  ASSUME NEW s, Fit(s), clock \in Nat
  PROVE  Calm(s, AllFailed(s), clock) /\ Steady(s, AllFailed(s))
<1>1. PICK plan : plan = IF s.attention # None THEN <<s.attention>> ELSE InOrder(s.toasts)
  OBVIOUS
<1>2. Len(plan) \in Nat
  <2>1. Cardinality(Toasts(s)) \in Nat
    BY MembersAreIds, IdsFinite, CountIsNat DEF Fit, Sound
  <2>2. InOrder(s.toasts) \in Seq(UNION {{InOrder(s.toasts)[n]} : n \in DOMAIN InOrder(s.toasts)})
    BY <2>1 DEF InOrder, Toasts
  <2>3. Len(InOrder(s.toasts)) \in Nat
    BY <2>2
  <2> QED BY <1>1, <2>3
<1>3. AllFailed(s) = (CHOOSE g : Fails(g, s, plan, Len(plan)))[Len(plan)]
  BY <1>1 DEF AllFailed, Fails
<1>4. Fails(CHOOSE g : Fails(g, s, plan, Len(plan)), s, plan, Len(plan))
  BY <1>2, FailsExists
<1> QED BY <1>2, <1>3, <1>4, FailsCalm

\* So is what the reconciler does with the plan.
LEMMA ReconciledCalm ==
  ASSUME NEW p, Fit(p), clock \in Nat, NEW done \in Reconciled(p)
  PROVE  Calm(p, done, clock) /\ Steady(p, done)
<1>1. PICK tried : tried = SetDisplayAvailable(p, TRUE, clock)
  OBVIOUS
<1>2. Calm(p, tried, clock) /\ Steady(p, tried)
  BY <1>1, DisplayCalm
<1>3. Fit(tried) /\ Live(tried) \subseteq Live(p)
  BY <1>2 DEF Calm, Turns
<1>4. PICK failed : failed = AllFailed(tried)
  OBVIOUS
<1>5. Calm(tried, failed, clock) /\ Steady(tried, failed)
  BY <1>3, <1>4, AllFailedCalm
<1>6. Fit(failed) /\ Live(failed) \subseteq Live(tried)
  BY <1>5 DEF Calm, Turns
<1>7. Calm(p, failed, clock) /\ Steady(p, failed) /\ Live(failed) \subseteq Live(p)
  BY <1>2, <1>3, <1>5, <1>6, CalmChains, SteadyChains
<1>8. \/ done = SetDisplayAvailable(p, FALSE, clock)
      \/ \E available \in BOOLEAN : done = SetDisplayAvailable(tried, available, clock)
      \/ done = SetDisplayAvailable(failed, FALSE, clock)
  BY <1>1, <1>4 DEF Reconciled
<1>9. ASSUME NEW q, Fit(q), Live(q) \subseteq Live(p), Calm(p, q, clock), Steady(p, q),
             NEW available \in BOOLEAN, done = SetDisplayAvailable(q, available, clock)
      PROVE  Calm(p, done, clock) /\ Steady(p, done)
  <2>1. Calm(q, done, clock) /\ Steady(q, done)
    BY <1>9, DisplayCalm
  <2>2. Live(done) \subseteq Live(q)
    BY <2>1 DEF Calm, Turns
  <2> QED BY <1>9, <2>1, <2>2, CalmChains, SteadyChains
<1>10. Calm(p, p, clock) /\ Steady(p, p)
  BY CalmItself
<1> QED BY <1>2, <1>3, <1>6, <1>7, <1>8, <1>9, <1>10

\* The scheduler when the tick has taken the settings.
Adopted(s) == IF loop.limits = None THEN s ELSE UpdateLimits(s, loop.limits, clock)

\* A tick leaves the scheduler calm.
LEMMA AdoptedCalm ==
  ASSUME NEW s, Fit(s), clock \in Nat, loop.limits \in LimitsSet \cup {None}
  PROVE  LET r == Adopted(s)
         IN  /\ Calm(s, r, clock)
             /\ \/ Steady(s, r)
                \/ /\ r.limits # s.limits
                   /\ loop.limits # None /\ (~r.panicked => HasRoom(r, Live(r)))
<1>1. CASE loop.limits = None
  BY <1>1, CalmItself DEF Adopted
<1>2. CASE loop.limits # None
  <2>1. loop.limits \in SchedulerLimits
    BY <1>2, DaemonConstants
  <2> QED BY <1>2, <2>1, LimitsCalm DEF Adopted
<1> QED BY <1>1, <1>2

\* It loses no record unless the limits changed, and then there is room again.
LEMMA TickCalm ==
  ASSUME NEW s, Fit(s), clock \in Nat, loop.limits \in LimitsSet \cup {None},
         loop.limits = None \/ ~Adopted(s).panicked,
         NEW done \in Reconciled(Adopted(s))
  PROVE  /\ Calm(s, done, clock)
         /\ \/ Steady(s, done)
            \/ done.limits # s.limits /\ Roomy(DrainClosed(done))
<1>1. PICK p : p = Adopted(s)
  OBVIOUS
<1>2. /\ Calm(s, p, clock)
      /\ Steady(s, p) \/ (p.limits # s.limits /\ HasRoom(p, Live(p)))
  BY <1>1, AdoptedCalm
<1>3. Fit(p) /\ Live(p) \subseteq Live(s)
  BY <1>2 DEF Calm, Turns
<1>4. Calm(p, done, clock) /\ Steady(p, done)
  BY <1>1, <1>3, ReconciledCalm
<1>5. Fit(done) /\ Live(done) \subseteq Live(p) /\ done.limits = p.limits
  BY <1>4 DEF Calm, Turns, Steady
<1>6. Calm(s, done, clock)
  BY <1>2, <1>4, CalmChains
<1>7. CASE Steady(s, p)
  BY <1>3, <1>4, <1>5, <1>6, <1>7, SteadyChains
<1>8. CASE p.limits # s.limits /\ HasRoom(p, Live(p))
  <2>1. HasRoom(done, Live(done))
    BY <1>3, <1>5, <1>8, FitNumbers, LessHasRoom DEF Fit
  <2> QED BY <1>5, <1>6, <1>8, <2>1, DrainRoom DEF Fit
<1> QED BY <1>2, <1>7, <1>8

-----------------------------------------------------------------------------
(* The snapshots that a call leaves to persist.                            *)

\* The values of the sequences that the tasks, the loop and the queue make.
LEMMA PrefixedRange ==
  ASSUME NEW S, NEW x, NEW q \in Seq(S)
  PROVE  Range(<<x>> \o q) = {x} \cup Range(q)
<1>1. PICK r : r = <<x>> \o q
  OBVIOUS
<1>2. /\ DOMAIN r = 1 .. (Len(q) + 1) /\ DOMAIN q = 1 .. Len(q) /\ Len(q) \in Nat
      /\ r[1] = x /\ \A n \in 1 .. Len(q) : r[n + 1] = q[n]
  BY <1>1
<1>3. ASSUME NEW n \in DOMAIN r PROVE r[n] \in {x} \cup Range(q)
  <2>1. CASE n = 1
    BY <1>2, <2>1
  <2>2. CASE n # 1
    <3>1. n - 1 \in 1 .. Len(q) /\ r[(n - 1) + 1] = q[n - 1] /\ (n - 1) + 1 = n
      BY <1>2, <2>2
    <3> QED BY <1>2, <3>1 DEF Range
  <2> QED BY <2>1, <2>2
<1>4. ASSUME NEW n \in DOMAIN q PROVE q[n] \in Range(r)
  <2>1. n + 1 \in DOMAIN r /\ r[n + 1] = q[n]
    BY <1>2
  <2> QED BY <2>1 DEF Range
<1>5. x \in Range(r)
  BY <1>2 DEF Range
<1>6. Range(r) \subseteq {x} \cup Range(q)
  BY <1>3 DEF Range
<1>7. Range(q) \subseteq Range(r)
  BY <1>4 DEF Range
<1> QED BY <1>1, <1>5, <1>6, <1>7

LEMMA TailRange ==
  ASSUME NEW S, NEW q \in Seq(S), q # <<>>
  PROVE  Tail(q) \in Seq(S) /\ Head(q) \in S /\ Range(q) = {Head(q)} \cup Range(Tail(q))
<1>1. PICK r : r = Tail(q)
  OBVIOUS
<1>2. /\ DOMAIN q = 1 .. Len(q) /\ Len(q) \in Nat \ {0} /\ Head(q) = q[1]
      /\ r \in Seq(S) /\ DOMAIN r = 1 .. (Len(q) - 1)
      /\ \A n \in DOMAIN r : r[n] = q[n + 1]
  BY <1>1
<1>3. ASSUME NEW n \in DOMAIN q PROVE q[n] \in {Head(q)} \cup Range(r)
  <2>1. CASE n = 1
    BY <1>2, <2>1
  <2>2. CASE n # 1
    <3>1. n - 1 \in DOMAIN r /\ r[n - 1] = q[(n - 1) + 1] /\ (n - 1) + 1 = n
      BY <1>2, <2>2
    <3> QED BY <3>1 DEF Range
  <2> QED BY <2>1, <2>2
<1>4. ASSUME NEW n \in DOMAIN r PROVE r[n] \in Range(q)
  <2>1. n + 1 \in DOMAIN q
    BY <1>2
  <2> QED BY <1>2, <2>1 DEF Range
<1>5. Head(q) \in Range(q) /\ Head(q) \in S
  BY <1>2 DEF Range
<1> QED BY <1>1, <1>2, <1>3, <1>4, <1>5 DEF Range

\* The elements of a line, each once.
LEMMA InOrderAll ==
  ASSUME NEW S, S \subseteq Ids, NEW l, IsLine(l, S)
  PROVE  InOrder(l) \in Seq(S) /\ Range(InOrder(l)) = S
<1> DEFINE rank == Retain(l, S)
           N    == Cardinality(S)
<1>1. IsFiniteSet(S) /\ N \in Nat
  BY IdsFinite, CountIsNat
<1>2. l \in [S -> Nat] /\ DOMAIN l = S
  BY <1>1 DEF IsLine
<1>3. IsLine(rank, S)
  BY <1>2, IdsFinite, RetainPart
<1>4. \A i \in S : rank[i] = Cardinality({j \in S : l[j] <= l[i]})
  BY <1>2 DEF Retain
<1> HIDE DEF rank
<1>5. \A n \in 1 .. N : \E i \in S : rank[i] = n
  <2>1. rank \in Injection(S, 1 .. N)
    BY <1>3 DEF IsLine, Injection, IsInjective
  <2>2. IsFiniteSet(1 .. N) /\ Cardinality(1 .. N) = N
    BY <1>1, FS_Interval
  <2>3. rank \in Surjection(S, 1 .. N)
    BY <2>1, <2>2, FS_Injection
  <2> QED BY <2>3 DEF Surjection
<1> DEFINE nth(n)  == CHOOSE i \in S : Cardinality({j \in S : l[j] <= l[i]}) = n
           ranked(n) == CHOOSE i \in S : rank[i] = n
<1>6. /\ DOMAIN InOrder(l) = 1 .. N
      /\ \A n \in 1 .. N : InOrder(l)[n] = ranked(n)
  <2>1. ASSUME NEW n PROVE ranked(n) = nth(n)
    BY <1>4
  <2>2. InOrder(l) = [n \in 1 .. N |-> nth(n)]
    BY <1>2 DEF InOrder
  <2> HIDE DEF nth, ranked
  <2> QED BY <2>1, <2>2
<1>7. \A n \in 1 .. N : InOrder(l)[n] \in S /\ rank[InOrder(l)[n]] = n
  BY <1>5, <1>6
<1>8. InOrder(l) \in Seq(S)
  <2>1. InOrder(l) = [n \in 1 .. N |-> InOrder(l)[n]]
    BY <1>2 DEF InOrder
  <2>2. InOrder(l) \in [1 .. N -> S]
    BY <1>7, <2>1
  <2> QED BY <1>1, <2>2
<1>9. ASSUME NEW i \in S PROVE \E n \in 1 .. N : InOrder(l)[n] = i
  <2>1. rank[i] \in 1 .. N
    BY <1>3 DEF IsLine
  <2>2. InOrder(l)[rank[i]] = i
    BY <1>3, <1>7, <2>1 DEF IsLine
  <2> QED BY <2>1, <2>2
<1> QED BY <1>6, <1>7, <1>8, <1>9 DEF Range

\* Every record of a close, and nothing else.
LEMMA DrainedAll ==
  ASSUME NEW s, Fit(s)
  PROVE  /\ Drained(s) \in Seq(Snapshot)
         /\ Range(Drained(s)) = {Closing(i) : i \in Closed(s)}
<1>1. Closed(s) \subseteq Ids /\ IsLine(s.closed, Closed(s))
  BY FitNumbers DEF Fit, Tidy, Lined
<1>2. PICK ids : ids = InOrder(s.closed)
  OBVIOUS
<1>3. ids \in Seq(Closed(s)) /\ Range(ids) = Closed(s)
  BY <1>1, <1>2, InOrderAll
<1>4. Drained(s) = [n \in DOMAIN ids |-> [id |-> ids[n], state |-> "closed"]]
  BY <1>2 DEF Drained
<1>5. \A n \in DOMAIN ids : ids[n] \in Ids
  BY <1>1, <1>3
<1>6. Drained(s) \in Seq(Snapshot)
  <2>1. DOMAIN ids = 1 .. Len(ids) /\ Len(ids) \in Nat
    BY <1>3
  <2>2. Drained(s) \in [1 .. Len(ids) -> Snapshot]
    BY <1>4, <1>5, <2>1 DEF Snapshot
  <2> QED BY <2>1, <2>2
<1>7. \A n \in DOMAIN ids : Drained(s)[n] = Closing(ids[n])
  BY <1>4 DEF Closing
<1>8. DOMAIN Drained(s) = DOMAIN ids
  BY <1>4
<1> QED BY <1>3, <1>6, <1>7, <1>8 DEF Range

\* What a client's send or update takes: the content of its Notification too.
LEMMA TakenAll ==
  ASSUME NEW s, Fit(s), NEW i
  PROVE  /\ Taken(s, i) \in Seq(Snapshot)
         /\ i \notin Live(s) => Range(Taken(s, i)) = {Closing(j) : j \in Closed(s)}
         /\ i \in Live(s) =>
              Range(Taken(s, i)) = {[id |-> i, state |-> s.entries[i].draft.text]}
                                     \cup {Closing(j) : j \in Closed(s)}
<1>1. /\ Drained(s) \in Seq(Snapshot)
      /\ Range(Drained(s)) = {Closing(j) : j \in Closed(s)}
  BY DrainedAll
<1>2. PICK todo : todo = Drained(s)
  OBVIOUS
<1>3. CASE i \notin Live(s)
  <2>1. Taken(s, i) = <<>> \o todo
    BY <1>2, <1>3 DEF Taken
  <2>2. Taken(s, i) = todo
    BY <1>1, <1>2, <2>1
  <2> QED BY <1>1, <1>2, <1>3, <2>2
<1>4. CASE i \in Live(s)
  <2>1. PICK snap : snap = [id |-> i, state |-> s.entries[i].draft.text]
    OBVIOUS
  <2>2. snap \in Snapshot
    BY <1>4, <2>1, FitNumbers DEF Snapshot, Entry, Draft
  <2>3. Taken(s, i) = <<snap>> \o todo
    BY <1>2, <1>4, <2>1 DEF Taken
  <2>4. todo \in Seq(Snapshot) /\ <<snap>> \in Seq(Snapshot)
    BY <1>1, <1>2, <2>2
  <2>5. Range(<<snap>> \o todo) = {snap} \cup Range(todo)
    BY <2>4, PrefixedRange
  <2> QED BY <1>1, <1>2, <1>4, <2>1, <2>3, <2>4, <2>5
<1> QED BY <1>3, <1>4

\* drain_closed.
LEMMA DrainFits ==
  ASSUME NEW s, Fit(s)
  PROVE  LET r == DrainClosed(s)
         IN  /\ Fit(r) /\ Closed(r) = {} /\ Live(r) = Live(s)
             /\ r.entries = s.entries /\ r.nextSequence = s.nextSequence
             /\ r.lastNow = s.lastNow /\ Known(r) = Known(s)
<1>1. PICK r : r = DrainClosed(s)
  OBVIOUS
<1>2. Sound(s) /\ Tidy(s)
  BY DEF Fit
<1>3. Sound(r) /\ r.lastNow = s.lastNow
  BY <1>1, <1>2, DrainClosedSound
<1>4. /\ Tidy(r) /\ Closed(r) = {} /\ r.entries = s.entries /\ r.limits = s.limits
      /\ r.nextSequence = s.nextSequence
  BY <1>1, <1>2, DrainClosedTidy
<1>5. Live(r) = Live(s) /\ Known(r) = Known(s)
  BY <1>4 DEF Live, Known
<1> QED BY <1>1, <1>3, <1>4, <1>5 DEF Fit

-----------------------------------------------------------------------------
(* The steps, by what they do to the state.                                *)

\* A step of the settings, the clock, the signal or the loop.
StepQuiet ==
  /\ UNCHANGED <<sched, tasks, order, backend, history>>
  /\ clock' \in Nat /\ clock <= clock'
  /\ loop'.todo = loop.todo /\ (loop.todo # <<>> => loop'.pc = "enqueue")
  /\ loop.pc = "dead" => loop'.pc = "dead"
  /\ daemon' = daemon \/ (daemon = "serving" /\ daemon' = "draining")
  /\ ControlTyped'

\* A task goes on, with what it holds.
StepMoves(p, task) ==
  /\ p \in Tasks /\ task \in Task /\ task.at <= clock
  /\ tasks' = [tasks EXCEPT ![p] = task]
  /\ task.todo = tasks[p].todo /\ task.intent = tasks[p].intent
  /\ task.error = tasks[p].error
  /\ tasks[p].pc \in {"idle", "waiting", "received", "ready", "begun", "switching"}
  /\ task.pc \in {"waiting", "received", "ready", "begun", "switching", "switched",
                  "refused"}
  /\ task.pc \in {"waiting", "ready"} /\ p \in Clients =>
       tasks[p].pc \in {"idle", "waiting"} /\ task.cmd \in Commands
  /\ task.pc \in {"received", "ready"} /\ p \in Renderers => task.cmd \in Action
  /\ p \in Clients => task.pc \in PlacesOfClient
  /\ p \in Renderers => task.pc \in PlacesOfRenderer
  /\ task.intent # None => task.pc \in {"switching", "switched", "refused"}
  /\ Ending => At(p, "switching") /\ task.pc \in {"switched", "refused"}
  /\ \/ order' = order
     \/ order = None /\ order' = p /\ p \in Clients /\ At(p, "waiting")
  /\ p \in Clients /\ task.pc # "waiting" => order' = p
  /\ backend' \in Tasks \cup {None}
  /\ UNCHANGED <<sched, history, control>>

\* A task gets its answer, after a call or without one.
StepEnds(p, error) ==
  /\ p \in Tasks /\ error \in Errors \cup {None}
  /\ tasks[p].pc \in {"received", "ready", "switching", "switched", "refused", "persist"}
  /\ tasks[p].todo = <<>>
  /\ Calm(sched, sched', tasks[p].at) /\ Steady(sched, sched')
  /\ \/ tasks[p].intent = None \/ error = "TimeWentBackwards"
     \/ ~IntentPinned(sched', tasks[p].intent)
  /\ Ends(p, error)
  /\ backend' \in {backend, None}
  /\ UNCHANGED <<history, control>>

\* A jump begins.
StepBegins(p, i) ==
  /\ p \in Tasks /\ At(p, "ready") /\ i \in Ids
  /\ Turns(sched, sched', tasks[p].at, {}, {}) /\ Steady(sched, sched')
  /\ sched'.nextSequence = sched.nextSequence
  /\ \A j \in Live(sched') : sched'.entries[j].nonce # None =>
       \/ j \in Live(sched) /\ sched.entries[j].nonce = sched'.entries[j].nonce
       \/ j = i /\ sched'.entries[j].nonce = sched.nextNonce
  /\ tasks' = [tasks EXCEPT ![p].pc = "begun",
                            ![p].intent = [id |-> i, nonce |-> sched.nextNonce]]
  /\ UNCHANGED <<order, backend, history, control>>

\* A call leaves snapshots: of what it closed, and of the content it was about.
StepPersists(p, done, now, new, amended, todo) ==
  /\ p \in Procs /\ tasks[p].pc \in {"ready", "switched"}
  /\ now \in 0 .. clock /\ Turns(sched, done, now, new, amended)
  /\ NoNewPin(sched, done) /\ Complete(sched, done, new)
  /\ tasks[p].intent # None => ~IntentPinned(done, tasks[p].intent)
  /\ \/ new = {} /\ done.nextSequence = sched.nextSequence
     \/ done.nextSequence = sched.nextSequence + 1
  /\ new # {} \/ amended # {} \/ done.nextSequence # sched.nextSequence =>
       p \in Clients /\ At(p, "ready")
  /\ p = Cleanup => Live(done) = {}
  /\ todo \in Seq(Snapshot)
  /\ Range(todo) = {[id |-> i, state |-> done.entries[i].draft.text] :
                      i \in amended \cap Live(done)}
                     \cup {Closing(i) : i \in Closed(done)}
  /\ sched' = DrainClosed(done) /\ Persists(p, todo)
  /\ UNCHANGED <<order, backend, history, control>>

\* The `.expect` of a submit fails.
StepPanics(c, new, amended) ==
  /\ c \in Clients /\ At(c, "ready")
  /\ Turns(sched, sched', tasks[c].at, new, amended) /\ NoNewPin(sched, sched')
  /\ \/ new = {} /\ sched'.nextSequence = sched.nextSequence
     \/ sched'.nextSequence = sched.nextSequence + 1
  /\ Ends(c, "Panicked")
  /\ UNCHANGED <<backend, history, control>>

\* The loop's tick leaves snapshots too, and what it cut off is lost.
StepTicks(done) ==
  /\ Calm(sched, done, clock)
  /\ \/ Steady(sched, done)
     \/ done.limits # sched.limits /\ Roomy(DrainClosed(done))
  /\ loop.todo = <<>> /\ loop.pc = "tick"
  /\ sched' = DrainClosed(done)
  /\ loop' = [pc |-> "enqueue", limits |-> None, todo |-> Drained(done)]
  /\ lost' = lost \cup
       (IF done.limits = sched.limits THEN {} ELSE Unrecorded(sched, done))
  /\ UNCHANGED <<tasks, order, backend, queue, rows, recorded, settings, daemon, clock>>

\* The `.expect` of a tick fails.
StepDies ==
  /\ Calm(sched, sched', clock)
  /\ loop.todo = <<>> /\ loop.pc = "tick"
  /\ loop' = [pc |-> "dead", limits |-> None, todo |-> <<>>]
  /\ UNCHANGED <<tasks, order, backend, history, settings, daemon, clock>>

\* Tasks are dropped, by the shutdown or by the end of the process.
StepDrops(T, pc) ==
  /\ T \subseteq Tasks
  /\ tasks' = [Dropped(T) EXCEPT ![Cleanup].pc = pc]
  /\ DropLoses(T) /\ DropFrees(T)
  /\ \/ /\ daemon = "draining" /\ daemon' = "cleaning" /\ pc = "ready"
        /\ \A t \in Tasks \ T : Ended(t) \/ At(t, "switching")
     \/ daemon = "cleaning" /\ daemon' = "cleaning" /\ pc = tasks[Cleanup].pc
     \/ /\ daemon = "cleaning" /\ daemon' = "stopped" /\ pc = tasks[Cleanup].pc
        /\ T = Tasks /\ At(Cleanup, "flushed")
  /\ UNCHANGED <<sched, backend, queue, rows, recorded, settings, loop, clock>>

\* Every step is one of these, or of the History queue.
Step ==
  \/ StepQuiet
  \/ \E p, task : StepMoves(p, task)
  \/ \E p, error : StepEnds(p, error)
  \/ \E p, i : StepBegins(p, i)
  \/ \E p, done, now, new, amended, todo :
       StepPersists(p, done, now, new, amended, todo)
  \/ \E c, new, amended : StepPanics(c, new, amended)
  \/ (\E done : StepTicks(done)) \/ StepDies
  \/ \E T, pc : StepDrops(T, pc)
  \/ \E p \in Procs : Persist(p)
  \/ Write \/ Flushed \/ Enqueue \/ Flush

-----------------------------------------------------------------------------
(* Each action is a step of one of these kinds.                            *)

LEMMA TaskFacts ==
  ASSUME Typed, NEW p \in Procs
  PROVE  /\ tasks[p] \in Task /\ tasks[p].at \in 0 .. clock /\ tasks[p].at \in Nat
         /\ tasks[p].todo \in Seq(Snapshot)
         /\ tasks[p].intent \in Intent \cup {None}
         /\ DOMAIN tasks = Procs /\ clock \in Nat /\ Fit(sched)
BY DEF Typed, SchedulerFits, TasksTyped, Task

LEMMA Sorts ==
  /\ \A c \in Clients : c \in Tasks /\ c \in Procs /\ c \notin Renderers /\ c # Cleanup
  /\ \A r \in Renderers : r \in Tasks /\ r \in Procs /\ r \notin Clients /\ r # Cleanup
  /\ \A p \in Procs : p \in Tasks \/ p = Cleanup
  /\ Cleanup \in Procs /\ Cleanup \notin Tasks /\ "loop" \notin Procs
  /\ \A p \in Procs : p # None
  /\ None \notin Errors /\ None \notin Intent
BY DaemonConstants DEF Tasks, Procs, Intent

\* What an action knows of its task: in flight it holds no snapshots, and before
\* a jump no intent; a client holds request_order.
LEMMA Flight ==
  ASSUME Typed, Disciplined, NEW p \in Procs
  PROVE  /\ tasks[p].pc \notin {"persist", "receipt"} => tasks[p].todo = <<>>
         /\ tasks[p].pc \in {"idle", "waiting", "received", "ready", "persist",
                             "receipt", "answered", "aborted"} =>
              tasks[p].intent = None
         /\ p \in Tasks /\ tasks[p].pc # "answered" => tasks[p].error = None
         /\ p \in Clients /\ tasks[p].pc \in {"ready", "begun", "switching",
              "switched", "refused", "persist", "receipt"} => order = p
         /\ p \in Tasks /\ Ending =>
              tasks[p].pc \notin {"waiting", "received", "ready", "begun"}
         /\ p \in Clients /\ tasks[p].pc \in {"waiting", "ready"} =>
              tasks[p].cmd \in Commands
         /\ p \in Renderers /\ tasks[p].pc \in {"received", "ready"} =>
              tasks[p].cmd \in Action
         /\ p \in Clients => tasks[p].pc \in PlacesOfClient
         /\ p \in Renderers => tasks[p].pc \in PlacesOfRenderer
BY DEF Typed, TasksTyped, Disciplined, Discipline, OrderHeld, Winding

LEMMA RefusesEnds ==
  ASSUME Typed, Disciplined, NEW p \in Tasks, NEW error \in Errors,
         Refuses(p, error),
         tasks[p].pc \in {"received", "ready", "switching", "switched", "refused"},
         \/ tasks[p].intent = None \/ error = "TimeWentBackwards"
         \/ ~IntentPinned(sched, tasks[p].intent)
  PROVE  StepEnds(p, error)
<1>1. p \in Procs
  BY DEF Procs
<1>2. tasks[p].todo = <<>> /\ Fit(sched)
  BY <1>1, Flight, TaskFacts
<1>3. Calm(sched, sched, tasks[p].at) /\ Steady(sched, sched)
  BY <1>2, CalmItself
<1> QED BY <1>2, <1>3 DEF Refuses, StepEnds

LEMMA ArriveMoves ==
  ASSUME Typed, Disciplined, NEW c \in Clients, Arrive(c)
  PROVE  \E task : StepMoves(c, task)
<1>1. PICK cmd \in Commands :
        tasks' = [tasks EXCEPT ![c].pc = "waiting", ![c].cmd = cmd]
  BY DEF Arrive
<1>2. PICK task : task = [tasks[c] EXCEPT !.pc = "waiting", !.cmd = cmd]
  OBVIOUS
<1>3. c \in Procs /\ c \in Tasks /\ c \notin Renderers
  BY Sorts
<1>4. /\ tasks[c] \in Task /\ tasks[c].at <= clock /\ DOMAIN tasks = Procs
      /\ tasks[c].intent = None /\ At(c, "idle") /\ ~Ending
  BY <1>3, TaskFacts, Flight DEF Arrive, At, Ending
<1>5. task \in Task /\ task.pc = "waiting" /\ task.cmd \in Commands
      /\ task.at = tasks[c].at /\ task.todo = tasks[c].todo
      /\ task.intent = tasks[c].intent /\ task.error = tasks[c].error
  BY <1>2, <1>4, DaemonConstants DEF Task, PlacesOfClient
<1>6. tasks' = [tasks EXCEPT ![c] = task]
  BY <1>1, <1>2, <1>3, <1>4
<1>7. backend' \in Tasks \cup {None} /\ order' = order
      /\ UNCHANGED <<sched, history, control>>
  BY DEF Arrive, Typed, ControlTyped
<1> QED BY <1>3, <1>4, <1>5, <1>6, <1>7 DEF StepMoves, At, PlacesOfClient

LEMMA ReadClockMoves ==
  ASSUME Typed, Disciplined, NEW c \in Clients, ReadClock(c)
  PROVE  \E task : StepMoves(c, task)
<1>1. PICK task : task = [tasks[c] EXCEPT !.pc = "ready", !.at = clock]
  OBVIOUS
<1>2. c \in Procs /\ c \in Tasks /\ c \notin Renderers
  BY Sorts
<1>3. /\ tasks[c] \in Task /\ clock \in Nat /\ DOMAIN tasks = Procs
      /\ tasks[c].intent = None /\ At(c, "waiting") /\ ~Ending
      /\ tasks[c].cmd \in Commands
  BY <1>2, TaskFacts, Flight DEF ReadClock, At
<1>4. task \in Task /\ task.pc = "ready" /\ task.cmd \in Commands
      /\ task.at = clock /\ task.todo = tasks[c].todo
      /\ task.intent = tasks[c].intent /\ task.error = tasks[c].error
  BY <1>1, <1>3 DEF Task, PlacesOfClient
<1>5. tasks' = [tasks EXCEPT ![c] = task] /\ order = None /\ order' = c
  BY <1>1, <1>2, <1>3 DEF ReadClock
<1>6. backend' \in Tasks \cup {None} /\ UNCHANGED <<sched, history, control>>
  BY DEF ReadClock, Typed, ControlTyped
<1>7. task.at <= clock
  BY <1>3, <1>4
<1>8. StepMoves(c, task)
  BY <1>2, <1>3, <1>4, <1>5, <1>6, <1>7 DEF StepMoves, At, PlacesOfClient
<1> QED BY <1>8

LEMMA PressMoves ==
  ASSUME Typed, Disciplined, NEW r \in Renderers, Press(r)
  PROVE  \E task : StepMoves(r, task)
<1>1. PICK op \in {"dismiss", "jump"} :
        tasks' = [tasks EXCEPT ![r].pc = "received", ![r].at = clock,
                               ![r].cmd = [op |-> op, id |-> sched.attention]]
  BY DEF Press
<1>2. PICK task : task = [tasks[r] EXCEPT !.pc = "received", !.at = clock,
                            !.cmd = [op |-> op, id |-> sched.attention]]
  OBVIOUS
<1>3. r \in Procs /\ r \in Tasks /\ r \notin Clients
  BY Sorts
<1>4. /\ tasks[r] \in Task /\ clock \in Nat /\ DOMAIN tasks = Procs
      /\ tasks[r].intent = None /\ At(r, "idle") /\ ~Ending
  BY <1>3, TaskFacts, Flight DEF Press, At, Ending
<1>5. sched.attention \in Ids
  BY <1>3, TaskFacts, FitNumbers DEF Press
<1>6. task \in Task /\ task.pc = "received" /\ task.cmd \in Action
      /\ task.at = clock /\ task.todo = tasks[r].todo
      /\ task.intent = tasks[r].intent /\ task.error = tasks[r].error
  BY <1>2, <1>4, <1>5 DEF Task, PlacesOfRenderer, Action
<1>7. tasks' = [tasks EXCEPT ![r] = task]
  BY <1>1, <1>2, <1>3, <1>4
<1>8. backend' \in Tasks \cup {None} /\ order' = order
      /\ UNCHANGED <<sched, history, control>>
  BY DEF Press, Typed, ControlTyped
<1>9. task.at <= clock
  BY <1>4, <1>6
<1>10. StepMoves(r, task)
  BY <1>3, <1>4, <1>6, <1>7, <1>8, <1>9 DEF StepMoves, At, PlacesOfRenderer
<1> QED BY <1>10

LEMMA CheckMoves ==
  ASSUME Typed, Disciplined, NEW r \in Renderers, CheckAttention(r)
  PROVE  (\E task : StepMoves(r, task)) \/ (\E error : StepEnds(r, error))
<1>1. r \in Procs /\ r \in Tasks /\ r \notin Clients
  BY Sorts
<1>2. /\ tasks[r] \in Task /\ tasks[r].at <= clock /\ DOMAIN tasks = Procs
      /\ tasks[r].intent = None /\ At(r, "received") /\ ~Ending
      /\ tasks[r].cmd \in Action
  BY <1>1, TaskFacts, Flight DEF CheckAttention, At
<1>3. CASE tasks[r].cmd.id \in OfKind(sched, "attention")
  <2>1. PICK task : task = [tasks[r] EXCEPT !.pc = "ready"]
    OBVIOUS
  <2>2. task \in Task /\ task.pc = "ready" /\ task.cmd \in Action
        /\ task.at = tasks[r].at /\ task.todo = tasks[r].todo
        /\ task.intent = tasks[r].intent /\ task.error = tasks[r].error
    BY <1>2, <2>1 DEF Task, PlacesOfRenderer, PlacesOfClient
  <2>3. tasks' = [tasks EXCEPT ![r] = task]
    BY <1>1, <1>2, <1>3, <2>1 DEF CheckAttention
  <2>4. backend' \in Tasks \cup {None} /\ order' = order
        /\ UNCHANGED <<sched, history, control>>
    BY <1>3 DEF CheckAttention, Typed, ControlTyped
  <2> QED BY <1>1, <1>2, <2>2, <2>3, <2>4 DEF StepMoves, At, PlacesOfRenderer,
              PlacesOfClient
<1>4. CASE tasks[r].cmd.id \notin OfKind(sched, "attention")
  <2>1. Refuses(r, "NotAttention")
    BY <1>4 DEF CheckAttention
  <2> QED BY <1>1, <1>2, <2>1, RefusesEnds DEF Errors, At
<1> QED BY <1>3, <1>4

LEMMA EnterMoves ==
  ASSUME Typed, Disciplined, NEW p \in Tasks, EnterTmux(p)
  PROVE  \E task : StepMoves(p, task)
<1>1. PICK task : task = [tasks[p] EXCEPT !.pc = "switching"]
  OBVIOUS
<1>2. p \in Procs /\ (p \in Clients => p \notin Renderers)
  BY Sorts DEF Procs
<1>3. /\ tasks[p] \in Task /\ tasks[p].at <= clock /\ DOMAIN tasks = Procs
      /\ At(p, "begun") /\ ~Ending /\ (p \in Clients => order = p)
  BY <1>2, TaskFacts, Flight DEF EnterTmux, At
<1>4. task \in Task /\ task.pc = "switching" /\ task.cmd = tasks[p].cmd
      /\ task.at = tasks[p].at /\ task.todo = tasks[p].todo
      /\ task.intent = tasks[p].intent /\ task.error = tasks[p].error
  BY <1>1, <1>3 DEF Task, PlacesOfClient
<1>5. tasks' = [tasks EXCEPT ![p] = task]
  BY <1>1, <1>2, <1>3 DEF EnterTmux
<1>6. backend' \in Tasks \cup {None} /\ order' = order
      /\ UNCHANGED <<sched, history, control>>
  BY DEF EnterTmux
<1> QED BY <1>2, <1>3, <1>4, <1>5, <1>6 DEF StepMoves, At, PlacesOfRenderer,
            PlacesOfClient

LEMMA LeaveSteps ==
  ASSUME Typed, Disciplined, NEW p \in Tasks, LeaveTmux(p)
  PROVE  (\E task : StepMoves(p, task)) \/ (\E error : StepEnds(p, error))
<1>1. p \in Procs /\ (p \in Clients => p \notin Renderers)
  BY Sorts DEF Procs
<1>2. /\ tasks[p] \in Task /\ tasks[p].at <= clock /\ DOMAIN tasks = Procs
      /\ At(p, "switching") /\ (p \in Clients => order = p) /\ Fit(sched)
      /\ tasks[p].todo = <<>>
  BY <1>1, TaskFacts, Flight DEF LeaveTmux, At
<1>3. backend' = None /\ UNCHANGED <<sched, history, control>>
  BY DEF LeaveTmux
<1>4. CASE tasks[p].intent = None
  <2>1. PICK error \in {None, "Jump"} : Ends(p, error)
    BY <1>4 DEF LeaveTmux
  <2>2. Calm(sched, sched', tasks[p].at) /\ Steady(sched, sched')
    BY <1>2, <1>3, CalmItself
  <2>3. error \in Errors \cup {None}
    BY DEF Errors
  <2> QED BY <1>2, <1>3, <1>4, <2>1, <2>2, <2>3 DEF StepEnds, At
<1>5. CASE tasks[p].intent # None
  <2>1. PICK pc \in {"switched", "refused"} : tasks' = [tasks EXCEPT ![p].pc = pc]
    BY <1>5 DEF LeaveTmux
  <2>2. PICK task : task = [tasks[p] EXCEPT !.pc = pc]
    OBVIOUS
  <2>3. task \in Task /\ task.pc = pc /\ task.cmd = tasks[p].cmd
        /\ task.at = tasks[p].at /\ task.todo = tasks[p].todo
        /\ task.intent = tasks[p].intent /\ task.error = tasks[p].error
    BY <1>2, <2>2 DEF Task, PlacesOfClient
  <2>4. tasks' = [tasks EXCEPT ![p] = task]
    BY <1>1, <1>2, <2>1, <2>2
  <2>5. order' = order
    BY <1>5 DEF LeaveTmux
  <2> QED BY <1>1, <1>2, <1>3, <2>3, <2>4, <2>5 DEF StepMoves, At, PlacesOfRenderer,
              PlacesOfClient
<1> QED BY <1>4, <1>5

LEMMA HistoryJumpSteps ==
  ASSUME Typed, Disciplined, NEW c \in Clients, JumpFromHistory(c)
  PROVE  (\E task : StepMoves(c, task)) \/ (\E error : StepEnds(c, error))
<1>1. c \in Procs /\ c \in Tasks /\ c \notin Renderers
  BY Sorts
<1>2. /\ tasks[c] \in Task /\ tasks[c].at <= clock /\ DOMAIN tasks = Procs
      /\ At(c, "ready") /\ ~Ending /\ order = c /\ tasks[c].intent = None
  BY <1>1, TaskFacts, Flight DEF JumpFromHistory, Ready, At
<1>3. CASE sched.attention = None
  <2>1. PICK task : task = [tasks[c] EXCEPT !.pc = "begun"]
    OBVIOUS
  <2>2. task \in Task /\ task.pc = "begun" /\ task.cmd = tasks[c].cmd
        /\ task.at = tasks[c].at /\ task.todo = tasks[c].todo
        /\ task.intent = tasks[c].intent /\ task.error = tasks[c].error
    BY <1>2, <2>1 DEF Task, PlacesOfClient
  <2>3. tasks' = [tasks EXCEPT ![c] = task]
    BY <1>1, <1>2, <1>3, <2>1 DEF JumpFromHistory
  <2>4. backend' \in Tasks \cup {None} /\ order' = order
        /\ UNCHANGED <<sched, history, control>>
    BY <1>3 DEF JumpFromHistory, Typed, ControlTyped
  <2> QED BY <1>1, <1>2, <2>2, <2>3, <2>4 DEF StepMoves, At, PlacesOfRenderer,
              PlacesOfClient
<1>4. CASE sched.attention # None
  <2>1. Refuses(c, "AttentionActive")
    BY <1>4 DEF JumpFromHistory
  <2> QED BY <1>1, <1>2, <2>1, RefusesEnds DEF Errors, At
<1> QED BY <1>3, <1>4

\* close, by key, by an action, or by the end of a jump.
LEMMA ClosesSteps ==
  ASSUME Typed, Disciplined, NEW p \in Tasks, NEW i, NEW reason \in Reasons,
         Closes(p, i, reason), tasks[p].pc \in {"ready", "switched"},
         tasks[p].intent # None => i = tasks[p].intent.id
  PROVE  \/ \E error : StepEnds(p, error)
         \/ \E done, now, new, amended, todo :
              StepPersists(p, done, now, new, amended, todo)
<1>1. PICK done : done = Close(sched, i, reason, tasks[p].at)
  OBVIOUS
<1>2. p \in Procs /\ p # Cleanup
  BY Sorts DEF Procs
<1>3. /\ Fit(sched) /\ tasks[p].at \in Nat /\ tasks[p].at \in 0 .. clock
      /\ tasks[p].todo = <<>>
  BY <1>2, TaskFacts, Flight
<1>4. /\ Calm(sched, done, tasks[p].at) /\ Steady(sched, done)
      /\ i \notin Live(done)
  BY <1>1, <1>3, CloseCalm
<1>5. tasks[p].intent # None => ~IntentPinned(done, tasks[p].intent)
  BY <1>4 DEF IntentPinned
<1>6. UNCHANGED <<backend, history, control>>
  BY DEF Closes
<1>7. CASE i \in Live(PrepareTime(sched, tasks[p].at))
  <2>1. sched' = DrainClosed(done) /\ Persists(p, Drained(done)) /\ order' = order
    BY <1>1, <1>7 DEF Closes
  <2>2. Fit(done)
    BY <1>4 DEF Calm, Turns
  <2>3. /\ Drained(done) \in Seq(Snapshot)
        /\ Range(Drained(done)) = {Closing(j) : j \in Closed(done)}
    BY <2>2, DrainedAll
  <2>4. StepPersists(p, done, tasks[p].at, {}, {}, Drained(done))
    BY <1>2, <1>3, <1>4, <1>5, <1>6, <2>1, <2>3 DEF StepPersists, Calm, Steady
  <2> QED BY <2>4
<1>8. CASE i \notin Live(PrepareTime(sched, tasks[p].at))
  <2>1. sched' = done /\ Ends(p, "NotLive")
    BY <1>1, <1>8 DEF Closes
  <2> QED BY <1>3, <1>4, <1>5, <1>6, <2>1 DEF Errors, StepEnds
<1> QED BY <1>7, <1>8

\* begin_jump, by key or by an action.
LEMMA BeginSteps ==
  ASSUME Typed, Disciplined, NEW p \in Tasks, NEW i, BeginOne(p, i), At(p, "ready")
  PROVE  (\E error : StepEnds(p, error)) \/ (\E j : StepBegins(p, j))
<1>1. PICK begun : begun = BeginJump(sched, i, tasks[p].at)
  OBVIOUS
<1>2. p \in Procs
  BY DEF Procs
<1>3. /\ Fit(sched) /\ tasks[p].at \in Nat /\ tasks[p].todo = <<>>
      /\ tasks[p].intent = None
  BY <1>2, TaskFacts, Flight DEF At
<1>4. /\ Turns(sched, begun, tasks[p].at, {}, {})
      /\ begun.nextSequence = sched.nextSequence /\ Steady(sched, begun)
      /\ \A j \in Live(begun) : begun.entries[j].nonce # None =>
           \/ j \in Live(sched) /\ sched.entries[j].nonce = begun.entries[j].nonce
           \/ /\ j = i /\ begun.entries[j].nonce = sched.nextNonce
              /\ begun.nextNonce # sched.nextNonce
      /\ begun.nextNonce # sched.nextNonce => i \in Ids
  BY <1>1, <1>3, BeginTurns
<1>5. sched' = begun /\ UNCHANGED <<backend, history, control>>
  BY <1>1 DEF BeginOne
<1>6. CASE begun.nextNonce = sched.nextNonce
  <2>1. Ends(p, "Refused")
    BY <1>1, <1>6 DEF BeginOne
  <2>2. Live(sched) \cup Closed(sched) = {} => Closed(begun) = {}
    BY <1>3, <1>4, EmptyRoomy DEF Steady, Complete, Fit
  <2>3. Calm(sched, sched', tasks[p].at)
    BY <1>4, <1>5, <1>6, <2>2 DEF Calm, NoNewPin
  <2> QED BY <1>3, <1>4, <1>5, <2>1, <2>3 DEF Errors, StepEnds, At
<1>7. CASE begun.nextNonce # sched.nextNonce
  <2>1. /\ tasks' = [tasks EXCEPT ![p].pc = "begun",
                       ![p].intent = [id |-> i, nonce |-> sched.nextNonce]]
        /\ order' = order
    BY <1>1, <1>7 DEF BeginOne
  <2>2. StepBegins(p, i)
    BY <1>4, <1>5, <1>7, <2>1 DEF StepBegins
  <2> QED BY <2>2
<1> QED BY <1>6, <1>7

\* There is a number for the Notification of a client that may still send.
LEMMA NumberLeft ==
  ASSUME Typed, Disciplined, NEW c \in Clients, At(c, "ready")
  PROVE  sched.nextSequence < MaxSubmits
<1>1. IsFiniteSet(Clients) /\ Cardinality(Clients) <= MaxSubmits /\ MaxSubmits \in Nat
  BY DaemonConstants, SchedulerConstants
<1>2. Early \subseteq Clients /\ c \in Early
  BY DEF Early, At
<1>3. /\ Cardinality(Early) \in Nat /\ Cardinality({}) < Cardinality(Early)
      /\ Cardinality(Clients) \in Nat
  BY <1>1, <1>2, PartCounts, FS_CardinalityType
<1>4. Cardinality({}) = 0
  BY FS_EmptySet
<1>5. sched.nextSequence \in Nat
  BY FitNumbers DEF Typed, SchedulerFits
<1>6. sched.nextSequence + Cardinality(Early) <= Cardinality(Clients)
  BY DEF Disciplined, Counted
<1> HIDE DEF Early
<1> QED BY <1>1, <1>3, <1>4, <1>5, <1>6

LEMMA SendSteps ==
  ASSUME Typed, Disciplined, NEW c \in Clients, Send(c)
  PROVE  \/ \E error : StepEnds(c, error)
         \/ \E done, now, new, amended, todo :
              StepPersists(c, done, now, new, amended, todo)
         \/ \E new, amended : StepPanics(c, new, amended)
<1>1. c \in Procs /\ c \in Tasks /\ c # Cleanup
  BY Sorts
<1>2. PICK d : d = tasks[c].cmd.draft
  OBVIOUS
<1>3. PICK done : done = Submit(sched, d, tasks[c].at)
  OBVIOUS
<1>4. PICK i : i = Target(PrepareTime(sched, tasks[c].at), d)
  OBVIOUS
<1>5. /\ Fit(sched) /\ tasks[c].at \in Nat /\ tasks[c].at \in 0 .. clock
      /\ tasks[c].todo = <<>> /\ tasks[c].intent = None /\ At(c, "ready")
      /\ tasks[c].cmd \in Commands /\ tasks[c].cmd.op = "send"
  BY <1>1, TaskFacts, Flight DEF Send, Ready, At
<1>6. d \in Draft
  BY <1>2, <1>5, DaemonConstants DEF Command
<1>7. sched.nextSequence < MaxSubmits
  BY <1>5, NumberLeft
<1>8. /\ Turns(sched, done, tasks[c].at, Joined(sched, done), {i})
      /\ NoNewPin(sched, done)
      /\ ~done.panicked => Complete(sched, done, Joined(sched, done))
      /\ done.nextSequence \in {sched.nextSequence, sched.nextSequence + 1}
  BY <1>3, <1>4, <1>5, <1>6, <1>7, SubmitTurns
<1>9. CASE InTime(c) /\ ~done.panicked
  <2>1. /\ sched' = DrainClosed(done) /\ Persists(c, Taken(done, i))
        /\ UNCHANGED <<order, backend, history, control>>
    BY <1>2, <1>3, <1>4, <1>9 DEF Send
  <2>2. PICK todo : todo = Taken(done, i)
    OBVIOUS
  <2>3. Fit(done)
    BY <1>8 DEF Turns
  <2>4. /\ todo \in Seq(Snapshot)
        /\ i \notin Live(done) => Range(todo) = {Closing(j) : j \in Closed(done)}
        /\ i \in Live(done) =>
             Range(todo) = {[id |-> i, state |-> done.entries[i].draft.text]}
                             \cup {Closing(j) : j \in Closed(done)}
    BY <2>2, <2>3, TakenAll
  <2>5. Range(todo) = {[id |-> j, state |-> done.entries[j].draft.text] :
                         j \in {i} \cap Live(done)}
                        \cup {Closing(j) : j \in Closed(done)}
    <3>1. CASE i \in Live(done)
      <4>1. {i} \cap Live(done) = {i}
        BY <3>1
      <4> QED BY <2>4, <3>1, <4>1
    <3>2. CASE i \notin Live(done)
      <4>1. {i} \cap Live(done) = {}
        BY <3>2
      <4> QED BY <2>4, <3>2, <4>1
    <3> QED BY <3>1, <3>2
  <2>6. \/ Joined(sched, done) = {} /\ done.nextSequence = sched.nextSequence
        \/ done.nextSequence = sched.nextSequence + 1
    BY <1>8 DEF Joined
  <2>7. StepPersists(c, done, tasks[c].at, Joined(sched, done), {i}, todo)
    BY <1>1, <1>5, <1>8, <1>9, <2>1, <2>2, <2>4, <2>5, <2>6 DEF StepPersists, At
  <2> QED BY <2>7
<1>10. CASE ~InTime(c)
  <2>1. Refuses(c, "TimeWentBackwards")
    BY <1>2, <1>10 DEF Send
  <2> QED BY <1>1, <1>5, <2>1, RefusesEnds DEF At, Errors
<1>11. CASE InTime(c) /\ done.panicked
  <2>1. /\ sched' = done /\ Ends(c, "Panicked")
        /\ UNCHANGED <<backend, history, control>>
    BY <1>2, <1>3, <1>11 DEF Send
  <2>2. \/ Joined(sched, done) = {} /\ done.nextSequence = sched.nextSequence
        \/ done.nextSequence = sched.nextSequence + 1
    BY <1>8 DEF Joined
  <2>3. StepPanics(c, Joined(sched, done), {i})
    BY <1>5, <1>8, <2>1, <2>2 DEF StepPanics
  <2> QED BY <2>3
<1> QED BY <1>9, <1>10, <1>11

LEMMA AmendSteps ==
  ASSUME Typed, Disciplined, NEW c \in Clients, Amend(c)
  PROVE  \/ \E error : StepEnds(c, error)
         \/ \E done, now, new, amended, todo :
              StepPersists(c, done, now, new, amended, todo)
<1>1. c \in Procs /\ c \in Tasks /\ c # Cleanup
  BY Sorts
<1>2. PICK i : i = sched.liveKeys[tasks[c].cmd.key]
  OBVIOUS
<1>3. PICK done : done = ApplyUpdate(sched, i, tasks[c].cmd.change, tasks[c].at)
  OBVIOUS
<1>4. /\ Fit(sched) /\ tasks[c].at \in Nat /\ tasks[c].at \in 0 .. clock
      /\ tasks[c].todo = <<>> /\ tasks[c].intent = None /\ At(c, "ready")
      /\ tasks[c].cmd \in Commands /\ tasks[c].cmd.op = "update"
  BY <1>1, TaskFacts, Flight DEF Amend, Ready, At
<1>5. tasks[c].cmd.change \in Update
  BY <1>4, DaemonConstants DEF Command
<1>6. /\ Turns(sched, done, tasks[c].at, {}, {i}) /\ NoNewPin(sched, done)
      /\ done.nextSequence = sched.nextSequence /\ Steady(sched, done)
  BY <1>3, <1>4, <1>5, UpdateTurns
<1>7. CASE i # None /\ InTime(c)
  <2>1. /\ IF i \in Live(done)
           THEN /\ sched' = DrainClosed(done)
                /\ Persists(c, Taken(done, i))
                /\ UNCHANGED order
           ELSE sched' = done /\ Ends(c, "NotLive")
        /\ UNCHANGED <<backend, history, control>>
    BY <1>2, <1>3, <1>7 DEF Amend
  <2>2. CASE i \in Live(done)
    <3>1. PICK todo : todo = Taken(done, i)
      OBVIOUS
    <3>2. Fit(done)
      BY <1>6 DEF Turns
    <3>3. /\ todo \in Seq(Snapshot)
          /\ Range(todo) = {[id |-> i, state |-> done.entries[i].draft.text]}
                             \cup {Closing(j) : j \in Closed(done)}
      BY <2>2, <3>1, <3>2, TakenAll
    <3>4. {i} \cap Live(done) = {i}
      BY <2>2
    <3>5. Range(todo) = {[id |-> j, state |-> done.entries[j].draft.text] :
                           j \in {i} \cap Live(done)}
                          \cup {Closing(j) : j \in Closed(done)}
      BY <3>3, <3>4
    <3>6. StepPersists(c, done, tasks[c].at, {}, {i}, todo)
      BY <1>1, <1>4, <1>6, <2>1, <2>2, <3>1, <3>3, <3>5 DEF StepPersists, At, Steady
    <3> QED BY <3>6
  <2>3. CASE i \notin Live(done)
    <3>1. Turns(sched, done, tasks[c].at, {}, {})
      BY <1>6, <2>3 DEF Turns
    <3>2. Live(sched) \cup Closed(sched) = {} => Closed(done) = {}
      BY <1>4, <1>6, EmptyRoomy DEF Steady, Complete, Turns, Fit
    <3>3. Calm(sched, done, tasks[c].at)
      BY <1>6, <3>1, <3>2 DEF Calm
    <3> QED BY <1>1, <1>4, <1>6, <2>1, <2>3, <3>3 DEF Errors, StepEnds, At
  <2> QED BY <2>2, <2>3
<1>8. CASE i = None \/ ~InTime(c)
  <2>1. \E error \in {"KeyNotLive", "TimeWentBackwards"} : Refuses(c, error)
    BY <1>2, <1>8 DEF Amend
  <2>2. PICK error \in {"KeyNotLive", "TimeWentBackwards"} : Refuses(c, error)
    BY <2>1
  <2>3. error \in Errors
    BY DEF Errors
  <2> QED BY <1>1, <1>4, <2>2, <2>3, RefusesEnds DEF At
<1> QED BY <1>7, <1>8

LEMMA DismissSteps ==
  ASSUME Typed, Disciplined, NEW c \in Clients, Dismiss(c)
  PROVE  \/ \E error : StepEnds(c, error)
         \/ \E done, now, new, amended, todo :
              StepPersists(c, done, now, new, amended, todo)
<1>1. c \in Procs /\ c \in Tasks /\ At(c, "ready") /\ tasks[c].intent = None
  BY Sorts, Flight DEF Dismiss, Ready, At
<1>2. PICK i : i = sched.liveKeys[tasks[c].cmd.key]
  OBVIOUS
<1>3. CASE i # None /\ InTime(c)
  <2>1. Closes(c, i, "Dismissed") /\ "Dismissed" \in Reasons
    BY <1>2, <1>3 DEF Dismiss, Reasons
  <2> QED BY <1>1, <2>1, ClosesSteps DEF At
<1>4. CASE i = None \/ ~InTime(c)
  <2>1. PICK error \in {"KeyNotLive", "TimeWentBackwards"} : Refuses(c, error)
    BY <1>2, <1>4 DEF Dismiss
  <2>2. error \in Errors
    BY DEF Errors
  <2> QED BY <1>1, <2>1, <2>2, RefusesEnds DEF At
<1> QED BY <1>3, <1>4

LEMMA JumpSteps ==
  ASSUME Typed, Disciplined, NEW c \in Clients, JumpByKey(c)
  PROVE  (\E error : StepEnds(c, error)) \/ (\E i : StepBegins(c, i))
<1>1. c \in Procs /\ c \in Tasks /\ At(c, "ready") /\ tasks[c].intent = None
  BY Sorts, Flight DEF JumpByKey, Ready, At
<1>2. CASE InTime(c)
  <2>1. BeginOne(c, PrepareTime(sched, tasks[c].at).liveKeys[tasks[c].cmd.key])
    BY <1>2 DEF JumpByKey
  <2> QED BY <1>1, <2>1, BeginSteps
<1>3. CASE ~InTime(c)
  <2>1. Refuses(c, "TimeWentBackwards")
    BY <1>3 DEF JumpByKey
  <2> QED BY <1>1, <2>1, RefusesEnds DEF Errors, At
<1> QED BY <1>2, <1>3

LEMMA ActSteps ==
  ASSUME Typed, Disciplined, NEW r \in Renderers, Act(r)
  PROVE  \/ \E error : StepEnds(r, error)
         \/ \E i : StepBegins(r, i)
         \/ \E done, now, new, amended, todo :
              StepPersists(r, done, now, new, amended, todo)
<1>1. r \in Procs /\ r \in Tasks /\ At(r, "ready") /\ tasks[r].intent = None
      /\ tasks[r].cmd.op \in {"dismiss", "jump"}
  BY Sorts, Flight DEF Act, At, Action
<1>2. CASE InTime(r) /\ tasks[r].cmd.op = "dismiss"
  <2>1. Closes(r, tasks[r].cmd.id, "Dismissed") /\ "Dismissed" \in Reasons
    BY <1>2 DEF Act, Reasons
  <2> QED BY <1>1, <2>1, ClosesSteps DEF At
<1>3. CASE InTime(r) /\ tasks[r].cmd.op = "jump"
  <2>1. BeginOne(r, tasks[r].cmd.id)
    BY <1>3 DEF Act
  <2> QED BY <1>1, <2>1, BeginSteps
<1>4. CASE ~InTime(r)
  <2>1. Refuses(r, "TimeWentBackwards")
    BY <1>4 DEF Act
  <2> QED BY <1>1, <2>1, RefusesEnds DEF Errors, At
<1> QED BY <1>1, <1>2, <1>3, <1>4

LEMMA CommitSteps ==
  ASSUME Typed, Disciplined, NEW p \in Tasks, Commit(p)
  PROVE  \/ \E error : StepEnds(p, error)
         \/ \E done, now, new, amended, todo :
              StepPersists(p, done, now, new, amended, todo)
<1>1. PICK intent : intent = tasks[p].intent
  OBVIOUS
<1>2. CASE IntentValid(sched, intent) /\ InTime(p)
  <2>1. Closes(p, intent.id, "Jumped") /\ "Jumped" \in Reasons
    BY <1>1, <1>2 DEF Commit, Reasons
  <2> QED BY <1>1, <2>1, ClosesSteps DEF Commit, At
<1>3. CASE IntentValid(sched, intent) /\ ~InTime(p)
  <2>1. Refuses(p, "TimeWentBackwards")
    BY <1>1, <1>3 DEF Commit
  <2> QED BY <1>1, <2>1, RefusesEnds DEF Errors, Commit, At
<1>4. CASE ~IntentValid(sched, intent)
  <2>1. Refuses(p, "StaleJumpIntent")
    BY <1>1, <1>4 DEF Commit
  <2>2. ~IntentPinned(sched, intent)
    BY <1>4 DEF IntentPinned, IntentValid
  <2> QED BY <1>1, <2>1, <2>2, RefusesEnds DEF Errors, Commit, At
<1> QED BY <1>2, <1>3, <1>4

LEMMA CancelSteps ==
  ASSUME Typed, Disciplined, NEW p \in Tasks, Cancel(p)
  PROVE  \E error : StepEnds(p, error)
<1>1. p \in Procs
  BY DEF Procs
<1>2. /\ Fit(sched) /\ tasks[p].at \in Nat /\ tasks[p].todo = <<>> /\ At(p, "refused")
  BY <1>1, TaskFacts, Flight DEF Cancel, At
<1>3. CASE InTime(p)
  <2>1. /\ sched' = CancelJump(sched, tasks[p].intent, tasks[p].at)
        /\ Ends(p, "Jump") /\ UNCHANGED <<backend, history, control>>
    BY <1>3 DEF Cancel
  <2>2. /\ Calm(sched, sched', tasks[p].at) /\ Steady(sched, sched')
        /\ ~IntentPinned(sched', tasks[p].intent)
    BY <1>2, <2>1, CancelCalm
  <2>3. StepEnds(p, "Jump")
    BY <1>2, <2>1, <2>2 DEF Errors, StepEnds, At
  <2> QED BY <2>3
<1>4. CASE ~InTime(p)
  <2>1. Refuses(p, "TimeWentBackwards")
    BY <1>4 DEF Cancel
  <2> QED BY <1>2, <2>1, RefusesEnds DEF Errors, At
<1> QED BY <1>3, <1>4

LEMMA AnswerEnds ==
  ASSUME Typed, Disciplined, NEW p \in Tasks, Answer(p)
  PROVE  StepEnds(p, None)
<1>1. p \in Procs
  BY DEF Procs
<1>2. Fit(sched) /\ tasks[p].intent = None /\ At(p, "persist") /\ tasks[p].todo = <<>>
  BY <1>1, TaskFacts, Flight DEF Answer, At
<1>3. sched' = sched /\ Ends(p, None) /\ UNCHANGED <<backend, history, control>>
  BY DEF Answer
<1>4. Calm(sched, sched', tasks[p].at) /\ Steady(sched, sched')
  BY <1>2, <1>3, CalmItself
<1> QED BY <1>2, <1>3, <1>4 DEF StepEnds, At

LEMMA CloseLivePersists ==
  ASSUME Typed, Disciplined, CloseLive
  PROVE  \E done, now, new, amended, todo :
           StepPersists(Cleanup, done, now, new, amended, todo)
<1>1. Cleanup \in Procs /\ Cleanup \notin Tasks
  BY Sorts
<1>2. Fit(sched) /\ At(Cleanup, "ready") /\ clock \in Nat /\ tasks[Cleanup].intent = None
  BY <1>1, TaskFacts, Flight DEF CloseLive, At
<1>3. PICK line \in Bijection(Live(sched), 1 .. Cardinality(Live(sched))) :
        /\ sched' = DrainClosed(Shutdown(sched, line, "DaemonStopped", clock))
        /\ Persists(Cleanup, Drained(Shutdown(sched, line, "DaemonStopped", clock)))
  BY DEF CloseLive
<1>4. PICK done : done = Shutdown(sched, line, "DaemonStopped", clock)
  OBVIOUS
<1>5. IsLine(line, Live(sched))
  BY <1>3 DEF Bijection, Injection, Surjection, IsLine, IsInjective
<1>6. Calm(sched, done, clock) /\ Steady(sched, done) /\ Live(done) = {}
  BY <1>2, <1>4, <1>5, ShutdownCalm
<1>7. Fit(done)
  BY <1>6 DEF Calm, Turns
<1>8. /\ Drained(done) \in Seq(Snapshot)
      /\ Range(Drained(done)) = {Closing(j) : j \in Closed(done)}
  BY <1>7, DrainedAll
<1>9. StepPersists(Cleanup, done, clock, {}, {}, Drained(done))
  <2>1. UNCHANGED <<order, backend, history, control>>
    BY DEF CloseLive
  <2> QED BY <1>1, <1>2, <1>3, <1>4, <1>6, <1>8, <2>1 DEF StepPersists, Calm, Steady, At
<1> QED BY <1>9

LEMMA TickTicks ==
  ASSUME Typed, Disciplined, Tick
  PROVE  (\E done : StepTicks(done)) \/ StepDies
<1>1. /\ Fit(sched) /\ clock \in Nat /\ loop.limits \in LimitsSet \cup {None}
      /\ loop.todo = <<>> /\ loop.pc = "tick"
  BY DEF Typed, SchedulerFits, ControlTyped, Disciplined, Discipline, Tick
<1>2. PICK s : s = Adopted(sched)
  OBVIOUS
<1>3. /\ IF loop.limits # None /\ s.panicked THEN LoopDies(s)
         ELSE \E done \in Reconciled(s) : LoopTakes(done)
      /\ UNCHANGED <<tasks, order, backend, queue, rows, recorded, settings, daemon,
                     clock>>
  BY <1>2 DEF Tick, Adopted
<1>4. CASE loop.limits # None /\ s.panicked
  <2>1. Calm(sched, s, clock)
    BY <1>1, <1>2, AdoptedCalm
  <2> QED BY <1>1, <1>3, <1>4, <2>1 DEF LoopDies, StepDies, history
<1>5. CASE loop.limits = None \/ ~s.panicked
  <2>1. PICK done \in Reconciled(s) : LoopTakes(done)
    BY <1>3, <1>5
  <2>2. /\ Calm(sched, done, clock)
        /\ \/ Steady(sched, done)
           \/ done.limits # sched.limits /\ Roomy(DrainClosed(done))
    BY <1>1, <1>2, <1>5, <2>1, TickCalm
  <2>3. StepTicks(done)
    BY <1>1, <1>3, <2>1, <2>2 DEF LoopTakes, StepTicks
  <2> QED BY <2>3
<1> QED BY <1>4, <1>5

\* What an abort leaves alone.
LEMMA DroppedKeeps ==
  ASSUME Typed, NEW T \in SUBSET Tasks
  PROVE  /\ [Dropped(T) EXCEPT ![Cleanup].pc = tasks[Cleanup].pc] = Dropped(T)
         /\ T = {} => Dropped(T) = tasks
<1>1. Cleanup \in Procs /\ Cleanup \notin T
  BY Sorts
<1>2. tasks \in [Procs -> Task]
  BY DEF Typed, TasksTyped
<1>3. PICK f : f = Dropped(T)
  OBVIOUS
<1>4. DOMAIN f = Procs /\ f[Cleanup] = tasks[Cleanup] /\ f = [p \in Procs |-> f[p]]
  BY <1>1, <1>3 DEF Dropped
<1>5. [f EXCEPT ![Cleanup].pc = tasks[Cleanup].pc] = f
  <2>1. f[Cleanup] \in Task
    BY <1>1, <1>2, <1>4
  <2>2. [f[Cleanup] EXCEPT !.pc = tasks[Cleanup].pc] = f[Cleanup]
    BY <1>4, <2>1 DEF Task
  <2> QED BY <1>4, <2>2
<1>6. T = {} => f = tasks
  BY <1>2, <1>3 DEF Dropped
<1> QED BY <1>3, <1>5, <1>6

LEMMA ShuttingDrops ==
  ASSUME Typed, Disciplined,
         Drain \/ Abort \/ (\E c \in Clients : AbortLate(c)) \/ Exit
  PROVE  \E T, pc : StepDrops(T, pc)
<1>1. CASE Drain
  <2>1. Dropped({}) = tasks
    BY DroppedKeeps
  <2>2. tasks' = [Dropped({}) EXCEPT ![Cleanup].pc = "ready"]
    BY <1>1, <2>1 DEF Drain
  <2>3. DropLoses({}) /\ DropFrees({})
    BY <1>1 DEF Drain, DropLoses, DropFrees, history
  <2>4. StepDrops({}, "ready")
    BY <1>1, <2>2, <2>3 DEF Drain, StepDrops, history
  <2> QED BY <2>4
<1>2. CASE Abort
  <2>1. PICK T : T = {t \in Tasks : ~At(t, "switching")}
    OBVIOUS
  <2>2. /\ tasks' = [Dropped(T) EXCEPT ![Cleanup].pc = "ready"]
        /\ DropLoses(T) /\ DropFrees(T)
    BY <1>2, <2>1 DEF Abort
  <2>3. T \subseteq Tasks /\ \A t \in Tasks \ T : At(t, "switching")
    BY <2>1
  <2>4. StepDrops(T, "ready")
    BY <1>2, <2>2, <2>3 DEF Abort, StepDrops
  <2> QED BY <2>4
<1>3. ASSUME NEW c \in Clients, AbortLate(c) PROVE \E T, pc : StepDrops(T, pc)
  <2>1. {c} \subseteq Tasks
    BY Sorts
  <2>2. tasks' = [Dropped({c}) EXCEPT ![Cleanup].pc = tasks[Cleanup].pc]
    BY <1>3, <2>1, DroppedKeeps DEF AbortLate
  <2>3. StepDrops({c}, tasks[Cleanup].pc)
    BY <1>3, <2>1, <2>2 DEF AbortLate, StepDrops, control
  <2> QED BY <2>3
<1>4. CASE Exit
  <2>1. tasks' = [Dropped(Tasks) EXCEPT ![Cleanup].pc = tasks[Cleanup].pc]
    BY <1>4, DroppedKeeps DEF Exit
  <2>2. StepDrops(Tasks, tasks[Cleanup].pc)
    BY <1>4, <2>1 DEF Exit, StepDrops
  <2> QED BY <2>2
<1> QED BY <1>1, <1>2, <1>3, <1>4

LEMMA QuietSteps ==
  ASSUME Typed, Disciplined,
         StartTick \/ Reload \/ TimePasses \/ Signal \/ UNCHANGED vars
  PROVE  StepQuiet
<1>1. /\ clock \in Nat /\ ControlTyped /\ (loop.todo # <<>> => loop.pc = "enqueue")
  BY DEF Typed, SchedulerFits, Disciplined, Discipline
<1> USE <1>1 DEF StepQuiet, ControlTyped, history
<1>2. CASE StartTick
  <2>1. settings.limits \in LimitsSet /\ settings' = [settings EXCEPT !.changed = FALSE]
    BY <1>2 DEF StartTick
  <2>2. settings' \in [limits : LimitsSet, changed : BOOLEAN, reloads : Nat]
    BY <2>1
  <2>3. loop' = [loop EXCEPT !.pc = "tick", !.limits = NewLimits] /\ loop.todo = <<>>
    BY <1>2 DEF StartTick
  <2>4. NewLimits \in LimitsSet \cup {None}
    BY <2>1 DEF NewLimits
  <2>5. /\ loop' \in [pc : {"top", "tick", "enqueue", "dead"},
                      limits : LimitsSet \cup {None}, todo : Seq(Snapshot)]
        /\ loop'.todo = <<>> /\ loop.pc # "dead"
    BY <1>2, <2>3, <2>4 DEF StartTick
  <2>6. UNCHANGED <<sched, tasks, order, backend, queue, rows, lost, recorded,
                    daemon, clock>>
    BY <1>2 DEF StartTick
  <2> QED BY <2>2, <2>3, <2>5, <2>6
<1>3. CASE Reload
  <2>1. settings' \in [limits : LimitsSet, changed : BOOLEAN, reloads : Nat]
    BY <1>3 DEF Reload
  <2>2. UNCHANGED <<sched, tasks, order, backend, queue, rows, lost, recorded, loop,
                    daemon, clock>>
    BY <1>3 DEF Reload
  <2> QED BY <2>1, <2>2
<1>4. CASE TimePasses
  BY <1>4 DEF TimePasses
<1>5. CASE Signal
  BY <1>5 DEF Signal
<1>6. CASE UNCHANGED vars
  BY <1>6 DEF vars
<1> QED BY <1>2, <1>3, <1>4, <1>5, <1>6

\* Every step is of one of the kinds.
LEMMA NextSteps ==
  ASSUME Typed, Disciplined, [Next]_vars
  PROVE  Step
<1>1. ASSUME NEW c \in Clients, Arrive(c) \/ ReadClock(c) \/ Request(c) PROVE Step
  BY <1>1, ArriveMoves, ReadClockMoves, SendSteps, AmendSteps, DismissSteps, JumpSteps,
     HistoryJumpSteps DEF Request, Step
<1>2. ASSUME NEW r \in Renderers, Press(r) \/ CheckAttention(r) \/ Act(r) PROVE Step
  BY <1>2, PressMoves, CheckMoves, ActSteps DEF Step
<1>3. ASSUME NEW t \in Tasks, EnterTmux(t) \/ Jumping(t) \/ Answer(t) PROVE Step
  BY <1>3, EnterMoves, LeaveSteps, CommitSteps, CancelSteps, AnswerEnds
     DEF Jumping, Step
<1>4. ASSUME (\E p \in Procs : Persist(p)) \/ Write \/ Flushed \/ Enqueue \/ Flush
      PROVE  Step
  BY <1>4 DEF Step
<1>5. ASSUME StartTick \/ Reload \/ TimePasses \/ Signal \/ UNCHANGED vars PROVE Step
  BY <1>5, QuietSteps DEF Step
<1>6. CASE Tick
  BY <1>6, TickTicks DEF Step
<1>7. CASE CloseLive
  BY <1>7, CloseLivePersists DEF Step
<1>8. CASE Drain \/ Abort \/ (\E c \in Clients : AbortLate(c)) \/ Exit
  BY <1>8, ShuttingDrops DEF Step
<1> QED BY <1>1, <1>2, <1>3, <1>4, <1>5, <1>6, <1>7, <1>8 DEF Next, Shutting, Stopped

-----------------------------------------------------------------------------
(* The tasks after a step of each kind.                                    *)

\* Only p is somewhere else.
OnlyTask(p) ==
  /\ p \in Procs /\ tasks' \in [Procs -> Task]
  /\ \A q \in Procs \ {p} : tasks'[q] = tasks[q]

LEMMA ChangesOnly ==
  ASSUME Typed, NEW p \in Procs, NEW task \in Task,
         tasks' = [tasks EXCEPT ![p] = task]
  PROVE  OnlyTask(p) /\ tasks'[p] = task
<1>1. tasks \in [Procs -> Task]
  BY DEF Typed, TasksTyped
<1> QED BY <1>1 DEF OnlyTask

LEMMA EndsTask ==
  ASSUME Typed, NEW p \in Tasks, NEW error \in Errors \cup {None}, Ends(p, error)
  PROVE  /\ OnlyTask(p) /\ tasks'[p].pc = "answered" /\ tasks'[p].at = 0
         /\ tasks'[p].intent = None /\ tasks'[p].todo = <<>> /\ tasks'[p].error = error
<1>1. PICK task : task = [Idle EXCEPT !.pc = "answered", !.error = error]
  OBVIOUS
<1>4. <<>> \in Seq(Snapshot)
  OBVIOUS
<1>2. task \in Task /\ task.pc = "answered" /\ task.at = 0
      /\ task.intent = None /\ task.todo = <<>> /\ task.error = error
  BY <1>1, <1>4 DEF Idle, Task, PlacesOfClient
<1>3. p \in Procs /\ tasks' = [tasks EXCEPT ![p] = task]
  BY <1>1 DEF Ends, Procs
<1> QED BY <1>2, <1>3, ChangesOnly

LEMMA PanicsTask ==
  ASSUME Typed, Disciplined, NEW c, NEW new, NEW amended, StepPanics(c, new, amended)
  PROVE  /\ c \in Tasks /\ c \in Procs /\ c # Cleanup /\ order = c /\ ~Ending
         /\ tasks[c].todo = <<>> /\ tasks[c].intent = None /\ At(c, "ready")
         /\ tasks[c].at \in 0 .. clock
         /\ OnlyTask(c) /\ tasks'[c].pc = "answered" /\ tasks'[c].at = 0
         /\ tasks'[c].intent = None /\ tasks'[c].todo = <<>>
         /\ tasks'[c].error = "Panicked" /\ order' = None /\ Panicked'
<1>1. c \in Clients /\ At(c, "ready") /\ Ends(c, "Panicked")
  BY DEF StepPanics
<1>2. c \in Procs /\ c \in Tasks /\ c # Cleanup
  BY <1>1, Sorts
<1>3. /\ order = c /\ ~Ending /\ tasks[c].todo = <<>> /\ tasks[c].intent = None
      /\ tasks[c].at \in 0 .. clock
  BY <1>1, <1>2, Flight, TaskFacts DEF At
<1>4. /\ OnlyTask(c) /\ tasks'[c].pc = "answered" /\ tasks'[c].at = 0
      /\ tasks'[c].intent = None /\ tasks'[c].todo = <<>> /\ tasks'[c].error = "Panicked"
  BY <1>1, <1>2, EndsTask DEF Errors
<1>5. order' = None
  BY <1>1, <1>3 DEF Ends
<1>6. Panicked'
  BY <1>1, <1>4 DEF Panicked
<1> QED BY <1>1, <1>2, <1>3, <1>4, <1>5, <1>6

LEMMA PersistsTask ==
  ASSUME Typed, NEW p \in Procs, NEW todo \in Seq(Snapshot), Persists(p, todo)
  PROVE  /\ OnlyTask(p) /\ tasks'[p].pc = "persist" /\ tasks'[p].at = 0
         /\ tasks'[p].intent = None /\ tasks'[p].todo = todo /\ tasks'[p].error = None
<1>1. PICK task : task = [Idle EXCEPT !.pc = "persist", !.todo = todo]
  OBVIOUS
<1>2. task \in Task /\ task.pc = "persist" /\ task.at = 0
      /\ task.intent = None /\ task.todo = todo /\ task.error = None
  BY <1>1 DEF Idle, Task, PlacesOfClient
<1>3. tasks' = [tasks EXCEPT ![p] = task]
  BY <1>1 DEF Persists
<1> QED BY <1>2, <1>3, ChangesOnly

LEMMA BeginsTask ==
  ASSUME Typed, NEW p, NEW i, StepBegins(p, i)
  PROVE  /\ OnlyTask(p) /\ tasks'[p].pc = "begun" /\ tasks'[p].at = tasks[p].at
         /\ tasks'[p].intent = [id |-> i, nonce |-> sched.nextNonce]
         /\ tasks'[p].todo = tasks[p].todo /\ tasks'[p].error = tasks[p].error
<1>1. p \in Procs /\ p \in Tasks /\ i \in Ids
  BY DEF StepBegins, Procs
<1>2. PICK task : task = [tasks[p] EXCEPT !.pc = "begun",
                            !.intent = [id |-> i, nonce |-> sched.nextNonce]]
  OBVIOUS
<1>3. tasks[p] \in Task /\ DOMAIN tasks = Procs /\ sched.nextNonce \in Nat
  BY <1>1, TaskFacts, FitNumbers
<1>4. task \in Task /\ task.pc = "begun" /\ task.at = tasks[p].at
      /\ task.intent = [id |-> i, nonce |-> sched.nextNonce]
      /\ task.todo = tasks[p].todo /\ task.error = tasks[p].error
  BY <1>1, <1>2, <1>3 DEF Task, Intent, PlacesOfClient
<1>5. tasks' = [tasks EXCEPT ![p] = task]
  BY <1>1, <1>2, <1>3 DEF StepBegins
<1> QED BY <1>1, <1>4, <1>5, ChangesOnly

LEMMA DropsTask ==
  ASSUME Typed, NEW T, NEW pc, StepDrops(T, pc)
  PROVE  /\ tasks' \in [Procs -> Task] /\ pc \in PlacesOfCleanup
         /\ \A q \in Procs : IF q \in T /\ ~Ended(q)
                             THEN tasks'[q] = [Idle EXCEPT !.pc = "aborted"]
                             ELSE q # Cleanup => tasks'[q] = tasks[q]
         /\ tasks'[Cleanup].pc = pc /\ tasks'[Cleanup].at = tasks[Cleanup].at
         /\ tasks'[Cleanup].intent = tasks[Cleanup].intent
         /\ tasks'[Cleanup].todo = tasks[Cleanup].todo
         /\ tasks'[Cleanup].error = tasks[Cleanup].error
<1>1. Cleanup \in Procs /\ Cleanup \notin T
  BY Sorts DEF StepDrops
<1>2. tasks \in [Procs -> Task] /\ tasks[Cleanup].pc \in PlacesOfCleanup
  BY DEF Typed, TasksTyped
<1>3. PICK f : f = Dropped(T)
  OBVIOUS
<1>11. <<>> \in Seq(Snapshot)
  OBVIOUS
<1>4. [Idle EXCEPT !.pc = "aborted"] \in Task
  BY <1>11 DEF Idle, Task, PlacesOfClient
<1>5. /\ f \in [Procs -> Task] /\ f[Cleanup] = tasks[Cleanup]
      /\ \A q \in Procs : f[q] = IF q \in T /\ ~Ended(q)
                                 THEN [Idle EXCEPT !.pc = "aborted"] ELSE tasks[q]
  BY <1>1, <1>2, <1>3, <1>4 DEF Dropped
<1>6. pc \in PlacesOfCleanup
  BY <1>2 DEF StepDrops, PlacesOfCleanup
<1>7. PICK task : task = [tasks[Cleanup] EXCEPT !.pc = pc]
  OBVIOUS
<1>8. task \in Task /\ task.pc = pc /\ task.at = tasks[Cleanup].at
      /\ task.intent = tasks[Cleanup].intent /\ task.todo = tasks[Cleanup].todo
      /\ task.error = tasks[Cleanup].error
  BY <1>1, <1>2, <1>6, <1>7 DEF Task
<1>9. tasks' = [f EXCEPT ![Cleanup] = task]
  BY <1>1, <1>3, <1>5, <1>7 DEF StepDrops
<1>10. /\ tasks' \in [Procs -> Task] /\ tasks'[Cleanup] = task
       /\ \A q \in Procs \ {Cleanup} : tasks'[q] = f[q]
  BY <1>1, <1>5, <1>8, <1>9
<1> QED BY <1>1, <1>5, <1>6, <1>8, <1>10

\* What the History queue does to the tasks.
LEMMA PersistTask ==
  ASSUME Typed, NEW p \in Procs, Persist(p)
  PROVE  /\ OnlyTask(p) /\ tasks[p].todo # <<>>
         /\ tasks'[p].pc = IF Room > 0 THEN "receipt" ELSE "persist"
         /\ tasks'[p].at = tasks[p].at /\ tasks'[p].intent = tasks[p].intent
         /\ tasks'[p].todo = Tail(tasks[p].todo) /\ tasks'[p].error = tasks[p].error
<1>1. /\ tasks[p] \in Task /\ DOMAIN tasks = Procs /\ tasks[p].todo \in Seq(Snapshot)
      /\ tasks[p].todo # <<>> /\ At(p, "persist")
  BY TaskFacts DEF Persist
<1>2. PICK pc : pc = IF Room > 0 THEN "receipt" ELSE "persist"
  OBVIOUS
<1>3. PICK task : task = [tasks[p] EXCEPT !.pc = pc, !.todo = Tail(tasks[p].todo)]
  OBVIOUS
<1>4. Tail(tasks[p].todo) \in Seq(Snapshot)
  BY <1>1, TailRange
<1>5. task \in Task /\ task.pc = pc /\ task.at = tasks[p].at
      /\ task.intent = tasks[p].intent /\ task.todo = Tail(tasks[p].todo)
      /\ task.error = tasks[p].error
  BY <1>1, <1>2, <1>3, <1>4 DEF Task, PlacesOfClient
<1>6. tasks' = [tasks EXCEPT ![p] = task]
  <2>1. CASE Room > 0
    BY <1>1, <1>2, <1>3, <2>1 DEF Persist
  <2>2. CASE ~(Room > 0)
    <3>1. tasks' = [tasks EXCEPT ![p].todo = Tail(@)]
      BY <2>2 DEF Persist
    <3>2. task = [tasks[p] EXCEPT !.todo = Tail(tasks[p].todo)]
      BY <1>1, <1>2, <1>3, <2>2 DEF Task, At
    <3> QED BY <1>1, <3>1, <3>2
  <2> QED BY <2>1, <2>2
<1> QED BY <1>1, <1>2, <1>5, <1>6, ChangesOnly

LEMMA ReceiptTask ==
  ASSUME Typed, NEW entry, tasks' = Receipt(entry)
  PROVE  \/ tasks' = tasks /\ (entry.by \in Procs => ~At(entry.by, "receipt"))
         \/ /\ OnlyTask(entry.by) /\ At(entry.by, "receipt")
            /\ tasks'[entry.by].pc = "persist"
            /\ tasks'[entry.by].at = tasks[entry.by].at
            /\ tasks'[entry.by].intent = tasks[entry.by].intent
            /\ tasks'[entry.by].todo = tasks[entry.by].todo
            /\ tasks'[entry.by].error = tasks[entry.by].error
<1>1. PICK p : p = entry.by
  OBVIOUS
<1>2. CASE p \in Procs /\ At(p, "receipt")
  <2>1. tasks[p] \in Task /\ DOMAIN tasks = Procs
    BY <1>2, TaskFacts
  <2>2. PICK task : task = [tasks[p] EXCEPT !.pc = "persist"]
    OBVIOUS
  <2>3. task \in Task /\ task.pc = "persist" /\ task.at = tasks[p].at
        /\ task.intent = tasks[p].intent /\ task.todo = tasks[p].todo
        /\ task.error = tasks[p].error
    BY <2>1, <2>2 DEF Task, PlacesOfClient
  <2>4. tasks' = [tasks EXCEPT ![p] = task]
    BY <1>1, <1>2, <2>1, <2>2 DEF Receipt
  <2> QED BY <1>1, <1>2, <2>3, <2>4, ChangesOnly
<1>3. CASE ~(p \in Procs /\ At(p, "receipt"))
  BY <1>1, <1>3 DEF Receipt
<1> QED BY <1>2, <1>3

LEMMA FlushTask ==
  ASSUME Typed, NEW pc \in {"flushing", "flushed"}, NEW error \in Errors \cup {None},
         tasks' = [tasks EXCEPT ![Cleanup].pc = pc, ![Cleanup].error = error]
  PROVE  /\ OnlyTask(Cleanup) /\ tasks'[Cleanup].pc = pc
         /\ tasks'[Cleanup].at = tasks[Cleanup].at
         /\ tasks'[Cleanup].intent = tasks[Cleanup].intent
         /\ tasks'[Cleanup].todo = tasks[Cleanup].todo
         /\ tasks'[Cleanup].error = error
<1>1. Cleanup \in Procs
  BY Sorts
<1>2. tasks[Cleanup] \in Task /\ DOMAIN tasks = Procs
  BY <1>1, TaskFacts
<1>3. PICK task : task = [tasks[Cleanup] EXCEPT !.pc = pc, !.error = error]
  OBVIOUS
<1>4. task \in Task /\ task.pc = pc /\ task.at = tasks[Cleanup].at
      /\ task.intent = tasks[Cleanup].intent /\ task.todo = tasks[Cleanup].todo
      /\ task.error = error
  BY <1>2, <1>3 DEF Task, PlacesOfCleanup
<1>5. tasks' = [tasks EXCEPT ![Cleanup] = task]
  BY <1>1, <1>2, <1>3
<1> QED BY <1>1, <1>4, <1>5, ChangesOnly

\* What all steps of the queue have in common.
MailMoves ==
  /\ UNCHANGED <<sched, order, backend, settings, daemon, clock>>
  /\ tasks' \in [Procs -> Task]
  /\ \A q \in Procs :
       \/ tasks'[q] = tasks[q]
       \/ /\ {tasks[q].pc, tasks'[q].pc} \subseteq {"persist", "receipt"}
          /\ tasks'[q].at = tasks[q].at /\ tasks'[q].intent = tasks[q].intent
          /\ tasks'[q].error = tasks[q].error
       \/ /\ q = Cleanup /\ tasks[q].pc \in {"persist", "flushing"}
          /\ tasks'[q].pc \in {"flushing", "flushed"}
          /\ tasks'[q].at = tasks[q].at /\ tasks'[q].intent = tasks[q].intent
          /\ tasks[q].todo = <<>> /\ tasks'[q].todo = <<>>
  /\ \/ loop' = loop
     \/ loop.pc = "enqueue" /\ loop' = [loop EXCEPT !.pc = "top", !.todo = <<>>]

MailStep == (\E p \in Procs : Persist(p)) \/ Write \/ Flushed \/ Enqueue \/ Flush

LEMMA MailStepMoves ==
  ASSUME Typed, Disciplined, MailAwaited, MailStep
  PROVE  MailMoves
<1>1. tasks \in [Procs -> Task]
  BY DEF Typed, TasksTyped
<1>2. Cleanup \in Procs
  BY Sorts
<1>3. ASSUME NEW p \in Procs, Persist(p) PROVE MailMoves
  <2>1. /\ OnlyTask(p) /\ tasks'[p].pc \in {"persist", "receipt"}
        /\ tasks'[p].at = tasks[p].at /\ tasks'[p].intent = tasks[p].intent
        /\ tasks'[p].error = tasks[p].error
    BY <1>3, PersistTask
  <2>2. At(p, "persist") /\ UNCHANGED <<sched, order, backend, control>>
    BY <1>3 DEF Persist
  <2> QED BY <2>1, <2>2 DEF MailMoves, OnlyTask, At, control
<1>4. CASE Write
  <2>1. PICK entry : entry = Head(queue)
    OBVIOUS
  <2>2. tasks' = Receipt(entry) /\ UNCHANGED <<sched, order, backend, control>>
    BY <1>4, <2>1 DEF Write
  <2>3. CASE tasks' = tasks
    BY <1>1, <2>2, <2>3 DEF MailMoves, control
  <2>4. CASE ~(tasks' = tasks)
    <3>1. /\ OnlyTask(entry.by) /\ At(entry.by, "receipt")
          /\ tasks'[entry.by].pc = "persist"
          /\ tasks'[entry.by].at = tasks[entry.by].at
          /\ tasks'[entry.by].intent = tasks[entry.by].intent
          /\ tasks'[entry.by].error = tasks[entry.by].error
      BY <2>2, <2>4, ReceiptTask
    <3>2. PICK p : p = entry.by
      OBVIOUS
    <3> QED BY <2>2, <3>1, <3>2 DEF MailMoves, OnlyTask, At, control
  <2> QED BY <2>3, <2>4
<1>5. CASE Flushed
  <2>1. /\ queue # <<>> /\ Head(queue).snap.id = None
        /\ tasks' = [tasks EXCEPT ![Cleanup].pc = "flushed"]
        /\ UNCHANGED <<sched, order, backend, control>>
    BY <1>5 DEF Flushed
  <2>2. 1 \in DOMAIN queue /\ queue[1] = Head(queue)
    BY <2>1 DEF Typed, HistoryTyped
  <2>3. tasks[Cleanup].pc = "flushing"
    BY <2>1, <2>2 DEF MailAwaited, At
  <2>4. tasks[Cleanup].todo = <<>> /\ tasks[Cleanup] \in Task
    BY <1>1, <1>2, <2>3, Flight
  <2>5. tasks' = [tasks EXCEPT ![Cleanup].pc = "flushed",
                               ![Cleanup].error = tasks[Cleanup].error]
    BY <1>1, <1>2, <2>1, <2>4 DEF Task
  <2>6. tasks[Cleanup].error \in Errors \cup {None}
    BY <2>4 DEF Task
  <2>7. /\ OnlyTask(Cleanup) /\ tasks'[Cleanup].pc = "flushed"
        /\ tasks'[Cleanup].at = tasks[Cleanup].at
        /\ tasks'[Cleanup].intent = tasks[Cleanup].intent
        /\ tasks'[Cleanup].todo = tasks[Cleanup].todo
    BY <2>5, <2>6, FlushTask
  <2> QED BY <2>1, <2>3, <2>4, <2>7 DEF MailMoves, OnlyTask, control
<1>6. CASE Enqueue
  <2>1. /\ loop.pc = "enqueue" /\ loop' = [loop EXCEPT !.pc = "top", !.todo = <<>>]
        /\ UNCHANGED <<sched, tasks, order, backend, settings, daemon, clock>>
    BY <1>6 DEF Enqueue
  <2> QED BY <1>1, <2>1 DEF MailMoves
<1>7. CASE Flush
  <2>1. /\ At(Cleanup, "persist") /\ tasks[Cleanup].todo = <<>>
        /\ UNCHANGED <<sched, order, backend, control>>
    BY <1>7 DEF Flush
  <2>2. \E pc \in {"flushing", "flushed"} : \E error \in Errors \cup {None} :
          tasks' = [tasks EXCEPT ![Cleanup].pc = pc, ![Cleanup].error = error]
    <3>1. CASE Room > 0
      <4>1. tasks' = [tasks EXCEPT ![Cleanup].pc = "flushing"]
        BY <1>7, <3>1 DEF Flush
      <4>2. tasks' = [tasks EXCEPT ![Cleanup].pc = "flushing",
                                   ![Cleanup].error = tasks[Cleanup].error]
        BY <1>1, <1>2, <4>1 DEF Task
      <4>3. tasks[Cleanup].error \in Errors \cup {None}
        BY <1>1, <1>2 DEF Task
      <4> QED BY <4>2, <4>3
    <3>2. CASE ~(Room > 0)
      <4>1. "QueueFull" \in Errors \cup {None} /\ "flushed" \in {"flushing", "flushed"}
        BY DEF Errors
      <4>2. tasks' = [tasks EXCEPT ![Cleanup].pc = "flushed",
                                   ![Cleanup].error = "QueueFull"]
        BY <1>7, <3>2 DEF Flush
      <4> QED BY <4>1, <4>2
    <3> QED BY <3>1, <3>2
  <2>3. PICK pc \in {"flushing", "flushed"}, error \in Errors \cup {None} :
          tasks' = [tasks EXCEPT ![Cleanup].pc = pc, ![Cleanup].error = error]
    BY <2>2
  <2>4. /\ OnlyTask(Cleanup) /\ tasks'[Cleanup].pc = pc
        /\ tasks'[Cleanup].at = tasks[Cleanup].at
        /\ tasks'[Cleanup].intent = tasks[Cleanup].intent
        /\ tasks'[Cleanup].todo = tasks[Cleanup].todo
    BY <2>3, FlushTask
  <2> QED BY <2>1, <2>4 DEF MailMoves, OnlyTask, At, control
<1> QED BY <1>3, <1>4, <1>5, <1>6, <1>7 DEF MailStep

-----------------------------------------------------------------------------
(* The types are kept.                                                     *)

LEMMA SchedulerFitsKept ==
  ASSUME Typed, Disciplined, MailAwaited, Step
  PROVE  SchedulerFits'
<1>1. Fit(sched) /\ clock \in Nat /\ sched.lastNow <= clock /\ sched.lastNow \in Nat
  BY FitNumbers DEF Typed, SchedulerFits
<1>2. CASE sched' = sched /\ clock' \in Nat /\ clock <= clock'
  BY <1>1, <1>2 DEF SchedulerFits
<1>3. ASSUME NEW now \in 0 .. clock, Fit(sched'),
             sched'.lastNow \in {sched.lastNow, now}, clock' = clock
      PROVE  SchedulerFits'
  BY <1>1, <1>3 DEF SchedulerFits
<1>4. CASE StepQuiet
  BY <1>2, <1>4 DEF StepQuiet
<1>5. ASSUME NEW p, NEW task, StepMoves(p, task) PROVE SchedulerFits'
  BY <1>1, <1>2, <1>5 DEF StepMoves, control
<1>6. ASSUME NEW p, NEW error, StepEnds(p, error) PROVE SchedulerFits'
  <2>1. tasks[p].at \in 0 .. clock
    BY <1>6, TaskFacts DEF StepEnds, Procs
  <2> QED BY <1>3, <1>6, <2>1 DEF StepEnds, Calm, Turns, control
<1>7. ASSUME NEW p, NEW i, StepBegins(p, i) PROVE SchedulerFits'
  <2>1. tasks[p].at \in 0 .. clock
    BY <1>7, TaskFacts DEF StepBegins, Procs
  <2> QED BY <1>3, <1>7, <2>1 DEF StepBegins, Turns, control
<1>8. ASSUME NEW p, NEW done, NEW now, NEW new, NEW amended, NEW todo,
             StepPersists(p, done, now, new, amended, todo)
      PROVE  SchedulerFits'
  <2>1. Fit(done) /\ done.lastNow \in {sched.lastNow, now} /\ now \in 0 .. clock
        /\ sched' = DrainClosed(done) /\ clock' = clock
    BY <1>8 DEF StepPersists, Turns, control
  <2>2. Fit(sched') /\ sched'.lastNow = done.lastNow
    BY <2>1, DrainFits
  <2> QED BY <1>3, <2>1, <2>2
<1>9. ASSUME NEW done, StepTicks(done) PROVE SchedulerFits'
  <2>1. Fit(done) /\ done.lastNow \in {sched.lastNow, clock}
        /\ sched' = DrainClosed(done) /\ clock' = clock
    BY <1>9 DEF StepTicks, Calm, Turns
  <2>2. Fit(sched') /\ sched'.lastNow = done.lastNow
    BY <2>1, DrainFits
  <2> QED BY <1>1, <1>3, <2>1, <2>2
<1>10. ASSUME NEW T, NEW pc, StepDrops(T, pc) PROVE SchedulerFits'
  BY <1>1, <1>2, <1>10 DEF StepDrops
<1>12. CASE StepDies
  <2>1. clock \in 0 .. clock
    BY <1>1
  <2> QED BY <1>3, <1>12, <2>1 DEF StepDies, Calm, Turns
<1>13. ASSUME NEW c, NEW new, NEW amended, StepPanics(c, new, amended)
       PROVE  SchedulerFits'
  <2>1. tasks[c].at \in 0 .. clock
    BY <1>13, PanicsTask
  <2> QED BY <1>3, <1>13, <2>1 DEF StepPanics, Turns, control
<1>11. CASE MailStep
  <2>1. MailMoves
    BY <1>11, MailStepMoves
  <2> QED BY <1>1, <1>2, <2>1 DEF MailMoves
<1> QED BY <1>4, <1>5, <1>6, <1>7, <1>8, <1>9, <1>10, <1>11, <1>12, <1>13
        DEF Step, MailStep

\* Where p may be.
PlaceFits(p, task) ==
  /\ p \in Clients =>
       /\ task.pc \in PlacesOfClient
       /\ task.pc \in {"waiting", "ready"} => task.cmd \in Commands
  /\ p \in Renderers =>
       /\ task.pc \in PlacesOfRenderer
       /\ task.pc \in {"received", "ready"} => task.cmd \in Action
  /\ p = Cleanup => task.pc \in PlacesOfCleanup

LEMMA PlacesFit ==
  ASSUME Typed, clock' \in Nat, clock <= clock', tasks' \in [Procs -> Task],
         \A q \in Procs : \/ tasks'[q] = tasks[q]
                          \/ tasks'[q].at <= clock' /\ PlaceFits(q, tasks'[q])
  PROVE  TasksTyped'
<1>1. /\ tasks \in [Procs -> Task] /\ clock \in Nat
      /\ \A q \in Procs : tasks[q].at <= clock /\ tasks[q].at \in Nat
      /\ \A q \in Procs : PlaceFits(q, tasks[q])
  BY Sorts DEF Typed, SchedulerFits, TasksTyped, PlaceFits, Task
<1>2. \A q \in Procs : tasks'[q].at <= clock' /\ PlaceFits(q, tasks'[q])
  <2>1. TAKE q \in Procs
  <2>2. CASE tasks'[q] = tasks[q]
    BY <1>1, <2>2
  <2> QED BY <2>2
<1>3. /\ \A c \in Clients : c \in Procs
      /\ \A r \in Renderers : r \in Procs
      /\ Cleanup \in Procs
  BY Sorts
<1> QED BY <1>2, <1>3 DEF TasksTyped, PlaceFits

LEMMA TasksTypedKept ==
  ASSUME Typed, Disciplined, MailAwaited, Step
  PROVE  TasksTyped'
<1>1. clock \in Nat /\ tasks \in [Procs -> Task]
  BY DEF Typed, SchedulerFits, TasksTyped
<1>2. ASSUME NEW p \in Procs, OnlyTask(p), tasks'[p].at <= clock,
             PlaceFits(p, tasks'[p]), clock' = clock
      PROVE  TasksTyped'
  <2>1. \A q \in Procs : \/ tasks'[q] = tasks[q]
                         \/ tasks'[q].at <= clock' /\ PlaceFits(q, tasks'[q])
    BY <1>2 DEF OnlyTask
  <2>2. tasks' \in [Procs -> Task]
    BY <1>2 DEF OnlyTask
  <2> QED BY <1>1, <1>2, <2>1, <2>2, PlacesFit
<1>3. CASE StepQuiet
  <2>1. clock' \in Nat /\ clock <= clock' /\ tasks' = tasks
    BY <1>3 DEF StepQuiet
  <2> QED BY <1>1, <2>1, PlacesFit
<1>4. ASSUME NEW p, NEW task, StepMoves(p, task) PROVE TasksTyped'
  <2>1. /\ p \in Procs /\ p \in Tasks /\ p # Cleanup
    BY <1>4, Sorts DEF StepMoves, Procs
  <2>2. OnlyTask(p) /\ tasks'[p] = task
    BY <1>4, <2>1, ChangesOnly DEF StepMoves
  <2>3. task.at <= clock /\ clock' = clock /\ PlaceFits(p, task)
    BY <1>4, <2>1 DEF StepMoves, PlaceFits, control
  <2> QED BY <1>2, <2>1, <2>2, <2>3
<1>5. ASSUME NEW p, NEW error, StepEnds(p, error) PROVE TasksTyped'
  <2>1. p \in Procs /\ p # Cleanup /\ clock' = clock
    BY <1>5, Sorts DEF StepEnds, Procs, control
  <2>2. OnlyTask(p) /\ tasks'[p].pc = "answered" /\ tasks'[p].at = 0
    BY <1>5, EndsTask DEF StepEnds
  <2>3. PlaceFits(p, tasks'[p]) /\ tasks'[p].at <= clock
    BY <1>1, <2>1, <2>2 DEF PlaceFits, PlacesOfClient, PlacesOfRenderer
  <2> QED BY <1>2, <2>1, <2>2, <2>3
<1>6. ASSUME NEW p, NEW i, StepBegins(p, i) PROVE TasksTyped'
  <2>1. p \in Procs /\ p # Cleanup /\ clock' = clock
    BY <1>6, Sorts DEF StepBegins, Procs, control
  <2>2. OnlyTask(p) /\ tasks'[p].pc = "begun" /\ tasks'[p].at = tasks[p].at
    BY <1>6, BeginsTask
  <2>3. PlaceFits(p, tasks'[p]) /\ tasks'[p].at <= clock
    BY <1>1, <2>1, <2>2, TaskFacts DEF PlaceFits, PlacesOfClient, PlacesOfRenderer
  <2> QED BY <1>2, <2>1, <2>2, <2>3
<1>7. ASSUME NEW p, NEW done, NEW now, NEW new, NEW amended, NEW todo,
             StepPersists(p, done, now, new, amended, todo)
      PROVE  TasksTyped'
  <2>1. p \in Procs /\ clock' = clock
    BY <1>7 DEF StepPersists, control
  <2>2. OnlyTask(p) /\ tasks'[p].pc = "persist" /\ tasks'[p].at = 0
    BY <1>7, PersistsTask DEF StepPersists
  <2>3. PlaceFits(p, tasks'[p]) /\ tasks'[p].at <= clock
    BY <1>1, <2>1, <2>2
       DEF PlaceFits, PlacesOfClient, PlacesOfRenderer, PlacesOfCleanup
  <2> QED BY <1>2, <2>1, <2>2, <2>3
<1>8. CASE (\E done : StepTicks(done)) \/ StepDies
  <2>1. clock' = clock /\ tasks' = tasks
    BY <1>8 DEF StepTicks, StepDies
  <2> QED BY <1>1, <2>1, PlacesFit
<1>11. ASSUME NEW c, NEW new, NEW amended, StepPanics(c, new, amended)
       PROVE  TasksTyped'
  <2>1. /\ c \in Procs /\ c # Cleanup /\ OnlyTask(c)
        /\ tasks'[c].pc = "answered" /\ tasks'[c].at = 0
    BY <1>11, PanicsTask
  <2>2. PlaceFits(c, tasks'[c]) /\ tasks'[c].at <= clock /\ clock' = clock
    BY <1>1, <1>11, <2>1 DEF PlaceFits, PlacesOfClient, PlacesOfRenderer, StepPanics, control
  <2> QED BY <1>2, <2>1, <2>2
<1>9. ASSUME NEW T, NEW pc, StepDrops(T, pc) PROVE TasksTyped'
  <2>1. /\ tasks' \in [Procs -> Task] /\ pc \in PlacesOfCleanup
        /\ \A q \in Procs : IF q \in T /\ ~Ended(q)
                            THEN tasks'[q] = [Idle EXCEPT !.pc = "aborted"]
                            ELSE q # Cleanup => tasks'[q] = tasks[q]
        /\ tasks'[Cleanup].pc = pc /\ tasks'[Cleanup].at = tasks[Cleanup].at
    BY <1>9, DropsTask
  <2>2. clock' = clock /\ T \subseteq Tasks
    BY <1>9 DEF StepDrops
  <2>3. ASSUME NEW q \in Procs
        PROVE  \/ tasks'[q] = tasks[q]
               \/ tasks'[q].at <= clock' /\ PlaceFits(q, tasks'[q])
    <3>1. CASE q \in T /\ ~Ended(q)
      <4>1. tasks'[q].pc = "aborted" /\ tasks'[q].at = 0
        BY <2>1, <3>1 DEF Idle
      <4>2. q # Cleanup
        BY <2>2, <3>1, Sorts
      <4> QED BY <1>1, <2>2, <4>1, <4>2 DEF PlaceFits, PlacesOfClient, PlacesOfRenderer
    <3>2. CASE q = Cleanup
      <4>1. Cleanup \in Procs /\ Cleanup \notin Clients /\ Cleanup \notin Renderers
        BY Sorts
      <4> QED BY <2>1, <2>2, <3>2, <4>1, TaskFacts DEF PlaceFits
    <3> QED BY <2>1, <3>1, <3>2
  <2> QED BY <1>1, <2>1, <2>2, <2>3, PlacesFit
<1>10. CASE MailStep
  <2>1. MailMoves
    BY <1>10, MailStepMoves
  <2>2. ASSUME NEW q \in Procs
        PROVE  \/ tasks'[q] = tasks[q]
               \/ tasks'[q].at <= clock' /\ PlaceFits(q, tasks'[q])
    <3>1. tasks[q].at <= clock /\ clock' = clock
      BY <2>1, TaskFacts DEF MailMoves
    <3>2. CASE tasks'[q].pc \in {"persist", "receipt"} /\ tasks'[q].at = tasks[q].at
      BY <3>1, <3>2 DEF PlaceFits, PlacesOfClient, PlacesOfRenderer, PlacesOfCleanup
    <3>3. CASE /\ q = Cleanup /\ tasks'[q].pc \in {"flushing", "flushed"}
               /\ tasks'[q].at = tasks[q].at
      <4>1. Cleanup \notin Clients /\ Cleanup \notin Renderers
        BY Sorts
      <4> QED BY <3>1, <3>3, <4>1 DEF PlaceFits, PlacesOfCleanup
    <3> QED BY <2>1, <3>2, <3>3 DEF MailMoves
  <2>3. tasks' \in [Procs -> Task] /\ clock' = clock
    BY <2>1 DEF MailMoves
  <2> QED BY <1>1, <2>2, <2>3, PlacesFit
<1> QED BY <1>3, <1>4, <1>5, <1>6, <1>7, <1>8, <1>9, <1>10, <1>11 DEF Step, MailStep

LEMMA ControlTypedKept ==
  ASSUME Typed, Disciplined, MailAwaited, Step
  PROVE  ControlTyped'
<1>1. ControlTyped
  BY DEF Typed
<1> USE <1>1 DEF ControlTyped
<1>2. CASE StepQuiet
  BY <1>2 DEF StepQuiet
<1>3. ASSUME NEW p, NEW task, StepMoves(p, task) PROVE ControlTyped'
  BY <1>3 DEF StepMoves, control
<1>4. ASSUME NEW p, NEW error, StepEnds(p, error) PROVE ControlTyped'
  BY <1>4 DEF StepEnds, Ends, control
<1>5. ASSUME NEW p, NEW i, StepBegins(p, i) PROVE ControlTyped'
  BY <1>5 DEF StepBegins, control
<1>6. ASSUME NEW p, NEW done, NEW now, NEW new, NEW amended, NEW todo,
             StepPersists(p, done, now, new, amended, todo)
      PROVE  ControlTyped'
  BY <1>6 DEF StepPersists, control
<1>7. ASSUME NEW done, StepTicks(done) PROVE ControlTyped'
  <2>1. Fit(done)
    BY <1>7 DEF StepTicks, Calm, Turns
  <2>2. Drained(done) \in Seq(Snapshot)
    BY <2>1, DrainedAll
  <2> QED BY <1>7, <2>2 DEF StepTicks
<1>10. CASE StepDies
  <2>1. <<>> \in Seq(Snapshot)
    OBVIOUS
  <2> QED BY <1>10, <2>1 DEF StepDies
<1>11. ASSUME NEW c, NEW new, NEW amended, StepPanics(c, new, amended)
       PROVE  ControlTyped'
  BY <1>11 DEF StepPanics, Ends, control
<1>8. ASSUME NEW T, NEW pc, StepDrops(T, pc) PROVE ControlTyped'
  BY <1>8 DEF StepDrops, DropFrees
<1>9. CASE MailStep
  <2>1. MailMoves
    BY <1>9, MailStepMoves
  <2>2. <<>> \in Seq(Snapshot)
    OBVIOUS
  <2> QED BY <2>1, <2>2 DEF MailMoves
<1> QED BY <1>2, <1>3, <1>4, <1>5, <1>6, <1>7, <1>8, <1>9, <1>10, <1>11 DEF Step, MailStep

-----------------------------------------------------------------------------
(* What the steps do to the History queue.                                 *)

\* A message at the end of the queue, at its place x.
Posts(x, entry) ==
  /\ queue' \in Seq(Mail) /\ Len(queue') <= HistoryCapacity
  /\ x \in Nat /\ x \notin DOMAIN queue /\ DOMAIN queue' = DOMAIN queue \cup {x}
  /\ queue'[x] = entry
  /\ \A n \in DOMAIN queue : queue'[n] = queue[n] /\ n < x

LEMMA PostsOne ==
  ASSUME HistoryTyped, Room > 0, NEW entry \in Mail, queue' = Append(queue, entry)
  PROVE  Posts(Len(queue) + 1, entry)
<1>1. queue \in Seq(Mail) /\ Len(queue) \in Nat /\ DOMAIN queue = 1 .. Len(queue)
  BY DEF HistoryTyped
<1>2. /\ queue' \in Seq(Mail) /\ Len(queue') = Len(queue) + 1
      /\ DOMAIN queue' = 1 .. (Len(queue) + 1)
      /\ queue'[Len(queue) + 1] = entry
      /\ \A n \in 1 .. Len(queue) : queue'[n] = queue[n]
  BY <1>1
<1>3. Len(queue) + 1 <= HistoryCapacity
  BY <1>1, DaemonConstants DEF Room
<1> QED BY <1>1, <1>2, <1>3 DEF Posts

LEMMA MessageIsMail ==
  ASSUME NEW snap \in Snapshot \cup Mark, NEW by \in Procs \cup {"loop"}
  PROVE  /\ Message(snap, by) \in Mail
         /\ Message(snap, by).snap = snap /\ Message(snap, by).by = by
         /\ tasks[Cleanup].pc \in {"flushing", "flushed"} => Message(snap, by).late
<1>1. PICK late : late = (tasks[Cleanup].pc \in {"flushing", "flushed"})
  OBVIOUS
<1>2. late \in BOOLEAN
  BY <1>1
<1>3. Message(snap, by) = [snap |-> snap, by |-> by, late |-> late]
  BY <1>1 DEF Message
<1>4. Message(snap, by) \in Mail
  BY <1>2, <1>3 DEF Mail
<1>5. Message(snap, by).snap = snap /\ Message(snap, by).by = by
  BY <1>3
<1>6. Message(snap, by).late = late
  BY <1>3
<1>7. tasks[Cleanup].pc \in {"flushing", "flushed"} => late
  BY <1>1, Zenon
<1>8. tasks[Cleanup].pc \in {"flushing", "flushed"} => Message(snap, by).late
  BY <1>6, <1>7, Zenon
<1> QED BY <1>4, <1>5, <1>8

LEMMA PersistMail ==
  ASSUME Typed, NEW p \in Procs, Persist(p)
  PROVE  /\ rows' = rows /\ recorded' = recorded /\ loop' = loop
         /\ tasks[p].todo # <<>> /\ Head(tasks[p].todo) \in Snapshot
         /\ IF Room > 0
            THEN lost' = lost /\ \E x : Posts(x, Message(Head(tasks[p].todo), p))
            ELSE queue' = queue /\ lost' = lost \cup {Head(tasks[p].todo).id}
<1>1. tasks[p].todo \in Seq(Snapshot) /\ tasks[p].todo # <<>>
  BY TaskFacts DEF Persist
<1>2. PICK snap : snap = Head(tasks[p].todo)
  OBVIOUS
<1>3. snap \in Snapshot
  BY <1>1, <1>2, TailRange
<1>4. rows' = rows /\ recorded' = recorded /\ loop' = loop
  BY DEF Persist, control
<1>5. CASE Room > 0
  <2>1. lost' = lost /\ queue' = Append(queue, Message(snap, p))
    BY <1>2, <1>5 DEF Persist
  <2>2. Message(snap, p) \in Mail
    BY <1>3, MessageIsMail
  <2>3. Posts(Len(queue) + 1, Message(snap, p))
    BY <1>5, <2>1, <2>2, PostsOne DEF Typed
  <2> QED BY <1>1, <1>2, <1>3, <1>4, <1>5, <2>1, <2>3
<1>6. CASE ~(Room > 0)
  <2>1. queue' = queue /\ lost' = lost \cup {snap.id}
    BY <1>2, <1>6 DEF Persist
  <2> QED BY <1>1, <1>2, <1>3, <1>4, <1>6, <2>1
<1> QED BY <1>5, <1>6

\* The flush.
LEMMA FlushMail ==
  ASSUME Typed, Flush
  PROVE  /\ rows' = rows /\ recorded' = recorded /\ lost' = lost /\ loop' = loop
         /\ OnlyTask(Cleanup) /\ tasks'[Cleanup].todo = tasks[Cleanup].todo
         /\ \/ /\ tasks'[Cleanup].pc = "flushing"
               /\ \E x : Posts(x, Message([id |-> None], Cleanup))
            \/ /\ tasks'[Cleanup].pc = "flushed" /\ queue' = queue
               /\ tasks'[Cleanup].error = "QueueFull"
<1>1. Cleanup \in Procs /\ tasks[Cleanup] \in Task /\ DOMAIN tasks = Procs
  BY Sorts, TaskFacts
<1>2. rows' = rows /\ recorded' = recorded /\ lost' = lost /\ loop' = loop
  BY DEF Flush, control
<1>3. CASE Room > 0
  <2>1. [id |-> None] \in Mark
    BY DEF Mark
  <2>2. PICK mark \in Mark : mark = [id |-> None]
    BY <2>1
  <2>3. queue' = Append(queue, Message(mark, Cleanup))
    BY <1>3, <2>2 DEF Flush
  <2>4. Message(mark, Cleanup) \in Mail
    BY <1>1, MessageIsMail
  <2>5. Posts(Len(queue) + 1, Message(mark, Cleanup))
    BY <1>3, <2>3, <2>4, PostsOne DEF Typed
  <2>6. tasks' = [tasks EXCEPT ![Cleanup].pc = "flushing"]
    BY <1>3 DEF Flush
  <2>7. tasks' = [tasks EXCEPT ![Cleanup].pc = "flushing",
                               ![Cleanup].error = tasks[Cleanup].error]
    BY <1>1, <2>6 DEF Task
  <2>8. tasks[Cleanup].error \in Errors \cup {None}
    BY <1>1 DEF Task
  <2>9. /\ OnlyTask(Cleanup) /\ tasks'[Cleanup].pc = "flushing"
        /\ tasks'[Cleanup].todo = tasks[Cleanup].todo
    BY <2>7, <2>8, FlushTask
  <2> QED BY <1>2, <2>2, <2>5, <2>9
<1>4. CASE ~(Room > 0)
  <2>1. /\ tasks' = [tasks EXCEPT ![Cleanup].pc = "flushed",
                                  ![Cleanup].error = "QueueFull"]
        /\ queue' = queue
    BY <1>4 DEF Flush
  <2>2. /\ OnlyTask(Cleanup) /\ tasks'[Cleanup].todo = tasks[Cleanup].todo
        /\ tasks'[Cleanup].pc = "flushed" /\ tasks'[Cleanup].error = "QueueFull"
    BY <1>1, <2>1, FlushTask DEF Errors
  <2> QED BY <1>2, <2>1, <2>2
<1> QED BY <1>3, <1>4

\* What the loop leaves: what fits is in the queue, the rest is lost.
LEMMA EnqueueMail ==
  ASSUME Typed, Enqueue
  PROVE  /\ rows' = rows /\ recorded' = recorded /\ lost \subseteq lost'
         /\ lost' \subseteq lost \cup {snap.id : snap \in Range(loop.todo)}
         /\ loop'.todo = <<>>
         /\ queue' \in Seq(Mail) /\ Len(queue') <= HistoryCapacity
         /\ DOMAIN queue \subseteq DOMAIN queue'
         /\ \A n \in DOMAIN queue : queue'[n] = queue[n]
         /\ \A n \in DOMAIN queue' \ DOMAIN queue :
              /\ \E snap \in Range(loop.todo) : queue'[n] = Message(snap, "loop")
              /\ \A m \in DOMAIN queue : m < n
         /\ \A snap \in Range(loop.todo) :
              \/ snap.id \in lost'
              \/ \E n \in DOMAIN queue' \ DOMAIN queue :
                   queue'[n] = Message(snap, "loop")
<1> DEFINE todo  == loop.todo
           fits  == [n \in DOMAIN todo \cap 1 .. Room |-> todo[n]]
           rest  == [n \in DOMAIN todo \ 1 .. Room |-> todo[n]]
           posts == [n \in DOMAIN fits |-> Message(fits[n], "loop")]
<1>1. /\ todo \in Seq(Snapshot) /\ queue \in Seq(Mail) /\ Len(queue) <= HistoryCapacity
      /\ loop \in [pc : {"top", "tick", "enqueue", "dead"}, limits : LimitsSet \cup {None},
                   todo : Seq(Snapshot)]
  BY DEF Typed, ControlTyped, HistoryTyped
<1>2. /\ Len(todo) \in Nat /\ DOMAIN todo = 1 .. Len(todo)
      /\ Len(queue) \in Nat /\ DOMAIN queue = 1 .. Len(queue)
      /\ Room \in Nat /\ Room = HistoryCapacity - Len(queue) /\ HistoryCapacity \in Nat
  BY <1>1, DaemonConstants DEF Room
<1>3. PICK k \in Nat : k <= Room /\ DOMAIN todo \cap 1 .. Room = 1 .. k
                       /\ k <= Len(todo) /\ (k = Room \/ k = Len(todo))
  <2>1. CASE Room <= Len(todo)
    <3>1. DOMAIN todo \cap 1 .. Room = 1 .. Room
      BY <1>2, <2>1
    <3>2. Room \in Nat /\ Room <= Room /\ Room <= Len(todo)
      BY <1>2, <2>1
    <3> HIDE DEF todo
    <3> QED BY <3>1, <3>2
  <2>2. CASE Len(todo) < Room
    <3>1. DOMAIN todo \cap 1 .. Room = 1 .. Len(todo)
      BY <1>2, <2>2
    <3>2. Len(todo) \in Nat /\ Len(todo) <= Room /\ Len(todo) <= Len(todo)
      BY <1>2, <2>2
    <3> HIDE DEF todo
    <3> QED BY <3>1, <3>2
  <2> QED BY <1>2, <2>1, <2>2
<1>4. /\ rows' = rows /\ recorded' = recorded /\ queue' = queue \o posts
      /\ lost' = lost \cup Sent(rest) /\ loop' = [loop EXCEPT !.pc = "top", !.todo = <<>>]
  BY DEF Enqueue
<1>5. /\ DOMAIN fits = 1 .. k /\ \A n \in 1 .. k : fits[n] = todo[n] /\ todo[n] \in Snapshot
      /\ \A n \in 1 .. k : todo[n] \in Range(todo)
  BY <1>1, <1>2, <1>3 DEF Range
<1>6. /\ DOMAIN rest = DOMAIN todo \ 1 .. k
      /\ \A n \in DOMAIN rest : rest[n] = todo[n] /\ todo[n] \in Range(todo)
  BY <1>2, <1>3 DEF Range
<1> HIDE DEF fits, rest
<1>7. /\ DOMAIN posts = 1 .. k
      /\ \A n \in 1 .. k : posts[n] = Message(todo[n], "loop")
  BY <1>5
<1>8. posts \in Seq(Mail) /\ Len(posts) = k
  <2>1. \A n \in 1 .. k : posts[n] \in Mail
    BY <1>5, <1>7, MessageIsMail
  <2>2. posts = [n \in 1 .. k |-> posts[n]]
    BY <1>5
  <2> HIDE DEF posts
  <2>3. posts \in [1 .. k -> Mail]
    BY <2>1, <2>2
  <2>4. posts \in Seq(Mail)
    BY <2>3
  <2> QED BY <1>7, <2>4
<1> HIDE DEF posts
<1>9. /\ queue' \in Seq(Mail) /\ Len(queue') = Len(queue) + k
      /\ DOMAIN queue' = 1 .. (Len(queue) + k)
      /\ \A n \in 1 .. Len(queue) : queue'[n] = queue[n]
      /\ \A n \in 1 .. k : queue'[Len(queue) + n] = posts[n]
  <2>1. PICK more \in Seq(Mail) : more = posts /\ Len(more) = k
    BY <1>8
  <2>2. queue' = queue \o more /\ queue \in Seq(Mail) /\ Len(queue) \in Nat
    BY <1>1, <1>2, <1>4, <2>1
  <2>3. /\ queue \o more \in Seq(Mail)
        /\ Len(queue \o more) = Len(queue) + Len(more)
        /\ \A n \in 1 .. (Len(queue) + Len(more)) :
             (queue \o more)[n] = IF n <= Len(queue) THEN queue[n]
                                 ELSE more[n - Len(queue)]
    BY <2>2, ConcatProperties
  <2>4. DOMAIN queue' = 1 .. (Len(queue) + k)
    BY <2>1, <2>2, <2>3
  <2>5. \A n \in 1 .. Len(queue) : queue'[n] = queue[n]
    BY <2>1, <2>2, <2>3
  <2>6. \A n \in 1 .. k : queue'[Len(queue) + n] = more[n]
    BY <2>1, <2>2, <2>3
  <2> QED BY <2>1, <2>2, <2>3, <2>4, <2>5, <2>6
<1>10. loop'.todo = <<>>
  BY <1>1, <1>4
<1>11. ASSUME NEW n \in DOMAIN queue' \ DOMAIN queue
       PROVE  /\ \E snap \in Range(todo) : queue'[n] = Message(snap, "loop")
              /\ \A m \in DOMAIN queue : m < n
  <2>1. n - Len(queue) \in 1 .. k /\ Len(queue) + (n - Len(queue)) = n
    BY <1>2, <1>9
  <2>2. queue'[n] = Message(todo[n - Len(queue)], "loop")
    BY <1>7, <1>9, <2>1
  <2> QED BY <1>2, <1>5, <1>9, <2>1, <2>2
<1>12. ASSUME NEW snap \in Range(todo)
       PROVE  \/ snap.id \in lost'
              \/ \E n \in DOMAIN queue' \ DOMAIN queue :
                   queue'[n] = Message(snap, "loop")
  <2>1. PICK n \in DOMAIN todo : snap = todo[n]
    BY DEF Range
  <2>2. CASE n \in 1 .. k
    <3>1. Len(queue) + n \in DOMAIN queue' \ DOMAIN queue
      BY <1>2, <1>9, <2>2
    <3>2. queue'[Len(queue) + n] = Message(snap, "loop")
      BY <1>7, <1>9, <2>1, <2>2
    <3> QED BY <3>1, <3>2
  <2>3. CASE n \notin 1 .. k
    <3>1. n \in DOMAIN rest /\ rest[n] = snap
      BY <1>6, <2>1, <2>3
    <3> QED BY <1>4, <3>1 DEF Sent
  <2> QED BY <2>2, <2>3
<1>13. \A i \in Sent(rest) : i \in {snap.id : snap \in Range(todo)}
  BY <1>6 DEF Sent
<1>14. DOMAIN queue \subseteq DOMAIN queue' /\ Len(queue') <= HistoryCapacity
  BY <1>2, <1>3, <1>9
<1> QED BY <1>2, <1>4, <1>9, <1>10, <1>11, <1>12, <1>13, <1>14

\* The worker takes the first message.
Takes(entry) ==
  /\ 1 \in DOMAIN queue /\ queue[1] = entry /\ entry \in Mail
  /\ queue' \in Seq(Mail) /\ Len(queue') <= HistoryCapacity
  /\ \A n \in DOMAIN queue' :
       n \in Nat /\ n + 1 \in DOMAIN queue /\ queue'[n] = queue[n + 1]
  /\ \A n \in DOMAIN queue : n \in Nat /\ (n = 1 \/ n - 1 \in DOMAIN queue')

LEMMA TakesFirst ==
  ASSUME Typed, queue # <<>>, queue' = Tail(queue)
  PROVE  Takes(Head(queue))
<1>1. /\ queue \in Seq(Mail) /\ Len(queue) \in Nat /\ Len(queue) <= HistoryCapacity
      /\ DOMAIN queue = 1 .. Len(queue) /\ Len(queue) # 0
      /\ HistoryCapacity \in Nat
  BY DaemonConstants DEF Typed, HistoryTyped
<1>2. /\ queue' \in Seq(Mail) /\ Len(queue') = Len(queue) - 1
      /\ DOMAIN queue' = 1 .. (Len(queue) - 1)
      /\ \A n \in 1 .. (Len(queue) - 1) : queue'[n] = queue[n + 1]
      /\ Head(queue) = queue[1] /\ Head(queue) \in Mail
  BY <1>1
<1> QED BY <1>1, <1>2 DEF Takes

LEMMA WriteMail ==
  ASSUME Typed, Write
  PROVE  \E entry \in Mail :
           /\ Takes(entry) /\ entry.snap \in Snapshot
           /\ tasks' = Receipt(entry) /\ loop' = loop
           /\ lost \subseteq lost' /\ recorded \subseteq recorded'
           /\ lost' \cup recorded' \subseteq lost \cup recorded \cup {entry.snap.id}
           /\ rows' \in [Ids -> Row]
           /\ \A i \in Ids \ {entry.snap.id} : rows'[i] = rows[i]
           /\ \/ entry.snap.id \in lost' /\ rows' = rows
              \/ /\ rows'[entry.snap.id].state = entry.snap.state
                 /\ rows'[entry.snap.id].by = entry.by
                 /\ entry.snap.state = "closed" => entry.snap.id \in recorded'
<1>1. queue # <<>> /\ queue' = Tail(queue) /\ Head(queue).snap.id # None
      /\ tasks' = Receipt(Head(queue)) /\ loop' = loop
  BY DEF Write, control
<1>2. Takes(Head(queue))
  BY <1>1, TakesFirst
<1>3. PICK entry : entry = Head(queue)
  OBVIOUS
<1>4. entry \in Mail /\ entry.snap \in Snapshot
  BY <1>1, <1>2, <1>3 DEF Takes, Mail, Mark
<1>5. entry.snap.id \in Ids /\ entry.snap.state \in Texts \cup {"closed"}
      /\ entry.by \in Procs \cup {"loop"} /\ rows \in [Ids -> Row]
  BY <1>4 DEF Snapshot, Mail, Typed, HistoryTyped
<1>6. CASE RowWritten(entry)
  <2>1. PICK row : row = [state |-> entry.snap.state, by |-> entry.by]
    OBVIOUS
  <2>2. row \in Row /\ row.state = entry.snap.state /\ row.by = entry.by
    BY <1>5, <2>1 DEF Row
  <2>3. rows' = [rows EXCEPT ![entry.snap.id] = row]
    BY <1>6, <2>1 DEF RowWritten
  <2>4. /\ rows' \in [Ids -> Row] /\ rows'[entry.snap.id] = row
        /\ \A i \in Ids \ {entry.snap.id} : rows'[i] = rows[i]
    BY <1>5, <2>2, <2>3
  <2>5. /\ lost' = lost /\ recorded \subseteq recorded'
        /\ recorded' \subseteq recorded \cup {entry.snap.id}
        /\ entry.snap.state = "closed" => entry.snap.id \in recorded'
    BY <1>6 DEF RowWritten
  <2> QED BY <1>1, <1>2, <1>3, <1>4, <2>2, <2>4, <2>5
<1>7. CASE RowFailed(entry)
  <2>1. lost' = lost \cup {entry.snap.id} /\ rows' = rows /\ recorded' = recorded
    BY <1>7 DEF RowFailed
  <2> QED BY <1>1, <1>2, <1>3, <1>4, <1>5, <2>1
<1>8. RowWritten(entry) \/ RowFailed(entry)
  BY <1>3 DEF Write
<1> QED BY <1>6, <1>7, <1>8

LEMMA FlushedMail ==
  ASSUME Typed, Flushed
  PROVE  /\ rows' = rows /\ recorded' = recorded /\ lost' = lost /\ loop' = loop
         /\ Takes(Head(queue)) /\ Head(queue).snap.id = None
         /\ OnlyTask(Cleanup) /\ tasks'[Cleanup].pc = "flushed"
         /\ tasks'[Cleanup].todo = tasks[Cleanup].todo
         /\ tasks'[Cleanup].error = tasks[Cleanup].error
<1>1. /\ queue # <<>> /\ queue' = Tail(queue) /\ Head(queue).snap.id = None
      /\ tasks' = [tasks EXCEPT ![Cleanup].pc = "flushed"]
      /\ rows' = rows /\ recorded' = recorded /\ lost' = lost /\ loop' = loop
  BY DEF Flushed, control
<1>2. Cleanup \in Procs /\ tasks[Cleanup] \in Task /\ DOMAIN tasks = Procs
  BY Sorts, TaskFacts
<1>3. tasks' = [tasks EXCEPT ![Cleanup].pc = "flushed",
                             ![Cleanup].error = tasks[Cleanup].error]
  BY <1>1, <1>2 DEF Task
<1>4. tasks[Cleanup].error \in Errors \cup {None}
  BY <1>2 DEF Task
<1>5. /\ OnlyTask(Cleanup) /\ tasks'[Cleanup].pc = "flushed"
      /\ tasks'[Cleanup].todo = tasks[Cleanup].todo
      /\ tasks'[Cleanup].error = tasks[Cleanup].error
  BY <1>3, <1>4, FlushTask
<1> QED BY <1>1, <1>5, TakesFirst

LEMMA SnapshotIds ==
  ASSUME NEW q \in Seq(Snapshot)
  PROVE  /\ Range(q) \subseteq Snapshot /\ Sent(q) = {snap.id : snap \in Range(q)}
         /\ Sent(q) \subseteq Ids
         /\ q = <<>> <=> Range(q) = {}
<1>1. \A n \in DOMAIN q : q[n] \in Snapshot
  OBVIOUS
<1>2. Range(q) \subseteq Snapshot
  BY <1>1 DEF Range
<1>3. Sent(q) = {snap.id : snap \in Range(q)}
  BY DEF Sent, Range
<1>4. \A snap \in Snapshot : snap.id \in Ids
  BY DEF Snapshot
<1>5. q = <<>> => Range(q) = {}
  BY DEF Range
<1>6. q # <<>> => Range(q) # {}
  <2>1. q # <<>> => Head(q) \in Range(q)
    BY TailRange
  <2> QED BY <2>1
<1> QED BY <1>2, <1>3, <1>4, <1>5, <1>6

\* What a step that moves one task or none does to it.
OneMoves(p) ==
  \/ \E task : StepMoves(p, task)
  \/ \E error : StepEnds(p, error)
  \/ \E i : StepBegins(p, i)
  \/ \E done, now, new, amended, todo :
       StepPersists(p, done, now, new, amended, todo)
  \/ \E new, amended : StepPanics(p, new, amended)

LEMMA OneMovesHistory ==
  ASSUME NEW p, OneMoves(p)
  PROVE  UNCHANGED <<queue, rows, lost, recorded>>
<1>1. ASSUME NEW task, StepMoves(p, task) PROVE UNCHANGED <<queue, rows, lost, recorded>>
  BY <1>1 DEF StepMoves, history
<1>2. ASSUME NEW error, StepEnds(p, error) PROVE UNCHANGED <<queue, rows, lost, recorded>>
  BY <1>2 DEF StepEnds, history
<1>3. ASSUME NEW i, StepBegins(p, i) PROVE UNCHANGED <<queue, rows, lost, recorded>>
  BY <1>3 DEF StepBegins, history
<1>4. ASSUME NEW done, NEW now, NEW new, NEW amended, NEW todo,
             StepPersists(p, done, now, new, amended, todo)
      PROVE  UNCHANGED <<queue, rows, lost, recorded>>
  BY <1>4 DEF StepPersists, history
<1>5. ASSUME NEW new, NEW amended, StepPanics(p, new, amended)
      PROVE  UNCHANGED <<queue, rows, lost, recorded>>
  BY <1>5 DEF StepPanics, history
<1> QED BY <1>1, <1>2, <1>3, <1>4, <1>5 DEF OneMoves

\* What a call leaves neither live nor closed had a number.
LEMMA UnrecordedIds ==
  ASSUME Typed, NEW done
  PROVE  Unrecorded(sched, done) \subseteq Ids
BY FitNumbers DEF Typed, SchedulerFits, Unrecorded

LEMMA HistoryTypedKept ==
  ASSUME Typed, Disciplined, MailAwaited, Step
  PROVE  HistoryTyped'
<1>1. HistoryTyped
  BY DEF Typed
<1>2. CASE UNCHANGED <<queue, rows, lost, recorded>>
  BY <1>1, <1>2 DEF HistoryTyped
<1>3. CASE \/ StepQuiet \/ (\E p, task : StepMoves(p, task))
           \/ (\E p, error : StepEnds(p, error)) \/ (\E p, i : StepBegins(p, i))
           \/ (\E p, done, now, new, amended, todo :
                 StepPersists(p, done, now, new, amended, todo))
           \/ (\E c, new, amended : StepPanics(c, new, amended))
           \/ StepDies
  <2>1. CASE StepQuiet \/ StepDies
    BY <1>2, <2>1 DEF StepQuiet, StepDies, history
  <2>2. ASSUME NEW p, OneMoves(p) PROVE HistoryTyped'
    BY <1>2, <2>2, OneMovesHistory
  <2> QED BY <1>3, <2>1, <2>2 DEF OneMoves
<1>10. ASSUME NEW done, StepTicks(done) PROVE HistoryTyped'
  <2>1. lost' \subseteq lost \cup Unrecorded(sched, done)
    BY <1>10 DEF StepTicks
  <2>2. lost' \subseteq Ids
    BY <1>1, <2>1, UnrecordedIds DEF HistoryTyped
  <2> QED BY <1>1, <1>10, <2>2 DEF StepTicks, HistoryTyped
<1>4. ASSUME NEW T, NEW pc, StepDrops(T, pc) PROVE HistoryTyped'
  <2>1. \A t \in T : Sent(tasks[t].todo) \subseteq Ids
    <3>1. TAKE t \in T
    <3>2. tasks[t].todo \in Seq(Snapshot)
      BY <1>4, TaskFacts DEF StepDrops, Procs
    <3> QED BY <3>2, SnapshotIds
  <2>2. lost' \subseteq Ids
    BY <1>1, <1>4, <2>1 DEF StepDrops, DropLoses, HistoryTyped
  <2> QED BY <1>1, <1>4, <2>2 DEF StepDrops, HistoryTyped
<1>5. ASSUME NEW p \in Procs, Persist(p) PROVE HistoryTyped'
  <2>1. Head(tasks[p].todo).id \in Ids
    BY <1>5, PersistMail DEF Snapshot
  <2> QED BY <1>1, <1>5, <2>1, PersistMail DEF HistoryTyped, Posts
<1>6. CASE Write
  BY <1>1, <1>6, WriteMail DEF HistoryTyped, Takes, Snapshot
<1>7. CASE Flushed
  BY <1>1, <1>7, FlushedMail DEF HistoryTyped, Takes
<1>8. CASE Enqueue
  <2>1. loop.todo \in Seq(Snapshot)
    BY DEF Typed, ControlTyped
  <2>2. {snap.id : snap \in Range(loop.todo)} \subseteq Ids
    BY <2>1, SnapshotIds
  <2> QED BY <1>1, <1>8, <2>2, EnqueueMail DEF HistoryTyped
<1>9. CASE Flush
  BY <1>1, <1>9, FlushMail DEF HistoryTyped, Posts
<1> QED BY <1>3, <1>4, <1>5, <1>6, <1>7, <1>8, <1>9, <1>10 DEF Step

LEMMA TypedKept ==
  ASSUME Typed, Disciplined, MailAwaited, Step
  PROVE  Typed'
BY SchedulerFitsKept, TasksTypedKept, ControlTypedKept, HistoryTypedKept DEF Typed

-----------------------------------------------------------------------------
(* The discipline is kept.                                                 *)

\* What every process may hold, as in Discipline.
HoldsFit(p, task) ==
  /\ task.todo # <<>> => task.pc \in {"persist", "receipt"}
  /\ task.intent # None => task.pc \in {"begun", "switching", "switched", "refused"}
  /\ p \in Tasks /\ task.error # None => task.pc = "answered"

\* It leaves History alone, and the tasks that wait for it or have ended.
MovesFit(p) ==
  /\ OnlyTask(p) /\ HoldsFit(p, tasks'[p])
  /\ UNCHANGED <<history, control>> /\ backend' \in {backend, None} \cup Tasks
  /\ tasks[p].pc \notin {"receipt", "flushing", "flushed", "answered", "aborted"}
  /\ tasks'[p].pc \notin {"idle", "receipt", "flushing", "flushed", "aborted"}
  /\ tasks'[p].pc \in {"waiting", "ready"} /\ p \in Clients =>
       tasks[p].pc \in {"idle", "waiting"}
  /\ p \in Tasks /\ Ending =>
       /\ tasks[p].pc \in {"switching", "switched", "refused", "persist"}
       /\ tasks'[p].pc \in {"switched", "refused", "persist", "answered"}
  /\ p = Cleanup =>
       tasks[p].pc = "ready" /\ tasks'[p].pc = "persist" /\ order' = order
  /\ \/ order' = order
     \/ order = None /\ order' = p /\ p \in Clients /\ At(p, "waiting")
     \/ order = p /\ order' = None /\ tasks'[p].pc = "answered"
  /\ p \in Clients /\ tasks'[p].pc \notin {"waiting", "answered"} => order' = p

LEMMA OneMovesTask ==
  ASSUME Typed, Disciplined, NEW p, OneMoves(p)
  PROVE  MovesFit(p)
<1>1. ASSUME NEW task, StepMoves(p, task) PROVE MovesFit(p)
  <2>1. p \in Procs /\ p # Cleanup /\ p \in Tasks
    BY <1>1, Sorts DEF StepMoves, Procs
  <2>2. OnlyTask(p) /\ tasks'[p] = task
    BY <1>1, <2>1, ChangesOnly DEF StepMoves
  <2>3. tasks[p].todo = <<>> /\ tasks[p].error = None
    BY <1>1, <2>1, Flight DEF StepMoves
  <2>4. HoldsFit(p, task)
    BY <1>1, <2>3 DEF StepMoves, HoldsFit
  <2> QED BY <1>1, <2>1, <2>2, <2>4 DEF MovesFit, StepMoves, At
<1>2. ASSUME NEW error, StepEnds(p, error) PROVE MovesFit(p)
  <2>1. p \in Procs /\ p # Cleanup /\ p \in Tasks
    BY <1>2, Sorts DEF StepEnds, Procs
  <2>2. /\ OnlyTask(p) /\ tasks'[p].pc = "answered"
        /\ tasks'[p].intent = None /\ tasks'[p].todo = <<>>
    BY <1>2, EndsTask DEF StepEnds
  <2>3. Ending => tasks[p].pc \notin {"received", "ready"}
    BY <2>1, Flight
  <2> QED BY <1>2, <2>1, <2>2, <2>3 DEF MovesFit, StepEnds, Ends, HoldsFit
<1>3. ASSUME NEW i, StepBegins(p, i) PROVE MovesFit(p)
  <2>1. p \in Procs /\ p # Cleanup /\ p \in Tasks /\ At(p, "ready")
    BY <1>3, Sorts DEF StepBegins, Procs
  <2>2. /\ OnlyTask(p) /\ tasks'[p].pc = "begun"
        /\ tasks'[p].todo = tasks[p].todo /\ tasks'[p].error = tasks[p].error
    BY <1>3, BeginsTask
  <2>3. ~Ending /\ tasks[p].todo = <<>> /\ tasks[p].error = None
        /\ (p \in Clients => order = p)
    BY <2>1, Flight DEF At
  <2> QED BY <1>3, <2>1, <2>2, <2>3 DEF MovesFit, StepBegins, HoldsFit, At
<1>4. ASSUME NEW done, NEW now, NEW new, NEW amended, NEW todo,
             StepPersists(p, done, now, new, amended, todo)
      PROVE  MovesFit(p)
  <2>1. p \in Procs /\ tasks[p].pc \in {"ready", "switched"}
    BY <1>4 DEF StepPersists
  <2>2. /\ OnlyTask(p) /\ tasks'[p].pc = "persist" /\ tasks'[p].intent = None
        /\ tasks'[p].error = None
    BY <1>4, <2>1, PersistsTask DEF StepPersists
  <2>3. /\ p \in Tasks /\ Ending => tasks[p].pc # "ready"
        /\ p \in Clients => order = p
        /\ p = Cleanup => tasks[p].pc \in PlacesOfCleanup
    BY <2>1, Flight DEF Typed, TasksTyped
  <2> QED BY <1>4, <2>1, <2>2, <2>3 DEF MovesFit, StepPersists, HoldsFit,
              PlacesOfCleanup
<1>5. ASSUME NEW new, NEW amended, StepPanics(p, new, amended) PROVE MovesFit(p)
  <2>1. /\ p # Cleanup /\ order = p /\ order' = None /\ ~Ending /\ OnlyTask(p)
        /\ tasks[p].pc = "ready" /\ tasks'[p].pc = "answered"
        /\ tasks'[p].intent = None /\ tasks'[p].todo = <<>>
    BY <1>5, PanicsTask DEF At
  <2>2. UNCHANGED <<history, control>> /\ backend' = backend
    BY <1>5 DEF StepPanics
  <2> QED BY <2>1, <2>2 DEF MovesFit, HoldsFit
<1> QED BY <1>1, <1>2, <1>3, <1>4, <1>5 DEF OneMoves

LEMMA HoldsMore ==
  ASSUME Disciplined, tasks' \in [Procs -> Task],
         \A q \in Procs : tasks'[q] = tasks[q] \/ HoldsFit(q, tasks'[q]),
         loop'.todo # <<>> => loop'.pc = "enqueue"
  PROVE  Discipline'
<1>1. \A q \in Procs : HoldsFit(q, tasks[q])
  BY DEF Disciplined, Discipline, HoldsFit
<1>2. \A q \in Procs : HoldsFit(q, tasks'[q])
  BY <1>1
<1>3. \A t \in Tasks : t \in Procs
  BY DEF Procs
<1> QED BY <1>2, <1>3 DEF Discipline, HoldsFit

LEMMA DisciplineKept ==
  ASSUME Typed, Disciplined, MailAwaited, Step
  PROVE  Discipline'
<1>1. tasks \in [Procs -> Task] /\ (loop.todo # <<>> => loop.pc = "enqueue")
  BY DEF Typed, TasksTyped, Disciplined, Discipline
<1>2. CASE StepQuiet
  BY <1>1, <1>2, HoldsMore DEF StepQuiet
<1>3. ASSUME NEW p, OneMoves(p) PROVE Discipline'
  <2>1. OnlyTask(p) /\ HoldsFit(p, tasks'[p]) /\ loop' = loop
    BY <1>3, OneMovesTask DEF MovesFit, control
  <2> QED BY <1>1, <2>1, HoldsMore DEF OnlyTask
<1>4. CASE StepDies \/ \E done : StepTicks(done)
  BY <1>1, <1>4, HoldsMore DEF StepTicks, StepDies
<1>5. ASSUME NEW T, NEW pc, StepDrops(T, pc) PROVE Discipline'
  <2>1. /\ tasks' \in [Procs -> Task]
        /\ \A q \in Procs : IF q \in T /\ ~Ended(q)
                            THEN tasks'[q] = [Idle EXCEPT !.pc = "aborted"]
                            ELSE q # Cleanup => tasks'[q] = tasks[q]
        /\ tasks'[Cleanup].pc = pc
        /\ tasks'[Cleanup].intent = tasks[Cleanup].intent
        /\ tasks'[Cleanup].todo = tasks[Cleanup].todo
    BY <1>5, DropsTask
  <2>2. HoldsFit(Cleanup, tasks'[Cleanup])
    <3>1. /\ Cleanup \in Procs /\ Cleanup \notin Tasks
          /\ tasks[Cleanup].pc \in PlacesOfCleanup
      BY Sorts DEF Typed, TasksTyped
    <3>2. pc = tasks[Cleanup].pc \/ tasks[Cleanup].pc = "idle"
      BY <1>5, <3>1 DEF StepDrops, Disciplined, Emptied, Ending
    <3> QED BY <2>1, <3>1, <3>2 DEF Disciplined, Discipline, HoldsFit
  <2>3. \A q \in Procs : tasks'[q] = tasks[q] \/ HoldsFit(q, tasks'[q])
    <3>1. TAKE q \in Procs
    <3>2. CASE q \in T /\ ~Ended(q)
      <4>1. tasks'[q] = [Idle EXCEPT !.pc = "aborted"]
        BY <2>1, <3>2
      <4> QED BY <4>1 DEF HoldsFit, Idle
    <3> QED BY <2>1, <2>2, <3>2
  <2>4. loop' = loop
    BY <1>5 DEF StepDrops
  <2> QED BY <1>1, <2>1, <2>3, <2>4, HoldsMore
<1>6. CASE MailStep
  <2>1. MailMoves
    BY <1>6, MailStepMoves
  <2>2. \A q \in Procs : tasks'[q] = tasks[q] \/ HoldsFit(q, tasks'[q])
    <3>1. TAKE q \in Procs
    <3>2. CASE /\ {tasks[q].pc, tasks'[q].pc} \subseteq {"persist", "receipt"}
               /\ tasks'[q].intent = tasks[q].intent /\ tasks'[q].error = tasks[q].error
      <4>1. tasks[q].intent = None /\ (q \in Tasks => tasks[q].error = None)
        BY <3>2, Flight
      <4> QED BY <3>2, <4>1 DEF HoldsFit
    <3>3. CASE /\ q = Cleanup /\ tasks[q].pc \in {"persist", "flushing"}
               /\ tasks'[q].intent = tasks[q].intent /\ tasks'[q].todo = <<>>
      <4>1. tasks[q].intent = None /\ q \notin Tasks
        BY <3>3, Sorts DEF Disciplined, Discipline
      <4> QED BY <3>3, <4>1 DEF HoldsFit
    <3> QED BY <2>1, <3>2, <3>3 DEF MailMoves
  <2>3. loop'.todo # <<>> => loop'.pc = "enqueue"
    BY <1>1, <2>1 DEF MailMoves, Typed, ControlTyped
  <2> QED BY <2>1, <2>2, <2>3, HoldsMore DEF MailMoves
<1> QED BY <1>2, <1>3, <1>4, <1>5, <1>6 DEF Step, MailStep, OneMoves

LEMMA OrderHeldKept ==
  ASSUME Typed, Disciplined, MailAwaited, Step
  PROVE  OrderHeld'
<1> DEFINE holding == {"ready", "begun", "switching", "switched", "refused",
                       "persist", "receipt"}
<1>1. \A c \in Clients : tasks[c].pc \in holding => order = c
  BY DEF Disciplined, OrderHeld
<1>2. \A c \in Clients : c \in Procs /\ c \in Tasks /\ c # Cleanup
  BY Sorts
<1>3. CASE order' = order /\ \A c \in Clients :
             tasks'[c].pc \in holding => tasks[c].pc \in holding
  BY <1>1, <1>3 DEF OrderHeld
<1>4. CASE StepQuiet \/ StepDies \/ \E done : StepTicks(done)
  BY <1>3, <1>4 DEF StepQuiet, StepTicks, StepDies
<1>5. ASSUME NEW p, OneMoves(p) PROVE OrderHeld'
  <2>1. MovesFit(p)
    BY <1>5, OneMovesTask
  <2>2. ASSUME NEW c \in Clients, tasks'[c].pc \in holding PROVE order' = c
    <3>1. CASE c = p
      BY <2>1, <2>2, <3>1 DEF MovesFit
    <3>2. CASE c # p
      <4>1. order = c
        BY <1>1, <1>2, <2>1, <2>2, <3>2 DEF MovesFit, OnlyTask
      <4>2. order # None /\ order # p
        BY <1>2, <3>2, <4>1, Sorts
      <4> QED BY <2>1, <4>1, <4>2 DEF MovesFit
    <3> QED BY <3>1, <3>2
  <2> QED BY <2>2 DEF OrderHeld
<1>6. ASSUME NEW T, NEW pc, StepDrops(T, pc) PROVE OrderHeld'
  <2>1. \A q \in Procs : IF q \in T /\ ~Ended(q)
                         THEN tasks'[q] = [Idle EXCEPT !.pc = "aborted"]
                         ELSE q # Cleanup => tasks'[q] = tasks[q]
    BY <1>6, DropsTask
  <2>2. ASSUME NEW c \in Clients, tasks'[c].pc \in holding PROVE order' = c
    <3>1. ~(c \in T /\ ~Ended(c))
      <4>1. ASSUME c \in T /\ ~Ended(c) PROVE FALSE
        <5>1. tasks'[c].pc = "aborted"
          BY <1>2, <2>1, <4>1 DEF Idle
        <5> QED BY <2>2, <5>1
      <4> QED BY <4>1
    <3>2. tasks'[c] = tasks[c]
      BY <1>2, <2>1, <3>1
    <3>3. order = c /\ c \notin T
      BY <1>1, <2>2, <3>1, <3>2 DEF Ended
    <3> QED BY <1>6, <3>3 DEF StepDrops, DropFrees
  <2> QED BY <2>2 DEF OrderHeld
<1>7. CASE MailStep
  <2>1. MailMoves
    BY <1>7, MailStepMoves
  <2>2. \A c \in Clients : tasks'[c].pc \in holding => tasks[c].pc \in holding
    BY <1>2, <2>1 DEF MailMoves
  <2> QED BY <1>3, <2>1, <2>2 DEF MailMoves
<1> QED BY <1>4, <1>5, <1>6, <1>7 DEF Step, MailStep, OneMoves

\* Where the tasks are when the daemon ends.
WindsFit(t, pc) ==
  /\ pc = "aborted" => Ending'
  /\ Ending' => pc \notin {"waiting", "received", "ready", "begun"}
  /\ daemon' = "stopped" => pc \in {"idle", "answered", "aborted"}

LEMMA WindingKept ==
  ASSUME Typed, Disciplined, MailAwaited, Step
  PROVE  Winding'
<1>1. /\ \A t \in Tasks : tasks[t].pc = "aborted" => Ending
      /\ Ending => \A t \in Tasks :
           tasks[t].pc \notin {"waiting", "received", "ready", "begun"}
      /\ daemon = "stopped" => /\ \A t \in Tasks : tasks[t].pc \in {"idle", "answered", "aborted"}
                               /\ tasks[Cleanup].pc = "flushed"
  BY DEF Disciplined, Winding, Ended
<1>2. \A t \in Tasks : t \in Procs /\ t # Cleanup
  BY Sorts DEF Procs
<1>3. ASSUME \A t \in Tasks : WindsFit(t, tasks'[t].pc),
             daemon' = "stopped" => tasks'[Cleanup].pc = "flushed"
      PROVE  Winding'
  BY <1>3 DEF Winding, WindsFit, Ended
<1>4. ASSUME daemon' = daemon, NEW t \in Tasks, tasks'[t] = tasks[t]
      PROVE  WindsFit(t, tasks'[t].pc)
  BY <1>1, <1>4 DEF WindsFit, Ending
<1>5. CASE StepQuiet
  <2>1. tasks' = tasks /\ (daemon' = daemon \/ (daemon = "serving" /\ daemon' = "draining"))
    BY <1>5 DEF StepQuiet
  <2> QED BY <1>1, <2>1 DEF Winding, Ending, Ended
<1>6. CASE StepDies \/ \E done : StepTicks(done)
  BY <1>1, <1>3, <1>4, <1>6 DEF StepTicks, StepDies
<1>7. ASSUME NEW p, OneMoves(p) PROVE Winding'
  <2>1. MovesFit(p) /\ daemon' = daemon
    BY <1>7, OneMovesTask DEF MovesFit, control
  <2>2. \A t \in Tasks : WindsFit(t, tasks'[t].pc)
    <3>1. TAKE t \in Tasks
    <3>2. CASE t # p
      BY <1>2, <1>4, <2>1, <3>2 DEF MovesFit, OnlyTask
    <3>3. CASE t = p
      BY <1>1, <2>1, <3>3 DEF MovesFit, WindsFit, Ending
    <3> QED BY <3>2, <3>3
  <2>3. daemon' = "stopped" => tasks'[Cleanup].pc = "flushed"
    <3>1. Cleanup \in Procs
      BY Sorts
    <3> QED BY <1>1, <2>1, <3>1 DEF MovesFit, OnlyTask
  <2> QED BY <1>3, <2>2, <2>3
<1>8. ASSUME NEW T, NEW pc, StepDrops(T, pc) PROVE Winding'
  <2>1. /\ \A q \in Procs : IF q \in T /\ ~Ended(q)
                            THEN tasks'[q] = [Idle EXCEPT !.pc = "aborted"]
                            ELSE q # Cleanup => tasks'[q] = tasks[q]
        /\ tasks'[Cleanup].pc = pc
    BY <1>8, DropsTask
  <2>2. Ending' /\ (daemon' = "stopped" => T = Tasks /\ pc = "flushed")
    BY <1>8 DEF StepDrops, Ending, At
  <2>3. \A t \in Tasks : WindsFit(t, tasks'[t].pc)
    <3>1. TAKE t \in Tasks
    <3>2. CASE t \in T /\ ~Ended(t)
      <4>1. tasks'[t].pc = "aborted"
        BY <1>2, <2>1, <3>2 DEF Idle
      <4> QED BY <2>2, <4>1 DEF WindsFit
    <3>3. CASE Ended(t)
      BY <1>2, <2>1, <2>2, <3>3 DEF WindsFit, Ended
    <3>4. CASE t \notin T /\ ~Ended(t)
      <4>1. tasks'[t] = tasks[t] /\ daemon' # "stopped"
        BY <1>2, <2>1, <2>2, <3>4
      <4>2. Ending \/ At(t, "switching")
        BY <1>8, <3>4 DEF StepDrops, Ending
      <4> QED BY <1>1, <2>2, <4>1, <4>2 DEF WindsFit, At
    <3> QED BY <3>2, <3>3, <3>4
  <2> QED BY <1>3, <2>1, <2>2, <2>3
<1>9. CASE MailStep
  <2>1. MailMoves
    BY <1>9, MailStepMoves
  <2>2. daemon' = daemon
    BY <2>1 DEF MailMoves
  <2>3. \A t \in Tasks : WindsFit(t, tasks'[t].pc)
    <3>1. TAKE t \in Tasks
    <3>2. CASE tasks'[t] = tasks[t]
      BY <1>4, <2>2, <3>2
    <3>3. CASE {tasks[t].pc, tasks'[t].pc} \subseteq {"persist", "receipt"}
      BY <1>1, <2>2, <3>3 DEF WindsFit
    <3> QED BY <1>2, <2>1, <3>2, <3>3 DEF MailMoves
  <2>4. daemon' = "stopped" => tasks'[Cleanup].pc = "flushed"
    <3>1. Cleanup \in Procs
      BY Sorts
    <3> QED BY <1>1, <2>1, <2>2, <3>1 DEF MailMoves
  <2> QED BY <1>3, <2>3, <2>4
<1> QED BY <1>5, <1>6, <1>7, <1>8, <1>9 DEF Step, MailStep, OneMoves

\* What it does to the scheduler.
LEMMA OneMovesSched ==
  ASSUME Typed, Disciplined, NEW p, OneMoves(p)
  PROVE  /\ p = Cleanup => Live(sched') = {} /\ Closed(sched') = {}
         /\ Ending /\ Live(sched) = {} /\ Closed(sched) = {} =>
              Live(sched') = {} /\ Closed(sched') = {}
         /\ \/ sched'.nextSequence = sched.nextSequence
            \/ /\ sched'.nextSequence = sched.nextSequence + 1
               /\ p \in Clients /\ At(p, "ready")
               /\ tasks'[p].pc \in {"persist", "answered"}
<1>1. p \in Procs /\ (p \in Tasks => p # Cleanup)
  BY OneMovesTask, Sorts DEF MovesFit, OnlyTask
<1>2. ASSUME NEW task, StepMoves(p, task) PROVE p # Cleanup /\ sched' = sched
  BY <1>1, <1>2 DEF StepMoves
<1>3. ASSUME NEW error, StepEnds(p, error)
      PROVE  p # Cleanup /\ Calm(sched, sched', tasks[p].at)
  BY <1>1, <1>3 DEF StepEnds
<1>4. ASSUME NEW i, StepBegins(p, i)
      PROVE  /\ p # Cleanup /\ sched'.nextSequence = sched.nextSequence /\ ~Ending
  <2>1. p \in Tasks /\ At(p, "ready") /\ sched'.nextSequence = sched.nextSequence
    BY <1>4 DEF StepBegins
  <2> QED BY <1>1, <2>1, Flight DEF At
<1>5. ASSUME NEW done, NEW now, NEW new, NEW amended, NEW todo,
             StepPersists(p, done, now, new, amended, todo)
      PROVE  /\ Live(sched') = Live(done) /\ Closed(sched') = {}
             /\ sched'.nextSequence = done.nextSequence
             /\ p = Cleanup => Live(done) = {}
             /\ Ending => Live(done) \subseteq Live(sched)
             /\ \/ done.nextSequence = sched.nextSequence
                \/ /\ done.nextSequence = sched.nextSequence + 1
                   /\ p \in Clients /\ At(p, "ready") /\ tasks'[p].pc = "persist"
  <2>1. Turns(sched, done, now, new, amended) /\ sched' = DrainClosed(done)
    BY <1>5 DEF StepPersists
  <2>2. /\ Live(sched') = Live(done) /\ Closed(sched') = {}
        /\ sched'.nextSequence = done.nextSequence
    BY <2>1, DrainFits DEF Turns
  <2>3. tasks'[p].pc = "persist"
    BY <1>5, PersistsTask DEF StepPersists
  <2>4. Ending => new = {}
    <3>1. p \in Clients /\ At(p, "ready") => ~Ending
      BY <1>1, Sorts, Flight DEF At
    <3> QED BY <1>5, <3>1 DEF StepPersists
  <2>5. sched.nextSequence \in Nat
    BY FitNumbers DEF Typed, SchedulerFits
  <2>6. /\ p = Cleanup => Live(done) = {}
        /\ \/ done.nextSequence = sched.nextSequence
           \/ done.nextSequence = sched.nextSequence + 1
        /\ done.nextSequence # sched.nextSequence => p \in Clients /\ At(p, "ready")
    BY <1>5 DEF StepPersists
  <2>7. Ending => Live(done) \subseteq Live(sched)
    BY <2>1, <2>4 DEF Turns
  <2> QED BY <2>2, <2>3, <2>6, <2>7
<1>6. CASE \E task : StepMoves(p, task)
  BY <1>2, <1>6
<1>7. CASE \E error : StepEnds(p, error)
  BY <1>3, <1>7 DEF Calm, Turns
<1>8. CASE \E i : StepBegins(p, i)
  BY <1>4, <1>8
<1>10. CASE \E new, amended : StepPanics(p, new, amended)
  <2>1. PICK new, amended : StepPanics(p, new, amended)
    BY <1>10
  <2>2. /\ p # Cleanup /\ ~Ending /\ At(p, "ready") /\ tasks'[p].pc = "answered"
    BY <2>1, PanicsTask
  <2> QED BY <2>1, <2>2 DEF StepPanics
<1>9. CASE \E done, now, new, amended, todo :
             StepPersists(p, done, now, new, amended, todo)
  <2>1. PICK done, now, new, amended, todo :
          StepPersists(p, done, now, new, amended, todo)
    BY <1>9
  <2> QED BY <1>5, <2>1
<1> QED BY <1>6, <1>7, <1>8, <1>9, <1>10 DEF OneMoves

LEMMA EmptiedKept ==
  ASSUME Typed, Disciplined, MailAwaited, Step
  PROVE  Emptied'
<1> DEFINE late(pc) == pc \notin {"idle", "ready"}
<1>1. /\ tasks[Cleanup].pc # "idle" => Ending
      /\ late(tasks[Cleanup].pc) => Live(sched) = {} /\ Closed(sched) = {}
  BY DEF Disciplined, Emptied
<1>2. Cleanup \in Procs /\ Cleanup \notin Tasks
  BY Sorts
<1>3. CASE /\ sched' = sched /\ (Ending => Ending')
           /\ tasks'[Cleanup].pc = tasks[Cleanup].pc
  BY <1>1, <1>3 DEF Emptied
<1>4. CASE StepQuiet
  BY <1>3, <1>4 DEF StepQuiet, Ending
<1>5. ASSUME NEW p, OneMoves(p) PROVE Emptied'
  <2>1. MovesFit(p) /\ daemon' = daemon
    BY <1>5, OneMovesTask DEF MovesFit, control
  <2>2. /\ p = Cleanup => Live(sched') = {} /\ Closed(sched') = {}
        /\ Ending /\ Live(sched) = {} /\ Closed(sched) = {} =>
             Live(sched') = {} /\ Closed(sched') = {}
    BY <1>5, OneMovesSched
  <2>3. CASE p = Cleanup
    BY <1>1, <2>1, <2>2, <2>3 DEF Emptied, MovesFit, Ending
  <2>4. CASE p # Cleanup
    <3>1. tasks'[Cleanup] = tasks[Cleanup]
      BY <1>2, <2>1, <2>4 DEF MovesFit, OnlyTask
    <3> QED BY <1>1, <2>1, <2>2, <3>1 DEF Emptied, Ending
  <2> QED BY <2>3, <2>4
<1>6. ASSUME NEW done, StepTicks(done) PROVE Emptied'
  <2>1. /\ Calm(sched, done, clock) /\ sched' = DrainClosed(done)
        /\ tasks' = tasks /\ daemon' = daemon
    BY <1>6 DEF StepTicks
  <2>2. Live(done) \subseteq Live(sched) /\ Fit(done)
    BY <2>1 DEF Calm, Turns
  <2>3. Live(sched') = Live(done) /\ Closed(sched') = {}
    BY <2>1, <2>2, DrainFits
  <2> QED BY <1>1, <2>1, <2>2, <2>3 DEF Emptied, Ending
<1>9. CASE StepDies
  <2>1. /\ Live(sched') \subseteq Live(sched)
        /\ Live(sched) \cup Closed(sched) = {} => Closed(sched') = {}
        /\ tasks' = tasks /\ daemon' = daemon
    BY <1>9 DEF StepDies, Calm, Turns
  <2> QED BY <1>1, <2>1 DEF Emptied, Ending
<1>7. ASSUME NEW T, NEW pc, StepDrops(T, pc) PROVE Emptied'
  <2>1. tasks'[Cleanup].pc = pc
    BY <1>7, DropsTask
  <2>2. Ending' /\ sched' = sched /\ (pc = "ready" \/ pc = tasks[Cleanup].pc)
    BY <1>7 DEF StepDrops, Ending
  <2> QED BY <1>1, <2>1, <2>2 DEF Emptied
<1>8. CASE MailStep
  <2>1. MailMoves
    BY <1>8, MailStepMoves
  <2>2. sched' = sched /\ daemon' = daemon
    BY <2>1 DEF MailMoves
  <2>3. \/ tasks'[Cleanup].pc = tasks[Cleanup].pc
        \/ late(tasks[Cleanup].pc) /\ late(tasks'[Cleanup].pc)
    BY <1>2, <2>1 DEF MailMoves
  <2> QED BY <1>1, <2>2, <2>3 DEF Emptied, Ending
<1> QED BY <1>4, <1>5, <1>6, <1>7, <1>8, <1>9 DEF Step, MailStep, OneMoves

LEMMA CountedKept ==
  ASSUME Typed, Disciplined, MailAwaited, Step
  PROVE  Counted'
<1> DEFINE early(pc) == pc \in {"idle", "waiting", "ready"}
<1>1. /\ Early = {c \in Clients : early(tasks[c].pc)}
      /\ Early' = {c \in Clients : early(tasks'[c].pc)}
  BY DEF Early
<1>2. \A c \in Clients : c \in Procs /\ c # Cleanup
  BY Sorts
<1>3. /\ sched.nextSequence \in Nat
      /\ sched.nextSequence + Cardinality(Early) <= Cardinality(Clients)
      /\ IsFiniteSet(Clients) /\ Cardinality(Clients) \in Nat
  BY FitNumbers, DaemonConstants, FS_CardinalityType
     DEF Typed, SchedulerFits, Disciplined, Counted
<1>4. Early \subseteq Clients
  BY <1>1
<1>5. ASSUME \A c \in Clients : early(tasks'[c].pc) => early(tasks[c].pc)
      PROVE  /\ Early' \subseteq Early
             /\ Cardinality(Early') \in Nat /\ Cardinality(Early) \in Nat
             /\ Cardinality(Early') <= Cardinality(Early)
             /\ \A c \in Early \ Early' : Cardinality(Early') < Cardinality(Early)
  <2>1. Early' \subseteq Early
    BY <1>1, <1>5
  <2>2. PICK A : A = Early'
    OBVIOUS
  <2>3. A \subseteq Early
    BY <2>1, <2>2
  <2> QED BY <1>3, <1>4, <2>2, <2>3, PartCounts
<1>6. ASSUME \A c \in Clients : early(tasks'[c].pc) => early(tasks[c].pc),
             sched'.nextSequence = sched.nextSequence
      PROVE  Counted'
  <2>1. PICK m, n : m = Cardinality(Early) /\ n = Cardinality(Early')
    OBVIOUS
  <2>2. m \in Nat /\ n \in Nat /\ n <= m
    BY <1>5, <1>6, <2>1
  <2>3. sched'.nextSequence + n <= Cardinality(Clients)
    BY <1>3, <1>6, <2>1, <2>2
  <2> QED BY <2>1, <2>3 DEF Counted
<1>7. ASSUME NEW p, OneMoves(p) PROVE Counted'
  <2>1. MovesFit(p)
    BY <1>7, OneMovesTask
  <2>2. \A c \in Clients : early(tasks'[c].pc) => early(tasks[c].pc)
    <3>1. TAKE c \in Clients
    <3>2. CASE c = p
      BY <2>1, <3>2 DEF MovesFit
    <3>3. CASE c # p
      BY <1>2, <2>1, <3>3 DEF MovesFit, OnlyTask
    <3> QED BY <3>2, <3>3
  <2>3. CASE sched'.nextSequence = sched.nextSequence
    BY <1>6, <2>2, <2>3
  <2>4. CASE /\ sched'.nextSequence = sched.nextSequence + 1
             /\ p \in Clients /\ At(p, "ready")
             /\ tasks'[p].pc \in {"persist", "answered"}
    <3>1. p \in Early \ Early'
      BY <1>1, <2>4 DEF At
    <3>2. PICK m, n : m = Cardinality(Early) /\ n = Cardinality(Early')
      OBVIOUS
    <3>3. m \in Nat /\ n \in Nat /\ n < m
      BY <1>5, <2>2, <3>1, <3>2
    <3>4. sched'.nextSequence + n <= Cardinality(Clients)
      BY <1>3, <2>4, <3>2, <3>3
    <3> QED BY <3>2, <3>4 DEF Counted
  <2> QED BY <1>7, <2>3, <2>4, OneMovesSched
<1>8. CASE StepQuiet
  BY <1>6, <1>8 DEF StepQuiet
<1>9. ASSUME NEW done, StepTicks(done) PROVE Counted'
  <2>1. Calm(sched, done, clock) /\ sched' = DrainClosed(done) /\ tasks' = tasks
    BY <1>9 DEF StepTicks
  <2>2. sched'.nextSequence = sched.nextSequence
    BY <2>1, DrainFits DEF Calm, Turns
  <2> QED BY <1>6, <2>1, <2>2
<1>12. CASE StepDies
  BY <1>6, <1>12 DEF StepDies, Calm
<1>10. ASSUME NEW T, NEW pc, StepDrops(T, pc) PROVE Counted'
  <2>1. \A q \in Procs : IF q \in T /\ ~Ended(q)
                         THEN tasks'[q] = [Idle EXCEPT !.pc = "aborted"]
                         ELSE q # Cleanup => tasks'[q] = tasks[q]
    BY <1>10, DropsTask
  <2>2. \A c \in Clients : early(tasks'[c].pc) => early(tasks[c].pc)
    <3>1. TAKE c \in Clients
    <3>2. CASE c \in T /\ ~Ended(c)
      <4>1. tasks'[c].pc = "aborted"
        BY <1>2, <2>1, <3>2 DEF Idle
      <4> QED BY <4>1
    <3> QED BY <1>2, <2>1, <3>2
  <2>3. sched' = sched
    BY <1>10 DEF StepDrops
  <2> QED BY <1>6, <2>2, <2>3
<1>11. CASE MailStep
  <2>1. MailMoves
    BY <1>11, MailStepMoves
  <2>2. \A c \in Clients : early(tasks'[c].pc) => early(tasks[c].pc)
    BY <1>2, <2>1 DEF MailMoves
  <2> QED BY <1>6, <2>1, <2>2 DEF MailMoves
<1> QED BY <1>7, <1>8, <1>9, <1>10, <1>11, <1>12 DEF Step, MailStep, OneMoves

LEMMA DisciplinedKept ==
  ASSUME Typed, Disciplined, MailAwaited, Step
  PROVE  Disciplined'
BY DisciplineKept, OrderHeldKept, WindingKept, EmptiedKept, CountedKept DEF Disciplined

-----------------------------------------------------------------------------
(* The pins are held.                                                      *)

IntentOf(s, i) == [id |-> i, nonce |-> s.entries[i].nonce]

\* A step that sets no pin lets go of none, but by the clock or an abort, unless
\* the Notification is not pinned any more.
LEMMA PinsStay ==
  ASSUME Typed, PinsHeld, NoNewPin(sched, sched'), Excused => Excused',
         \A t \in Tasks :
           \/ tasks'[t].intent = tasks[t].intent
           \/ tasks[t].intent = None
           \/ ~IntentPinned(sched', tasks[t].intent)
           \/ tasks'[t].pc = "aborted" \/ tasks'[t].error = "TimeWentBackwards"
  PROVE  PinsHeld'
<1>1. SUFFICES ASSUME NEW i \in Live(sched'), sched'.entries[i].nonce # None
               PROVE  \/ \E t \in Tasks : tasks'[t].intent = IntentOf(sched', i)
                      \/ Excused'
  BY ZenonT(30) DEF PinsHeld, Held, IntentOf
<1>2. i \in Live(sched) /\ sched.entries[i].nonce = sched'.entries[i].nonce
  BY <1>1 DEF NoNewPin
<1>3. PICK intent : intent = IntentOf(sched', i)
  OBVIOUS
<1>4. Held(intent) \/ Excused
  BY <1>1, <1>2, <1>3 DEF PinsHeld, IntentOf
<1>5. CASE Held(intent)
  <2>1. PICK t \in Tasks : tasks[t].intent = intent
    BY <1>5 DEF Held
  <2>2. IntentPinned(sched', intent)
    BY <1>1, <1>3 DEF IntentPinned, IntentOf
  <2>3. intent # None
    <3>1. i \in Ids /\ sched.entries[i] \in Entry
      BY <1>2, FitNumbers DEF Typed, SchedulerFits
    <3>2. sched'.entries[i].nonce \in Nat
      BY <1>1, <1>2, <3>1 DEF Entry
    <3> QED BY <1>3, <3>1, <3>2, Sorts DEF IntentOf, Intent
  <2>4. CASE tasks'[t].intent = tasks[t].intent
    BY <1>3, <2>1, <2>4
  <2>5. CASE tasks'[t].pc = "aborted" \/ tasks'[t].error = "TimeWentBackwards"
    BY <2>5 DEF Excused, At
  <2> QED BY <2>1, <2>2, <2>3, <2>4, <2>5
<1>6. CASE Excused
  BY <1>6
<1> QED BY <1>4, <1>5, <1>6

LEMMA PinsHeldKept ==
  ASSUME Typed, Disciplined, MailAwaited, PinsHeld, Step
  PROVE  PinsHeld'
<1>1. \A t \in Tasks : t \in Procs /\ t # Cleanup
  BY Sorts DEF Procs
<1>2. CASE sched' = sched /\ tasks' = tasks
  BY <1>2 DEF PinsHeld, Held, Excused, At
<1>3. ASSUME NEW p, OneMoves(p) PROVE Excused => Excused'
  <2>1. MovesFit(p)
    BY <1>3, OneMovesTask
  <2>2. ASSUME NEW t \in Tasks, At(t, "aborted") \/ tasks[t].error = "TimeWentBackwards"
        PROVE  tasks'[t] = tasks[t]
    <3>2. tasks[t].error = "TimeWentBackwards" => tasks[t].error # None
      BY Sorts DEF Errors
    <3>1. tasks[t].pc \in {"aborted", "answered"}
      BY <1>1, <2>2, <3>2, Flight DEF At
    <3> QED BY <1>1, <2>1, <3>1 DEF MovesFit, OnlyTask
  <2> QED BY <2>2 DEF Excused, At
<1>4. ASSUME NEW p, NEW task, StepMoves(p, task) PROVE PinsHeld'
  <2>1. sched' = sched /\ (Excused => Excused')
    BY <1>3, <1>4 DEF StepMoves, OneMoves
  <2>2. p \in Procs /\ OnlyTask(p) /\ tasks'[p] = task /\ task.intent = tasks[p].intent
    BY <1>4, ChangesOnly DEF StepMoves, Procs
  <2>3. \A t \in Tasks : tasks'[t].intent = tasks[t].intent
    BY <1>1, <2>2 DEF OnlyTask
  <2>4. NoNewPin(sched, sched')
    BY <2>1 DEF NoNewPin
  <2> QED BY <2>1, <2>3, <2>4, PinsStay
<1>5. ASSUME NEW p, NEW error, StepEnds(p, error) PROVE PinsHeld'
  <2>1. NoNewPin(sched, sched') /\ (Excused => Excused')
    BY <1>3, <1>5 DEF StepEnds, Calm, OneMoves
  <2>2. OnlyTask(p) /\ tasks'[p].error = error
    BY <1>5, EndsTask DEF StepEnds
  <2>3. \/ tasks[p].intent = None \/ error = "TimeWentBackwards"
        \/ ~IntentPinned(sched', tasks[p].intent)
    BY <1>5 DEF StepEnds
  <2>4. ASSUME NEW t \in Tasks
        PROVE  \/ tasks'[t].intent = tasks[t].intent
               \/ tasks[t].intent = None
               \/ ~IntentPinned(sched', tasks[t].intent)
               \/ tasks'[t].pc = "aborted" \/ tasks'[t].error = "TimeWentBackwards"
    <3>1. CASE t = p
      BY <2>2, <2>3, <3>1
    <3>2. CASE t # p
      BY <1>1, <2>2, <3>2 DEF OnlyTask
    <3> QED BY <3>1, <3>2
  <2> QED BY <2>1, <2>4, PinsStay
<1>6. ASSUME NEW p, NEW i, StepBegins(p, i) PROVE PinsHeld'
  <2>1. Excused => Excused'
    BY <1>3, <1>6 DEF OneMoves
  <2>2. /\ OnlyTask(p) /\ tasks'[p].intent = [id |-> i, nonce |-> sched.nextNonce]
        /\ p \in Tasks
    <3>1. OnlyTask(p) /\ tasks'[p].intent = [id |-> i, nonce |-> sched.nextNonce]
      BY <1>6, BeginsTask
    <3> QED BY <1>6, <3>1 DEF StepBegins
  <2>3. tasks[p].intent = None
    BY <1>1, <1>6, <2>2, Flight DEF StepBegins, At
  <2>4. SUFFICES ASSUME NEW j \in Live(sched'), sched'.entries[j].nonce # None
                 PROVE  \/ \E t \in Tasks : tasks'[t].intent = IntentOf(sched', j)
                        \/ Excused'
    BY ZenonT(30) DEF PinsHeld, Held, IntentOf
  <2>5. CASE j = i /\ sched'.entries[j].nonce = sched.nextNonce
    BY <2>2, <2>5 DEF IntentOf
  <2>6. CASE j \in Live(sched) /\ sched.entries[j].nonce = sched'.entries[j].nonce
    <3>1. Held(IntentOf(sched', j)) \/ Excused
      BY <2>4, <2>6 DEF PinsHeld, IntentOf
    <3>2. CASE Held(IntentOf(sched', j))
      <4>1. PICK t \in Tasks : tasks[t].intent = IntentOf(sched', j)
        BY <3>2 DEF Held
      <4>2. IntentOf(sched', j) # None
        <5>1. j \in Ids /\ sched.entries[j] \in Entry
          BY <2>6, FitNumbers DEF Typed, SchedulerFits
        <5>2. sched'.entries[j].nonce \in Nat
          BY <2>4, <2>6, <5>1 DEF Entry
        <5> QED BY <5>1, <5>2, Sorts DEF IntentOf, Intent
      <4>3. tasks'[t] = tasks[t]
        BY <1>1, <2>2, <2>3, <4>1, <4>2 DEF OnlyTask
      <4> QED BY <4>1, <4>3
    <3> QED BY <2>1, <3>1, <3>2
  <2> QED BY <1>6, <2>4, <2>5, <2>6 DEF StepBegins
<1>7. ASSUME NEW p, NEW done, NEW now, NEW new, NEW amended, NEW todo,
             StepPersists(p, done, now, new, amended, todo)
      PROVE  PinsHeld'
  <2>1. Excused => Excused'
    BY <1>3, <1>7 DEF OneMoves
  <2>2. OnlyTask(p)
    BY <1>7, PersistsTask DEF StepPersists
  <2>3. /\ NoNewPin(sched, done) /\ Fit(done) /\ sched' = DrainClosed(done)
        /\ tasks[p].intent = None \/ ~IntentPinned(done, tasks[p].intent)
    BY <1>7 DEF StepPersists, Turns
  <2>4. Live(sched') = Live(done) /\ sched'.entries = done.entries
    BY <2>3, DrainFits
  <2>5. NoNewPin(sched, sched')
    BY <2>3, <2>4 DEF NoNewPin
  <2>6. tasks[p].intent = None \/ ~IntentPinned(sched', tasks[p].intent)
    BY <2>3, <2>4 DEF IntentPinned
  <2>7. ASSUME NEW t \in Tasks
        PROVE  \/ tasks'[t].intent = tasks[t].intent
               \/ tasks[t].intent = None
               \/ ~IntentPinned(sched', tasks[t].intent)
    <3>1. CASE t = p
      BY <2>6, <3>1
    <3>2. CASE t # p
      BY <1>1, <2>2, <3>2 DEF OnlyTask
    <3> QED BY <3>1, <3>2
  <2> QED BY <2>1, <2>5, <2>7, PinsStay
<1>8. CASE StepQuiet
  BY <1>2, <1>8 DEF StepQuiet
<1>9. ASSUME NEW done, StepTicks(done) PROVE PinsHeld'
  <2>1. /\ NoNewPin(sched, done) /\ Fit(done) /\ sched' = DrainClosed(done)
        /\ tasks' = tasks
    BY <1>9 DEF StepTicks, Calm, Turns
  <2>2. Live(sched') = Live(done) /\ sched'.entries = done.entries
    BY <2>1, DrainFits
  <2>3. NoNewPin(sched, sched')
    BY <2>1, <2>2 DEF NoNewPin
  <2>4. Excused => Excused'
    BY <2>1 DEF Excused, At
  <2>5. \A t \in Tasks : tasks'[t].intent = tasks[t].intent
    BY <2>1
  <2> QED BY <2>3, <2>4, <2>5, PinsStay
<1>12. CASE StepDies
  <2>1. NoNewPin(sched, sched') /\ tasks' = tasks
    BY <1>12 DEF StepDies, Calm
  <2>2. Excused => Excused'
    BY <2>1 DEF Excused, At
  <2>3. \A t \in Tasks : tasks'[t].intent = tasks[t].intent
    BY <2>1
  <2> QED BY <2>1, <2>2, <2>3, PinsStay
<1>13. ASSUME NEW p, NEW new, NEW amended, StepPanics(p, new, amended) PROVE PinsHeld'
  <2>1. NoNewPin(sched, sched') /\ (Excused => Excused')
    BY <1>3, <1>13 DEF StepPanics, OneMoves
  <2>2. OnlyTask(p) /\ tasks[p].intent = None
    BY <1>13, PanicsTask
  <2>3. \A t \in Tasks : tasks'[t].intent = tasks[t].intent \/ tasks[t].intent = None
    BY <1>1, <2>2 DEF OnlyTask
  <2> QED BY <2>1, <2>3, PinsStay
<1>10. ASSUME NEW T, NEW pc, StepDrops(T, pc) PROVE PinsHeld'
  <2>1. \A q \in Procs : IF q \in T /\ ~Ended(q)
                         THEN tasks'[q] = [Idle EXCEPT !.pc = "aborted"]
                         ELSE q # Cleanup => tasks'[q] = tasks[q]
    BY <1>10, DropsTask
  <2>2. \A t \in Tasks : tasks'[t] = tasks[t] \/ tasks'[t].pc = "aborted"
    <3>1. TAKE t \in Tasks
    <3>2. CASE t \in T /\ ~Ended(t)
      BY <1>1, <2>1, <3>2 DEF Idle
    <3> QED BY <1>1, <2>1, <3>2
  <2>3. NoNewPin(sched, sched')
    BY <1>10 DEF StepDrops, NoNewPin
  <2>4. Excused => Excused'
    BY <2>2 DEF Excused, At
  <2>5. \A t \in Tasks : tasks'[t].intent = tasks[t].intent \/ tasks'[t].pc = "aborted"
    BY <2>2
  <2> QED BY <2>3, <2>4, <2>5, PinsStay
<1>11. CASE MailStep
  <2>1. MailMoves
    BY <1>11, MailStepMoves
  <2>2. \A t \in Tasks : /\ tasks'[t].intent = tasks[t].intent
                         /\ tasks'[t].error = tasks[t].error
                         /\ tasks[t].pc = "aborted" => tasks'[t].pc = "aborted"
    BY <1>1, <2>1 DEF MailMoves
  <2>3. NoNewPin(sched, sched')
    BY <2>1 DEF MailMoves, NoNewPin
  <2>4. Excused => Excused'
    BY <2>2 DEF Excused, At
  <2> QED BY <2>2, <2>3, <2>4, PinsStay
<1> QED BY <1>4, <1>5, <1>6, <1>7, <1>8, <1>9, <1>10, <1>11, <1>12, <1>13
        DEF Step, MailStep

-----------------------------------------------------------------------------
(* What the processes carry after a step.                                  *)

LEMMA HoldersApart ==
  /\ "loop" \in Holders /\ \A p \in Procs : p \in Holders /\ p # "loop"
  /\ \A b \in Holders : b \in Procs \/ b = "loop"
  /\ \A c \in Clients : c \in Holders /\ c # "loop" /\ c # Cleanup
BY Sorts DEF Holders

\* A snapshot carried is held, or a message of the queue.
LEMMA CarriedWhere ==
  ASSUME NEW b \in Holders, NEW snap
  PROVE  snap \in Carries(b) <=>
           \/ b = "loop" /\ snap \in Range(loop.todo)
           \/ b # "loop" /\ snap \in Range(tasks[b].todo)
           \/ \E n \in DOMAIN queue : queue[n].by = b /\ queue[n].snap = snap
BY DEF Carries, TodoOf, QueuedBy

LEMMA CarriedWhereNext ==
  ASSUME NEW b \in Holders, NEW snap
  PROVE  snap \in Carries(b)' <=>
           \/ b = "loop" /\ snap \in Range(loop'.todo)
           \/ b # "loop" /\ snap \in Range(tasks'[b].todo)
           \/ \E n \in DOMAIN queue' : queue'[n].by = b /\ queue'[n].snap = snap
BY DEF Carries, TodoOf, QueuedBy

\* What is carried is a snapshot, or the mark of the flush.
LEMMA CarriedTyped ==
  ASSUME Typed, NEW b \in Holders, NEW snap \in Carries(b)
  PROVE  /\ snap \in Snapshot \cup Mark
         /\ snap.id # None => snap \in Snapshot /\ snap.id \in Ids
                              /\ (IsClose(snap) \/ IsContent(snap))
<1>1. snap \in Snapshot \cup Mark
  <2>1. CASE b = "loop" /\ snap \in Range(loop.todo)
    <3>1. loop.todo \in Seq(Snapshot)
      BY DEF Typed, ControlTyped
    <3> QED BY <2>1, <3>1, SnapshotIds
  <2>2. CASE b # "loop" /\ snap \in Range(tasks[b].todo)
    <3>1. tasks[b].todo \in Seq(Snapshot)
      BY <2>2, HoldersApart, TaskFacts
    <3> QED BY <2>2, <3>1, SnapshotIds
  <2>3. CASE \E n \in DOMAIN queue : queue[n].by = b /\ queue[n].snap = snap
    <3>1. PICK n \in DOMAIN queue : queue[n].snap = snap
      BY <2>3
    <3>2. queue \in Seq(Mail)
      BY DEF Typed, HistoryTyped
    <3>3. queue[n] \in Mail
      BY <3>1, <3>2
    <3> QED BY <3>1, <3>3 DEF Mail
  <2> QED BY <2>1, <2>2, <2>3, CarriedWhere
<1>2. snap.id # None => snap \in Snapshot
  BY <1>1 DEF Mark
<1> QED BY <1>1, <1>2 DEF Snapshot, IsClose, IsContent

\* The types of a close.
LEMMA ClosingTyped ==
  ASSUME NEW i \in Ids
  PROVE  /\ Closing(i) \in Snapshot /\ Closing(i).id = i /\ IsClose(Closing(i))
         /\ ~IsContent(Closing(i))
         /\ \A snap \in Snapshot : IsClose(snap) /\ snap.id = i => snap = Closing(i)
BY IdsFinite DEF Closing, Snapshot, IsClose, IsContent

\* Nothing is sent, and every process holds what it held.
LEMMA CarriesSame ==
  ASSUME NEW b \in Holders, queue' = queue,
         IF b = "loop" THEN loop'.todo = loop.todo ELSE tasks'[b].todo = tasks[b].todo
  PROVE  Carries(b)' = Carries(b)
<1>1. \A snap : snap \in Carries(b)' <=> snap \in Carries(b)
  BY CarriedWhere, CarriedWhereNext
<1> QED BY <1>1

\* A task that moves on or ends sends nothing.
LEMMA MovesCarries ==
  ASSUME Typed, Disciplined, NEW p,
         \/ \E task : StepMoves(p, task)
         \/ \E error : StepEnds(p, error)
         \/ \E i : StepBegins(p, i)
         \/ \E new, amended : StepPanics(p, new, amended)
  PROVE  \A b \in Holders : Carries(b)' = Carries(b)
<1>1. MovesFit(p)
  BY OneMovesTask DEF OneMoves
<1>2. tasks'[p].todo = tasks[p].todo
  <2>1. ASSUME NEW task, StepMoves(p, task) PROVE tasks'[p].todo = tasks[p].todo
    <3>1. p \in Procs
      BY <2>1 DEF StepMoves, Procs
    <3> QED BY <2>1, <3>1, ChangesOnly DEF StepMoves
  <2>2. ASSUME NEW error, StepEnds(p, error) PROVE tasks'[p].todo = tasks[p].todo
    BY <2>2, EndsTask DEF StepEnds
  <2>3. ASSUME NEW i, StepBegins(p, i) PROVE tasks'[p].todo = tasks[p].todo
    BY <2>3, BeginsTask
  <2>4. ASSUME NEW new, NEW amended, StepPanics(p, new, amended)
        PROVE  tasks'[p].todo = tasks[p].todo
    BY <2>4, PanicsTask
  <2> QED BY <2>1, <2>2, <2>3, <2>4
<1>3. \A q \in Procs : tasks'[q].todo = tasks[q].todo
  BY <1>1, <1>2 DEF MovesFit, OnlyTask
<1>4. queue' = queue /\ loop' = loop
  BY <1>1 DEF MovesFit, history, control
<1> QED BY <1>3, <1>4, HoldersApart, CarriesSame

\* A process that may go to the scheduler carries nothing.
LEMMA FreeHanded ==
  ASSUME Typed, Disciplined, MailAwaited, NEW p \in Procs,
         tasks[p].pc \notin {"persist", "receipt", "aborted", "flushing"}
  PROVE  Carries(p) = {}
<1>1. ASSUME NEW snap \in Carries(p) PROVE FALSE
  <2>1. tasks[p].todo = <<>>
    BY Flight
  <2>2. snap \notin Range(tasks[p].todo)
    BY <2>1 DEF Range
  <2>3. PICK n \in DOMAIN queue : queue[n].by = p
    BY <1>1, <2>2, HoldersApart, CarriedWhere
  <2> QED BY <2>3, HoldersApart DEF MailAwaited, At
<1> QED BY <1>1

\* The snapshots that a call leaves.
LEMMA PersistsCarries ==
  ASSUME Typed, Disciplined, MailAwaited, NEW p, NEW done, NEW now, NEW new,
         NEW amended, NEW todo, StepPersists(p, done, now, new, amended, todo)
  PROVE  /\ p \in Procs /\ Carries(p) = {} /\ Carries(p)' = Range(todo)
         /\ \A b \in Holders \ {p} : Carries(b)' = Carries(b)
<1>1. /\ p \in Procs /\ tasks[p].pc \in {"ready", "switched"}
      /\ queue' = queue /\ loop' = loop
  BY DEF StepPersists, history, control
<1>2. OnlyTask(p) /\ tasks'[p].todo = todo
  BY PersistsTask DEF StepPersists
<1>3. Carries(p) = {}
  BY <1>1, FreeHanded
<1>4. \A snap : snap \in Carries(p)' <=> snap \in Range(todo)
  BY <1>1, <1>2, <1>3, HoldersApart, CarriedWhere, CarriedWhereNext
<1>5. ASSUME NEW b \in Holders \ {p} PROVE Carries(b)' = Carries(b)
  BY <1>1, <1>2, HoldersApart, CarriesSame DEF OnlyTask
<1> QED BY <1>1, <1>3, <1>4, <1>5

LEMMA DiesCarries ==
  ASSUME StepDies
  PROVE  \A b \in Holders : Carries(b)' = Carries(b)
<1>1. loop.todo = loop'.todo /\ queue' = queue /\ tasks' = tasks
  BY DEF StepDies, history
<1> QED BY <1>1, CarriesSame

LEMMA TicksCarries ==
  ASSUME Typed, Disciplined, NEW done, StepTicks(done)
  PROVE  /\ Carries("loop")' = Carries("loop") \cup {Closing(i) : i \in Closed(done)}
         /\ \A b \in Holders \ {"loop"} : Carries(b)' = Carries(b)
<1>1. /\ loop.todo = <<>> /\ loop'.todo = Drained(done) /\ queue' = queue
      /\ tasks' = tasks /\ Fit(done)
  BY DEF StepTicks, Calm, Turns
<1>2. Range(loop.todo) = {} /\ Range(loop'.todo) = {Closing(i) : i \in Closed(done)}
  <2>1. Range(loop.todo) = {}
    BY <1>1 DEF Range
  <2>2. Range(Drained(done)) = {Closing(i) : i \in Closed(done)}
    BY <1>1, DrainedAll
  <2> QED BY <1>1, <2>1, <2>2
<1>3. \A snap : snap \in Carries("loop")' <=>
                  snap \in Carries("loop") \/ snap \in {Closing(i) : i \in Closed(done)}
  BY <1>1, <1>2, HoldersApart, CarriedWhere, CarriedWhereNext
<1>4. \A b \in Holders \ {"loop"} : Carries(b)' = Carries(b)
  BY <1>1, CarriesSame
<1> QED BY <1>3, <1>4

-----------------------------------------------------------------------------
(* The steps that shed snapshots: into the queue, the database, or nowhere.*)

\* Where a snapshot that b carried is after the step.
Reaches(b, snap) ==
  \/ snap.id = None
  \/ snap \in Carries(b)'
  \/ snap.id \in lost'
  \/ /\ rows'[snap.id].state = snap.state
     /\ snap.state = "closed" => snap.id \in recorded'

\* What a row that changed was written from.
Written(i) ==
  \E b \in Holders : \E snap \in Carries(b) :
    snap.id = i /\ rows'[i].state = snap.state /\ rows'[i].by = b

Sheds ==
  /\ sched' = sched /\ lost \subseteq lost' /\ recorded \subseteq recorded'
  /\ \A b \in Holders : \A snap \in Carries(b)' : snap.id = None \/ snap \in Carries(b)
  /\ \A b \in Holders : \A snap \in Carries(b) : Reaches(b, snap)
  /\ \A i \in Ids : rows'[i] = rows[i] \/ Written(i)

LEMMA DropsSheds ==
  ASSUME Typed, Disciplined, NEW T, NEW pc, StepDrops(T, pc)
  PROVE  Sheds
<1>1. /\ queue' = queue /\ rows' = rows /\ recorded' = recorded /\ loop' = loop
      /\ sched' = sched /\ T \subseteq Tasks
      /\ lost' = lost \cup UNION {Sent(tasks[t].todo) : t \in T}
  BY DEF StepDrops, DropLoses
<1>2. /\ \A q \in Procs : IF q \in T /\ ~Ended(q)
                          THEN tasks'[q] = [Idle EXCEPT !.pc = "aborted"]
                          ELSE q # Cleanup => tasks'[q] = tasks[q]
      /\ tasks'[Cleanup].todo = tasks[Cleanup].todo
  BY DropsTask
<1>3. ASSUME NEW q \in Procs
      PROVE  \/ tasks'[q].todo = tasks[q].todo
             \/ q \in T /\ tasks'[q].todo = <<>>
  <2>1. CASE q \in T /\ ~Ended(q)
    BY <1>2, <2>1 DEF Idle
  <2> QED BY <1>2, <2>1
<1>4. ASSUME NEW b \in Holders, NEW snap \in Carries(b)' PROVE snap \in Carries(b)
  <2>1. CASE b \in Procs /\ tasks'[b].todo = <<>>
    <3>1. snap \notin Range(tasks'[b].todo)
      BY <2>1 DEF Range
    <3> QED BY <1>1, <1>4, <2>1, <3>1, HoldersApart, CarriedWhere, CarriedWhereNext
  <2>2. CASE b \notin Procs \/ tasks'[b].todo = tasks[b].todo
    BY <1>1, <1>4, <2>2, HoldersApart, CarriesSame
  <2> QED BY <1>3, <2>1, <2>2
<1>5. ASSUME NEW b \in Holders, NEW snap \in Carries(b) PROVE Reaches(b, snap)
  <2>1. CASE b \in T /\ tasks'[b].todo = <<>> /\ snap \in Range(tasks[b].todo)
    <3>1. tasks[b].todo \in Seq(Snapshot)
      BY <1>1, <2>1, TaskFacts DEF Procs
    <3>2. snap.id \in Sent(tasks[b].todo)
      BY <2>1, <3>1, SnapshotIds
    <3>3. snap.id \in lost'
      BY <1>1, <2>1, <3>2
    <3> QED BY <3>3 DEF Reaches
  <2>2. CASE snap \notin Range(tasks[b].todo) /\ b \in Procs
    <3>1. snap \in Carries(b)'
      BY <1>1, <1>5, <2>2, HoldersApart, CarriedWhere, CarriedWhereNext
    <3> QED BY <3>1 DEF Reaches
  <2>3. CASE b \notin Procs \/ tasks'[b].todo = tasks[b].todo
    <3>1. snap \in Carries(b)'
      BY <1>1, <1>5, <2>3, HoldersApart, CarriesSame
    <3> QED BY <3>1 DEF Reaches
  <2> QED BY <1>3, <2>1, <2>2, <2>3
<1> QED BY <1>1, <1>4, <1>5 DEF Sheds

LEMMA PersistSheds ==
  ASSUME Typed, NEW p \in Procs, Persist(p)
  PROVE  Sheds
<1>1. PICK snap : snap = Head(tasks[p].todo)
  OBVIOUS
<1>2. /\ rows' = rows /\ recorded' = recorded /\ loop' = loop /\ snap \in Snapshot
      /\ IF Room > 0 THEN lost' = lost /\ \E x : Posts(x, Message(snap, p))
         ELSE queue' = queue /\ lost' = lost \cup {snap.id}
  BY <1>1, PersistMail
<1>3. OnlyTask(p) /\ tasks[p].todo # <<>> /\ tasks'[p].todo = Tail(tasks[p].todo)
  BY PersistTask
<1>4. Range(tasks[p].todo) = {snap} \cup Range(tasks'[p].todo)
  BY <1>1, <1>3, TaskFacts, TailRange
<1>5. sched' = sched /\ p # "loop" /\ p \in Holders
  BY HoldersApart DEF Persist
<1>6. ASSUME NEW b \in Holders \ {p}
      PROVE  IF b = "loop" THEN loop'.todo = loop.todo ELSE tasks'[b].todo = tasks[b].todo
  BY <1>2, <1>3, HoldersApart DEF OnlyTask
<1>7. CASE Room > 0
  <2>1. PICK x : Posts(x, Message(snap, p))
    BY <1>2, <1>7
  <2>2. Message(snap, p).snap = snap /\ Message(snap, p).by = p
    BY DEF Message
  <2>3. /\ DOMAIN queue' = DOMAIN queue \cup {x} /\ x \notin DOMAIN queue
        /\ queue'[x].snap = snap /\ queue'[x].by = p
        /\ \A n \in DOMAIN queue : queue'[n] = queue[n]
    BY <2>1, <2>2 DEF Posts
  <2>4. ASSUME NEW b \in Holders, NEW s2
        PROVE  s2 \in Carries(b)' <=> s2 \in Carries(b)
    <3>1. CASE b = p
      <4>1. s2 \in Carries(b)' <=> \/ s2 \in Range(tasks'[p].todo) \/ s2 = snap
                                   \/ \E n \in DOMAIN queue : queue[n].by = b /\ queue[n].snap = s2
        BY <1>5, <2>3, <3>1, CarriedWhereNext
      <4>2. s2 \in Carries(b) <=> \/ s2 \in Range(tasks'[p].todo) \/ s2 = snap
                                  \/ \E n \in DOMAIN queue : queue[n].by = b /\ queue[n].snap = s2
        BY <1>4, <1>5, <3>1, CarriedWhere
      <4> QED BY <4>1, <4>2
    <3>2. CASE b # p
      <4>1. (\E n \in DOMAIN queue' : queue'[n].by = b /\ queue'[n].snap = s2)
              <=> (\E n \in DOMAIN queue : queue[n].by = b /\ queue[n].snap = s2)
        BY <2>3, <3>2
      <4> QED BY <1>6, <3>2, <4>1, CarriedWhere, CarriedWhereNext
    <3> QED BY <3>1, <3>2
  <2> QED BY <1>2, <1>5, <1>7, <2>4 DEF Sheds, Reaches
<1>8. CASE ~(Room > 0)
  <2>1. queue' = queue /\ lost' = lost \cup {snap.id}
    BY <1>2, <1>8
  <2>2. ASSUME NEW b \in Holders \ {p} PROVE Carries(b)' = Carries(b)
    BY <1>6, <2>1, CarriesSame
  <2>3. ASSUME NEW s2 PROVE s2 \in Carries(p) <=> s2 \in Carries(p)' \/ s2 = snap
    BY <1>4, <1>5, <2>1, CarriedWhere, CarriedWhereNext
  <2>4. \A b \in Holders : \A s2 \in Carries(b) : s2 \in Carries(b)' \/ s2 = snap
    BY <2>2, <2>3
  <2>5. \A b \in Holders : \A s2 \in Carries(b)' : s2 \in Carries(b)
    BY <2>2, <2>3
  <2> QED BY <1>2, <1>5, <2>1, <2>4, <2>5 DEF Sheds, Reaches
<1> QED BY <1>7, <1>8

LEMMA EnqueueSheds ==
  ASSUME Typed, Enqueue
  PROVE  Sheds
<1>1. /\ rows' = rows /\ recorded' = recorded /\ lost \subseteq lost'
      /\ loop'.todo = <<>>
      /\ DOMAIN queue \subseteq DOMAIN queue'
      /\ \A n \in DOMAIN queue : queue'[n] = queue[n]
      /\ \A n \in DOMAIN queue' \ DOMAIN queue :
           \E snap \in Range(loop.todo) : queue'[n] = Message(snap, "loop")
      /\ \A snap \in Range(loop.todo) :
           \/ snap.id \in lost'
           \/ \E n \in DOMAIN queue' \ DOMAIN queue :
                queue'[n] = Message(snap, "loop")
  BY EnqueueMail
<1>2. sched' = sched /\ tasks' = tasks
  BY DEF Enqueue
<1>3. \A snap : Message(snap, "loop").snap = snap /\ Message(snap, "loop").by = "loop"
  BY DEF Message
<1>4. Range(loop'.todo) = {}
  BY <1>1 DEF Range
<1>5. ASSUME NEW b \in Holders, NEW snap \in Carries(b)' PROVE snap \in Carries(b)
  <2>1. CASE \E n \in DOMAIN queue : queue'[n].by = b /\ queue'[n].snap = snap
    BY <1>1, <2>1, CarriedWhere
  <2>2. CASE \E n \in DOMAIN queue' \ DOMAIN queue : queue'[n].by = b /\ queue'[n].snap = snap
    BY <1>1, <1>3, <2>2, CarriedWhere
  <2>3. CASE b # "loop" /\ snap \in Range(tasks'[b].todo)
    BY <1>2, <2>3, CarriedWhere
  <2> QED BY <1>1, <1>4, <1>5, <2>1, <2>2, <2>3, CarriedWhereNext
<1>6. ASSUME NEW b \in Holders, NEW snap \in Carries(b) PROVE Reaches(b, snap)
  <2>1. CASE \E n \in DOMAIN queue : queue[n].by = b /\ queue[n].snap = snap
    <3>1. snap \in Carries(b)'
      BY <1>1, <2>1, CarriedWhereNext
    <3> QED BY <3>1 DEF Reaches
  <2>2. CASE b = "loop" /\ snap \in Range(loop.todo)
    <3>1. snap.id \in lost' \/ snap \in Carries(b)'
      BY <1>1, <1>3, <2>2, CarriedWhereNext
    <3> QED BY <3>1 DEF Reaches
  <2>3. CASE b # "loop" /\ snap \in Range(tasks[b].todo)
    <3>1. snap \in Carries(b)'
      BY <1>2, <2>3, CarriedWhereNext
    <3> QED BY <3>1 DEF Reaches
  <2> QED BY <1>6, <2>1, <2>2, <2>3, CarriedWhere
<1> QED BY <1>1, <1>2, <1>5, <1>6 DEF Sheds

\* Taking the first message takes its snapshot from its sender, and no other.
LEMMA TakesCarries ==
  ASSUME NEW entry, Takes(entry), loop' = loop,
         \A q \in Procs : tasks'[q].todo = tasks[q].todo,
         NEW b \in Holders, NEW snap
  PROVE  /\ snap \in Carries(b)' => snap \in Carries(b)
         /\ snap \in Carries(b) =>
              snap \in Carries(b)' \/ (snap = entry.snap /\ b = entry.by)
         /\ entry.by \in Holders => entry.snap \in Carries(entry.by)
<1>1. /\ 1 \in DOMAIN queue /\ queue[1] = entry
      /\ \A n \in DOMAIN queue' : n + 1 \in DOMAIN queue /\ queue'[n] = queue[n + 1]
      /\ \A n \in DOMAIN queue :
           n = 1 \/ (n - 1 \in DOMAIN queue' /\ queue'[n - 1] = queue[n])
  BY DEF Takes
<1>2. IF b = "loop" THEN loop'.todo = loop.todo ELSE tasks'[b].todo = tasks[b].todo
  BY HoldersApart
<1>3. (\E n \in DOMAIN queue' : queue'[n].by = b /\ queue'[n].snap = snap) =>
        (\E n \in DOMAIN queue : queue[n].by = b /\ queue[n].snap = snap)
  BY <1>1
<1>4. (\E n \in DOMAIN queue : queue[n].by = b /\ queue[n].snap = snap) =>
        \/ \E n \in DOMAIN queue' : queue'[n].by = b /\ queue'[n].snap = snap
        \/ snap = entry.snap /\ b = entry.by
  BY <1>1
<1>5. entry.by \in Holders => entry.snap \in Carries(entry.by)
  BY <1>1, CarriedWhere
<1> QED BY <1>2, <1>3, <1>4, <1>5, CarriedWhere, CarriedWhereNext

LEMMA WriteSheds ==
  ASSUME Typed, Write
  PROVE  Sheds
<1>1. PICK entry \in Mail :
        /\ Takes(entry) /\ entry.snap \in Snapshot
        /\ tasks' = Receipt(entry) /\ loop' = loop
        /\ lost \subseteq lost' /\ recorded \subseteq recorded'
        /\ \A i \in Ids \ {entry.snap.id} : rows'[i] = rows[i]
        /\ \/ entry.snap.id \in lost' /\ rows' = rows
           \/ /\ rows'[entry.snap.id].state = entry.snap.state
              /\ rows'[entry.snap.id].by = entry.by
              /\ entry.snap.state = "closed" => entry.snap.id \in recorded'
  BY WriteMail
<1>2. \A q \in Procs : tasks'[q].todo = tasks[q].todo
  BY <1>1, ReceiptTask DEF OnlyTask
<1>3. sched' = sched
  BY DEF Write
<1>4. entry.by \in Holders
  BY <1>1 DEF Mail, Holders
<1>5. \A b \in Holders : \A snap \in Carries(b)' : snap.id = None \/ snap \in Carries(b)
  BY <1>1, <1>2, TakesCarries
<1>6. ASSUME NEW b \in Holders, NEW snap \in Carries(b) PROVE Reaches(b, snap)
  <2>1. snap \in Carries(b)' \/ snap = entry.snap
    BY <1>1, <1>2, <1>6, TakesCarries
  <2> QED BY <1>1, <2>1 DEF Reaches
<1>7. entry.snap \in Carries(entry.by)
  BY <1>1, <1>2, <1>4, TakesCarries
<1>8. ASSUME NEW i \in Ids PROVE rows'[i] = rows[i] \/ Written(i)
  <2>1. CASE i # entry.snap.id \/ rows' = rows
    BY <1>1, <2>1
  <2>2. CASE i = entry.snap.id /\ rows' # rows
    BY <1>1, <1>4, <1>7, <2>2 DEF Written
  <2> QED BY <2>1, <2>2
<1> QED BY <1>1, <1>3, <1>5, <1>6, <1>8 DEF Sheds

LEMMA FlushedSheds ==
  ASSUME Typed, Flushed
  PROVE  Sheds
<1>1. /\ rows' = rows /\ recorded' = recorded /\ lost' = lost /\ loop' = loop
      /\ Takes(Head(queue)) /\ Head(queue).snap.id = None
      /\ OnlyTask(Cleanup) /\ tasks'[Cleanup].todo = tasks[Cleanup].todo
  BY FlushedMail
<1>2. \A q \in Procs : tasks'[q].todo = tasks[q].todo
  BY <1>1 DEF OnlyTask
<1>3. sched' = sched
  BY DEF Flushed
<1>4. \A b \in Holders : \A snap \in Carries(b)' : snap.id = None \/ snap \in Carries(b)
  BY <1>1, <1>2, TakesCarries
<1>5. ASSUME NEW b \in Holders, NEW snap \in Carries(b) PROVE Reaches(b, snap)
  <2>1. snap \in Carries(b)' \/ snap = Head(queue).snap
    BY <1>1, <1>2, <1>5, TakesCarries
  <2> QED BY <1>1, <2>1 DEF Reaches
<1> QED BY <1>1, <1>3, <1>4, <1>5 DEF Sheds

LEMMA FlushSheds ==
  ASSUME Typed, Flush
  PROVE  Sheds
<1>1. /\ rows' = rows /\ recorded' = recorded /\ lost' = lost /\ loop' = loop
      /\ OnlyTask(Cleanup) /\ tasks'[Cleanup].todo = tasks[Cleanup].todo
      /\ \/ \E x : Posts(x, Message([id |-> None], Cleanup))
         \/ queue' = queue
  BY FlushMail
<1>2. sched' = sched
  BY DEF Flush
<1>3. \A q \in Procs : tasks'[q].todo = tasks[q].todo
  BY <1>1 DEF OnlyTask
<1>4. CASE queue' = queue
  <2>1. \A b \in Holders : Carries(b)' = Carries(b)
    BY <1>1, <1>3, <1>4, HoldersApart, CarriesSame
  <2> QED BY <1>1, <1>2, <2>1 DEF Sheds, Reaches
<1>5. CASE \E x : Posts(x, Message([id |-> None], Cleanup))
  <2>1. PICK x : Posts(x, Message([id |-> None], Cleanup))
    BY <1>5
  <2>2. /\ DOMAIN queue' = DOMAIN queue \cup {x}
        /\ queue'[x].snap.id = None
        /\ \A n \in DOMAIN queue : queue'[n] = queue[n]
    BY <2>1 DEF Posts, Message
  <2>3. ASSUME NEW b \in Holders, NEW snap \in Carries(b)'
        PROVE  snap.id = None \/ snap \in Carries(b)
    <3>1. CASE \E n \in DOMAIN queue : queue'[n].by = b /\ queue'[n].snap = snap
      BY <2>2, <3>1, CarriedWhere
    <3>2. CASE queue'[x].snap = snap
      BY <2>2, <3>2
    <3>3. CASE \/ b = "loop" /\ snap \in Range(loop'.todo)
               \/ b # "loop" /\ snap \in Range(tasks'[b].todo)
      BY <1>1, <1>3, <3>3, HoldersApart, CarriedWhere
    <3> QED BY <2>2, <2>3, <3>1, <3>2, <3>3, CarriedWhereNext
  <2>4. ASSUME NEW b \in Holders, NEW snap \in Carries(b) PROVE snap \in Carries(b)'
    <3>1. CASE \E n \in DOMAIN queue : queue[n].by = b /\ queue[n].snap = snap
      BY <2>2, <3>1, CarriedWhereNext
    <3>2. CASE \/ b = "loop" /\ snap \in Range(loop.todo)
               \/ b # "loop" /\ snap \in Range(tasks[b].todo)
      BY <1>1, <1>3, <3>2, HoldersApart, CarriedWhereNext
    <3> QED BY <2>4, <3>1, <3>2, CarriedWhere
  <2> QED BY <1>1, <1>2, <2>3, <2>4 DEF Sheds, Reaches
<1> QED BY <1>1, <1>4, <1>5

LEMMA MailSheds ==
  ASSUME Typed, MailStep
  PROVE  Sheds
BY PersistSheds, WriteSheds, FlushedSheds, EnqueueSheds, FlushSheds DEF MailStep

-----------------------------------------------------------------------------
(* History stays sound.                                                    *)

LEMMA MailAwaitedKept ==
  ASSUME Typed, Disciplined, MailAwaited, Step
  PROVE  MailAwaited'
<1>1. \A n \in DOMAIN queue : queue[n].by \in Procs \cup {"loop"}
  <2>1. queue \in Seq(Mail)
    BY DEF Typed, HistoryTyped
  <2>2. \A n \in DOMAIN queue : queue[n] \in Mail
    BY <2>1
  <2> QED BY <2>2 DEF Mail
<1>2. Cleanup \in Procs /\ Cleanup # "loop" /\ (\A p \in Procs : p # "loop")
  BY Sorts
<1>3. ASSUME queue' = queue, NEW p, OnlyTask(p),
             tasks[p].pc \notin {"receipt", "aborted", "flushing"}
      PROVE  MailAwaited'
  <2>1. \A n \in DOMAIN queue : queue[n].by # "loop" => tasks'[queue[n].by] = tasks[queue[n].by]
    BY <1>1, <1>2, <1>3 DEF MailAwaited, OnlyTask, At
  <2>2. \A n \in DOMAIN queue : queue[n].snap.id = None => tasks'[Cleanup] = tasks[Cleanup]
    BY <1>2, <2>1 DEF MailAwaited
  <2> QED BY <1>3, <2>1, <2>2 DEF MailAwaited, At
<1>4. CASE queue' = queue /\ tasks' = tasks
  BY <1>4 DEF MailAwaited, At
<1>5. CASE StepQuiet \/ StepDies \/ \E done : StepTicks(done)
  BY <1>4, <1>5 DEF StepQuiet, StepDies, StepTicks, history
<1>6. ASSUME NEW p, OneMoves(p) PROVE MailAwaited'
  BY <1>3, <1>6, OneMovesTask DEF MovesFit, history
<1>7. ASSUME NEW T, NEW pc, StepDrops(T, pc) PROVE MailAwaited'
  <2>1. /\ \A q \in Procs : IF q \in T /\ ~Ended(q)
                            THEN tasks'[q] = [Idle EXCEPT !.pc = "aborted"]
                            ELSE q # Cleanup => tasks'[q] = tasks[q]
        /\ tasks'[Cleanup].pc = pc
    BY <1>7, DropsTask
  <2>2. tasks[Cleanup].pc # "idle" => pc = tasks[Cleanup].pc
    BY <1>7 DEF StepDrops, Disciplined, Emptied, Ending
  <2>3. Cleanup \notin T /\ queue' = queue
    BY <1>7, Sorts DEF StepDrops
  <2>4. ASSUME NEW q \in Procs
        PROVE  /\ At(q, "receipt") \/ At(q, "aborted") =>
                    tasks'[q].pc \in {"receipt", "aborted"}
               /\ q = Cleanup /\ At(q, "flushing") => tasks'[q].pc = "flushing"
    <3>1. CASE q \in T /\ ~Ended(q)
      BY <2>1, <2>3, <3>1 DEF Idle
    <3>2. CASE q = Cleanup
      BY <1>2, <2>1, <2>2, <3>2, Flight DEF At, Typed, TasksTyped, PlacesOfCleanup
    <3> QED BY <2>1, <3>1, <3>2 DEF At
  <2> QED BY <1>1, <1>2, <2>3, <2>4 DEF MailAwaited, At
<1>8. ASSUME NEW p \in Procs, Persist(p) PROVE MailAwaited'
  <2>1. /\ OnlyTask(p) /\ tasks[p].pc = "persist"
        /\ tasks'[p].pc = IF Room > 0 THEN "receipt" ELSE "persist"
    BY <1>8, PersistTask DEF Persist, At
  <2>2. CASE ~(Room > 0)
    <3>1. queue' = queue
      BY <1>8, <2>2, PersistMail
    <3> QED BY <1>3, <2>1, <3>1
  <2>3. CASE Room > 0
    <3>1. PICK snap \in Snapshot : snap = Head(tasks[p].todo)
      BY <1>8, PersistMail
    <3>2. PICK x : Posts(x, Message(snap, p))
      BY <1>8, <2>3, <3>1, PersistMail
    <3>3. /\ DOMAIN queue' = DOMAIN queue \cup {x} /\ x \notin DOMAIN queue
          /\ queue'[x].snap.id # None /\ queue'[x].by = p
          /\ \A n \in DOMAIN queue : queue'[n] = queue[n]
      BY <3>1, <3>2, IdsFinite DEF Posts, Message, Snapshot
    <3>4. \A n \in DOMAIN queue : queue[n].by # p
      <4>1. ASSUME NEW n \in DOMAIN queue, queue[n].by = p PROVE FALSE
        BY <1>2, <2>1, <4>1 DEF MailAwaited, At
      <4> QED BY <4>1
    <3>5. \A n \in DOMAIN queue : queue[n].by # "loop" =>
            tasks'[queue[n].by] = tasks[queue[n].by]
      BY <1>1, <2>1, <3>4 DEF OnlyTask
    <3>6. tasks'[p].pc = "receipt"
      BY <2>1, <2>3
    <3> QED BY <1>2, <3>3, <3>4, <3>5, <3>6 DEF MailAwaited, At
  <2> QED BY <2>2, <2>3
<1>9. ASSUME NEW entry, Takes(entry), NEW p, tasks' = tasks \/ (OnlyTask(p) /\ entry.by = p),
             entry.by # "loop" \/ tasks' = tasks
      PROVE  MailAwaited'
  <2>1. /\ 1 \in DOMAIN queue /\ queue[1] = entry
        /\ \A n \in DOMAIN queue' :
             n \in Nat /\ n + 1 \in DOMAIN queue /\ queue'[n] = queue[n + 1]
        /\ \A n \in DOMAIN queue : n \in Nat /\ (n = 1 \/ n - 1 \in DOMAIN queue')
    BY <1>9 DEF Takes
  <2>2. \A m, n \in DOMAIN queue' :
          queue'[m].by = queue'[n].by /\ queue'[m].by # "loop" => m = n
    <3>1. ASSUME NEW m \in DOMAIN queue', NEW n \in DOMAIN queue',
                 queue'[m].by = queue'[n].by, queue'[m].by # "loop"
          PROVE  m = n
      <4>1. m + 1 = n + 1
        BY <2>1, <3>1 DEF MailAwaited
      <4> QED BY <2>1, <4>1
    <3> QED BY <3>1
  <2>3. ASSUME NEW n \in DOMAIN queue', queue'[n].by # "loop"
        PROVE  tasks'[queue'[n].by] = tasks[queue'[n].by]
    <3>1. CASE queue'[n].by = entry.by
      <4>1. n + 1 = 1
        BY <2>1, <2>3, <3>1 DEF MailAwaited
      <4>2. queue' \in Seq(Mail) /\ n \in DOMAIN queue'
        BY <1>9, <2>3 DEF Takes
      <4>3. n \in 1 .. Len(queue')
        BY <4>2
      <4> QED BY <4>1, <4>3
    <3>2. CASE queue'[n].by # entry.by
      BY <1>1, <1>9, <2>1, <2>3, <3>2 DEF OnlyTask
    <3> QED BY <3>1, <3>2
  <2>4. \A n \in DOMAIN queue' :
          IF queue'[n].snap.id = None
          THEN queue'[n].by = Cleanup /\ At(Cleanup, "flushing")
          ELSE queue'[n].by # "loop" =>
                 At(queue'[n].by, "receipt") \/ At(queue'[n].by, "aborted")
    BY <2>1 DEF MailAwaited
  <2> QED BY <1>2, <2>2, <2>3, <2>4 DEF MailAwaited, At
<1>10. CASE Write
  <2>1. PICK entry \in Mail : Takes(entry) /\ tasks' = Receipt(entry)
    BY <1>10, WriteMail
  <2>2. tasks' = tasks \/ OnlyTask(entry.by)
    BY <2>1, ReceiptTask
  <2>3. OnlyTask(entry.by) => entry.by # "loop"
    BY <1>2 DEF OnlyTask
  <2> QED BY <1>9, <2>1, <2>2, <2>3
<1>11. CASE Flushed
  <2>1. Takes(Head(queue)) /\ Head(queue).snap.id = None /\ OnlyTask(Cleanup)
    BY <1>11, FlushedMail
  <2>2. Head(queue).by = Cleanup
    BY <2>1 DEF Takes, MailAwaited
  <2> QED BY <1>2, <1>9, <2>1, <2>2
<1>12. CASE Enqueue
  <2>1. /\ DOMAIN queue \subseteq DOMAIN queue'
        /\ \A n \in DOMAIN queue : queue'[n] = queue[n]
        /\ \A n \in DOMAIN queue' \ DOMAIN queue :
             \E snap \in Range(loop.todo) : queue'[n] = Message(snap, "loop")
    BY <1>12, EnqueueMail
  <2>2. \A snap \in Range(loop.todo) : snap.id # None
    <3>1. loop.todo \in Seq(Snapshot)
      BY DEF Typed, ControlTyped
    <3> QED BY <3>1, SnapshotIds, IdsFinite DEF Snapshot
  <2>3. \A n \in DOMAIN queue' \ DOMAIN queue :
          queue'[n].by = "loop" /\ queue'[n].snap.id # None
    BY <2>1, <2>2 DEF Message
  <2>4. tasks' = tasks
    BY <1>12 DEF Enqueue
  <2> QED BY <2>1, <2>3, <2>4 DEF MailAwaited, At
<1>13. CASE Flush
  <2>1. OnlyTask(Cleanup) /\ tasks[Cleanup].pc = "persist"
    BY <1>13, FlushMail DEF Flush, At
  <2>2. CASE queue' = queue
    BY <1>3, <2>1, <2>2
  <2>3. CASE /\ tasks'[Cleanup].pc = "flushing"
             /\ \E x : Posts(x, Message([id |-> None], Cleanup))
    <3>1. PICK x : Posts(x, Message([id |-> None], Cleanup))
      BY <2>3
    <3>2. /\ DOMAIN queue' = DOMAIN queue \cup {x} /\ x \notin DOMAIN queue
          /\ queue'[x].snap.id = None /\ queue'[x].by = Cleanup
          /\ \A n \in DOMAIN queue : queue'[n] = queue[n]
      BY <3>1 DEF Posts, Message
    <3>3. \A n \in DOMAIN queue : queue[n].by # Cleanup /\ queue[n].snap.id # None
      <4>1. ASSUME NEW n \in DOMAIN queue, queue[n].by = Cleanup \/ queue[n].snap.id = None
            PROVE  FALSE
        BY <1>2, <2>1, <4>1 DEF MailAwaited, At
      <4> QED BY <4>1
    <3>4. \A n \in DOMAIN queue : queue[n].by # "loop" =>
            tasks'[queue[n].by] = tasks[queue[n].by]
      BY <1>1, <2>1, <3>3 DEF OnlyTask
    <3> QED BY <1>2, <2>3, <3>2, <3>3, <3>4 DEF MailAwaited, At
  <2> QED BY <1>13, <2>2, <2>3, FlushMail
<1> QED BY <1>5, <1>6, <1>7, <1>8, <1>10, <1>11, <1>12, <1>13 DEF Step, OneMoves

\* A client that is done, or about to be, carries nothing.
LEMMA EmptyHanded ==
  ASSUME Typed, Disciplined, MailAwaited, NEW c \in Clients, tasks[c].todo = <<>>,
         tasks[c].pc \notin {"receipt", "aborted"}
  PROVE  Carries(c) = {}
<1>1. ASSUME NEW snap \in Carries(c) PROVE FALSE
  <2>1. snap \notin Range(tasks[c].todo)
    BY DEF Range
  <2>2. PICK n \in DOMAIN queue : queue[n].by = c
    BY <1>1, <2>1, HoldersApart, CarriedWhere
  <2> QED BY <2>2, HoldersApart DEF MailAwaited, At
<1> QED BY <1>1

\* The mark of the flush is the cleanup's.
LEMMA NoMarks ==
  ASSUME Typed, MailAwaited, NEW b \in Holders \ {Cleanup}, NEW snap \in Carries(b)
  PROVE  snap.id # None
<1>1. CASE b = "loop" /\ snap \in Range(loop.todo)
  <2>1. loop.todo \in Seq(Snapshot)
    BY DEF Typed, ControlTyped
  <2> QED BY <1>1, <2>1, SnapshotIds, IdsFinite DEF Snapshot
<1>2. CASE b # "loop" /\ snap \in Range(tasks[b].todo)
  <2>1. tasks[b].todo \in Seq(Snapshot)
    BY <1>2, HoldersApart, TaskFacts
  <2> QED BY <1>2, <2>1, SnapshotIds, IdsFinite DEF Snapshot
<1>3. CASE \E n \in DOMAIN queue : queue[n].by = b /\ queue[n].snap = snap
  BY <1>3 DEF MailAwaited
<1> QED BY <1>1, <1>2, <1>3, CarriedWhere

\* Shedding gives a client nothing to carry.
LEMMA ShedsNothingNew ==
  ASSUME Typed', MailAwaited', Sheds, NEW c \in Clients, Carries(c)' # {}
  PROVE  Carries(c) # {}
<1>1. PICK snap : snap \in Carries(c)'
  OBVIOUS
<1>2. c \in Holders /\ c \in Procs /\ c # Cleanup /\ c # "loop"
  BY HoldersApart, Sorts
<1>3. CASE snap \in Range(tasks'[c].todo)
  <2>1. tasks'[c] \in Task
    BY <1>2 DEF Typed, TasksTyped
  <2>2. tasks'[c].todo \in Seq(Snapshot)
    BY <2>1 DEF Task
  <2>3. snap.id # None
    BY <1>3, <2>2, SnapshotIds, IdsFinite DEF Snapshot
  <2> QED BY <1>1, <1>2, <2>3 DEF Sheds
<1>4. CASE \E n \in DOMAIN queue' : queue'[n].by = c /\ queue'[n].snap = snap
  <2>1. snap.id # None
    BY <1>2, <1>4 DEF MailAwaited
  <2> QED BY <1>1, <1>2, <2>1 DEF Sheds
<1> QED BY <1>1, <1>2, <1>3, <1>4, CarriedWhereNext

\* One client at a time carries snapshots.
LEMMA OneClientKept ==
  ASSUME Typed, Disciplined, MailAwaited, OneClient, Step
  PROVE  OneClient'
<1>1. Typed' /\ MailAwaited'
  BY TypedKept, MailAwaitedKept
<1>2. \A c \in Clients : c \in Procs /\ c \in Tasks /\ c \in Holders /\ c # None /\ c # Cleanup
  BY Sorts, HoldersApart
<1>3. ASSUME \A c \in Clients : Carries(c)' # {} => Carries(c) # {},
             \A c \in Clients : Carries(c) # {} /\ At(c, "aborted") => tasks'[c].pc = "aborted",
             order' = order
      PROVE  OneClient'
  BY <1>3 DEF OneClient, At
<1>4. ASSUME \A c \in Clients : Carries(c)' = {}
      PROVE  OneClient'
  BY <1>4 DEF OneClient
<1>5. CASE StepQuiet \/ StepDies \/ \E done : StepTicks(done)
  <2>1. tasks' = tasks /\ order' = order /\ queue' = queue
    BY <1>5 DEF StepQuiet, StepDies, StepTicks, history
  <2>2. \A c \in Clients : Carries(c)' = Carries(c)
    BY <1>2, <2>1, CarriesSame, HoldersApart
  <2> QED BY <1>3, <2>1, <2>2 DEF At
<1>6. ASSUME NEW p,
             \/ \E task : StepMoves(p, task)
             \/ \E error : StepEnds(p, error)
             \/ \E i : StepBegins(p, i)
             \/ \E new, amended : StepPanics(p, new, amended)
      PROVE  OneClient'
  <2>1. \A b \in Holders : Carries(b)' = Carries(b)
    BY <1>6, MovesCarries
  <2>2. MovesFit(p)
    BY <1>6, OneMovesTask DEF OneMoves
  <2>3. \A c \in Clients : At(c, "aborted") => tasks'[c].pc = "aborted"
    BY <1>2, <2>2 DEF MovesFit, OnlyTask, At
  <2>4. CASE order' = order
    BY <1>2, <1>3, <2>1, <2>3, <2>4
  <2>5. CASE order = None /\ p \in Clients /\ At(p, "waiting")
    <3>1. \A c \in Clients : ~At(c, "aborted")
      BY <1>2, <2>5, Flight DEF Disciplined, Winding, At
    <3>2. \A c \in Clients : Carries(c) = {}
      BY <1>2, <2>5, <3>1 DEF OneClient
    <3> QED BY <1>2, <1>4, <2>1, <3>2
  <2>6. CASE order = p /\ order' = None /\ tasks'[p].pc = "answered"
    <3>1. p \in Clients => Carries(p) = {}
      <4>1. HAVE p \in Clients
      <4>2. tasks'[p].todo = <<>>
        BY <2>2, <2>6 DEF MovesFit, HoldsFit
      <4>3. tasks'[p].pc \notin {"receipt", "aborted"}
        BY <2>6
      <4>4. Disciplined'
        BY DisciplinedKept
      <4>5. \A n \in DOMAIN queue' : queue'[n].by # p
        BY <1>1, <1>2, <4>1, <2>6, HoldersApart DEF MailAwaited, At
      <4>6. \A snap : snap \notin Carries(p)'
        BY <1>2, <4>1, <4>2, <4>5, HoldersApart, CarriedWhereNext DEF Range
      <4> QED BY <1>2, <2>1, <4>1, <4>6
    <3>3. p # None
      BY <2>2, Sorts DEF MovesFit, OnlyTask
    <3>2. \A c \in Clients : Carries(c) = {}
      BY <1>2, <2>6, <3>1, <3>3 DEF OneClient
    <3> QED BY <1>2, <1>4, <2>1, <3>2
  <2> QED BY <2>2, <2>4, <2>5, <2>6 DEF MovesFit
<1>7. ASSUME NEW p, NEW done, NEW now, NEW new, NEW amended, NEW todo,
             StepPersists(p, done, now, new, amended, todo)
      PROVE  OneClient'
  <2>1. /\ p \in Procs /\ Carries(p) = {} /\ Carries(p)' = Range(todo)
        /\ \A b \in Holders \ {p} : Carries(b)' = Carries(b)
    BY <1>7, PersistsCarries
  <2>2. MovesFit(p)
    BY <1>7, OneMovesTask DEF OneMoves
  <2>3. order' = order /\ tasks[p].pc \in {"ready", "switched"}
    BY <1>7 DEF StepPersists
  <2>4. \A c \in Clients : At(c, "aborted") => tasks'[c].pc = "aborted"
    BY <1>2, <2>2 DEF MovesFit, OnlyTask, At
  <2>5. CASE p \notin Clients
    BY <1>2, <1>3, <2>1, <2>3, <2>4, <2>5
  <2>6. CASE p \in Clients
    <3>1. order = p
      BY <2>1, <2>3, <2>6, Flight
    <3>2. \A c \in Clients : Carries(c) = {}
      BY <1>2, <2>1, <2>6, <3>1 DEF OneClient
    <3>3. \A c \in Clients : c # p => Carries(c)' = {}
      BY <1>2, <2>1, <3>2
    <3> QED BY <2>3, <3>1, <3>3 DEF OneClient
  <2> QED BY <2>5, <2>6
<1>8. ASSUME NEW T, NEW pc, StepDrops(T, pc) PROVE OneClient'
  <2>1. Sheds
    BY <1>8, DropsSheds
  <2>2. \A c \in Clients : Carries(c)' # {} => Carries(c) # {}
    BY <1>1, <2>1, ShedsNothingNew
  <2>3. \A q \in Procs : IF q \in T /\ ~Ended(q)
                         THEN tasks'[q] = [Idle EXCEPT !.pc = "aborted"]
                         ELSE q # Cleanup => tasks'[q] = tasks[q]
    BY <1>8, DropsTask
  <2>4. ASSUME NEW c \in Clients, Carries(c)' # {}, c \in T \/ At(c, "aborted")
        PROVE  tasks'[c].pc = "aborted"
    <3>1. CASE c \in T /\ ~Ended(c)
      BY <1>2, <2>3, <3>1 DEF Idle
    <3>2. CASE ~(c \in T /\ ~Ended(c))
      <4>1. tasks'[c] = tasks[c] /\ (At(c, "aborted") \/ Ended(c))
        BY <1>2, <2>3, <2>4, <3>2
      <4>2. tasks[c].pc \notin {"idle", "answered"}
        BY <1>2, <2>2, <2>4, FreeHanded
      <4> QED BY <4>1, <4>2 DEF Ended, At
    <3> QED BY <3>1, <3>2
  <2>5. order' = IF order \in T THEN None ELSE order
    BY <1>8 DEF StepDrops, DropFrees
  <2>6. ASSUME NEW c \in Clients, Carries(c)' # {}
        PROVE  order' = c \/ (order' = None /\ tasks'[c].pc = "aborted")
    <3>1. order = c \/ (order = None /\ At(c, "aborted"))
      BY <2>2, <2>6 DEF OneClient
    <3>2. None \notin T
      BY <1>8, Sorts DEF StepDrops, Procs
    <3> QED BY <2>4, <2>5, <2>6, <3>1, <3>2
  <2> QED BY <2>2, <2>6 DEF OneClient, At
<1>9. CASE MailStep
  <2>1. Sheds /\ MailMoves
    BY <1>9, MailSheds, MailStepMoves
  <2>2. \A c \in Clients : Carries(c)' # {} => Carries(c) # {}
    BY <1>1, <2>1, ShedsNothingNew
  <2>3. order' = order
    BY <2>1 DEF MailMoves
  <2>4. \A c \in Clients : At(c, "aborted") => tasks'[c].pc = "aborted"
    BY <1>2, <2>1 DEF MailMoves, At
  <2> QED BY <1>3, <2>2, <2>3, <2>4
<1> QED BY <1>5, <1>6, <1>7, <1>8, <1>9 DEF Step, MailStep

-----------------------------------------------------------------------------
(* There is room, until the `.expect` fails.                               *)

\* A task that has panicked has ended, and so has the loop.
LEMMA PanickedStays ==
  ASSUME Typed, Disciplined, MailAwaited, Step, Panicked
  PROVE  Panicked'
<1>1. \A c \in Clients : c \in Procs /\ c \in Tasks /\ c # Cleanup
  BY Sorts
<1>2. \A c \in Clients : tasks[c].error = "Panicked" => tasks[c].pc = "answered"
  <2>1. "Panicked" # None
    BY Sorts DEF Errors
  <2> QED BY <1>1, <2>1 DEF Disciplined, Discipline
<1>3. ASSUME loop.pc = "dead" => loop'.pc = "dead",
             \A c \in Clients : tasks[c].pc = "answered" => tasks'[c].error = tasks[c].error
      PROVE  Panicked'
  BY <1>2, <1>3 DEF Panicked
<1>4. CASE StepQuiet
  BY <1>3, <1>4 DEF StepQuiet
<1>5. CASE StepDies \/ \E done : StepTicks(done)
  BY <1>3, <1>5 DEF StepDies, StepTicks
<1>6. ASSUME NEW p, OneMoves(p) PROVE Panicked'
  <2>1. MovesFit(p)
    BY <1>6, OneMovesTask
  <2> QED BY <1>1, <1>3, <2>1 DEF MovesFit, OnlyTask, control
<1>7. ASSUME NEW T, NEW pc, StepDrops(T, pc) PROVE Panicked'
  <2>1. \A q \in Procs : IF q \in T /\ ~Ended(q)
                         THEN tasks'[q] = [Idle EXCEPT !.pc = "aborted"]
                         ELSE q # Cleanup => tasks'[q] = tasks[q]
    BY <1>7, DropsTask
  <2>2. \A c \in Clients : tasks[c].pc = "answered" => tasks'[c] = tasks[c]
    BY <1>1, <2>1 DEF Ended
  <2>3. loop' = loop
    BY <1>7 DEF StepDrops
  <2> QED BY <1>3, <2>2, <2>3
<1>8. CASE MailStep
  <2>1. MailMoves
    BY <1>8, MailStepMoves
  <2>2. \A c \in Clients : tasks'[c].error = tasks[c].error
    BY <1>1, <2>1 DEF MailMoves
  <2>3. loop.pc = "dead" => loop' = loop
    BY <1>8 DEF MailStep, Persist, Write, Flushed, Enqueue, Flush, control
  <2> QED BY <1>3, <2>2, <2>3
<1> QED BY <1>4, <1>5, <1>6, <1>7, <1>8 DEF Step, MailStep, OneMoves

LEMMA RoomStays ==
  ASSUME Typed, Disciplined, MailAwaited, RoomKept, Step
  PROVE  RoomKept'
<1>1. SUFFICES ASSUME Roomy(sched) PROVE RoomKept'
  BY PanickedStays DEF RoomKept
<1>2. CASE sched' = sched
  BY <1>1, <1>2 DEF RoomKept
<1>3. CASE Panicked'
  BY <1>3 DEF RoomKept
<1>4. CASE StepQuiet \/ \E T, pc : StepDrops(T, pc)
  BY <1>2, <1>4 DEF StepQuiet, StepDrops
<1>5. CASE StepDies
  BY <1>3, <1>5 DEF StepDies, Panicked
<1>6. ASSUME NEW p, NEW new, NEW amended, StepPanics(p, new, amended) PROVE RoomKept'
  BY <1>3, <1>6, PanicsTask
<1>7. ASSUME NEW p, NEW task, StepMoves(p, task) PROVE RoomKept'
  BY <1>2, <1>7 DEF StepMoves
<1>8. ASSUME NEW p,
             (\E error : StepEnds(p, error)) \/ (\E i : StepBegins(p, i))
      PROVE  RoomKept'
  BY <1>1, <1>8 DEF StepEnds, StepBegins, Steady, Complete, RoomKept
<1>9. ASSUME NEW p, NEW done, NEW now, NEW new, NEW amended, NEW todo,
             StepPersists(p, done, now, new, amended, todo)
      PROVE  RoomKept'
  BY <1>1, <1>9 DEF StepPersists, Complete, RoomKept
<1>10. ASSUME NEW done, StepTicks(done) PROVE RoomKept'
  BY <1>1, <1>10 DEF StepTicks, Steady, Complete, RoomKept
<1>11. CASE MailStep
  BY <1>2, <1>11, MailStepMoves DEF MailMoves
<1> QED BY <1>4, <1>5, <1>6, <1>7, <1>8, <1>9, <1>10, <1>11 DEF Step, MailStep

-----------------------------------------------------------------------------
(* What History is told stays true.                                        *)

Told == ContentsPresent /\ ClosesKept /\ ContentsKept /\ ClientCloses

\* Steps that shed snapshots.
LEMMA ShedsTold ==
  ASSUME Typed, OneClient, Told, Sheds, Panicked => Panicked'
  PROVE  Told'
<1>1. /\ sched' = sched /\ lost \subseteq lost' /\ recorded \subseteq recorded'
      /\ \A b \in Holders : \A snap \in Carries(b)' : snap.id = None \/ snap \in Carries(b)
      /\ \A b \in Holders : \A snap \in Carries(b) : Reaches(b, snap)
      /\ \A i \in Ids : rows'[i] = rows[i] \/ Written(i)
  BY DEF Sheds
<1>2. Fit(sched)
  BY DEF Typed, SchedulerFits
<1>3. /\ Live(sched) \subseteq Ids /\ \A i \in Accepted : i # None
  BY <1>2, FitNumbers, IdsFinite, SchedulerConstants DEF Accepted
<1>4. \A i : Closing(i).id = i /\ Closing(i).state = "closed"
  BY DEF Closing
<1>5. ContentsPresent'
  <2>1. ASSUME NEW b \in Holders, NEW snap \in Carries(b)', snap.id # None
        PROVE  /\ snap \in Carries(b)
               /\ Closing(snap.id) \in Carries(b)' => Closing(snap.id) \in Carries(b)
    BY <1>1, <1>4, <2>1
  <2> QED BY <1>1, <2>1 DEF ContentsPresent, Told, IsContent, IsClose, Accepted
<1>6. ClosesKept'
  <2>1. ASSUME ~Panicked, NEW i \in Accepted \ Live(sched)
        PROVE  \/ i \in recorded' \cup lost' \cup Closed(sched)
               \/ \E b \in Holders : Closing(i) \in Carries(b)'
    <3>1. CASE i \in recorded \cup lost \cup Closed(sched)
      BY <1>1, <3>1
    <3>2. CASE \E b \in Holders : Closing(i) \in Carries(b)
      <4>1. PICK b \in Holders : Closing(i) \in Carries(b)
        BY <3>2
      <4>2. Reaches(b, Closing(i))
        BY <1>1, <4>1
      <4> QED BY <1>3, <1>4, <4>1, <4>2 DEF Reaches
    <3> QED BY <2>1, <3>1, <3>2 DEF ClosesKept, Told
  <2> QED BY <1>1, <2>1 DEF ClosesKept, Accepted
<1>7. ASSUME NEW i \in Live(sched), NEW b \in Holders, NEW snap \in Carries(b), snap.id = i
      PROVE  IsContent(snap) /\ snap.state = sched.entries[i].draft.text
  <2>1. IsClose(snap) \/ IsContent(snap)
    BY <1>3, <1>7, CarriedTyped, IdsFinite
  <2> QED BY <1>7, <2>1 DEF ContentsPresent, Told
<1>8. ContentsKept'
  <2>1. ASSUME ~Panicked, NEW i \in Live(sched)
        PROVE  \/ i \in lost'
               \/ \E b \in Holders : \E snap \in Carries(b)' : snap.id = i
               \/ rows'[i].state = sched.entries[i].draft.text
    <3>1. CASE i \in lost
      BY <1>1, <3>1
    <3>2. CASE \E b \in Holders : \E snap \in Carries(b) : snap.id = i
      <4>0. PICK b \in Holders : \E snap \in Carries(b) : snap.id = i
        BY <3>2
      <4>1. PICK snap \in Carries(b) : snap.id = i
        BY <4>0
      <4>2. Reaches(b, snap)
        BY <1>1, <4>1
      <4>3. snap.id # None /\ snap.state = sched.entries[i].draft.text
        BY <1>7, <4>1 DEF IsContent
      <4> QED BY <4>1, <4>2, <4>3 DEF Reaches
    <3>3. CASE rows[i].state = sched.entries[i].draft.text
      <4>1. CASE rows'[i] = rows[i]
        BY <3>3, <4>1
      <4>2. CASE Written(i)
        BY <1>7, <4>2 DEF Written
      <4> QED BY <1>1, <1>3, <4>1, <4>2
    <3> QED BY <2>1, <3>1, <3>2, <3>3 DEF ContentsKept, Told
  <2> QED BY <1>1, <2>1 DEF ContentsKept
<1>9. ClientCloses'
  <2>1. ASSUME NEW i \in Ids, rows'[i].state = "closed", rows'[i].by \in Clients
        PROVE  /\ i \in Accepted \ Live(sched)
               /\ \A b \in Holders : \A snap \in Carries(b)' : IsContent(snap) => snap.id # i
    <3>1. CASE rows'[i] = rows[i]
      <4>1. /\ i \in Accepted \ Live(sched)
            /\ \A b \in Holders : \A snap \in Carries(b) : IsContent(snap) => snap.id # i
        BY <2>1, <3>1 DEF ClientCloses, Told
      <4> QED BY <1>1, <4>1 DEF IsContent
    <3>2. CASE Written(i)
      <4>0. PICK b \in Holders : \E snap \in Carries(b) :
              snap.id = i /\ rows'[i].state = snap.state /\ rows'[i].by = b
        BY <3>2 DEF Written
      <4>1. PICK snap \in Carries(b) :
              snap.id = i /\ rows'[i].state = snap.state /\ rows'[i].by = b
        BY <4>0
      <4>2. i # None
        BY IdsFinite
      <4>3. IsClose(snap) /\ b \in Clients /\ snap \in Snapshot
        BY <2>1, <4>1, <4>2, CarriedTyped DEF IsClose
      <4>4. i \in Accepted \ Live(sched)
        BY <4>1, <4>3 DEF ContentsPresent, Told
      <4>5. snap = Closing(i)
        BY <4>1, <4>3, ClosingTyped
      <4>6. ASSUME NEW d \in Holders, NEW s2 \in Carries(d)', IsContent(s2), s2.id = i
            PROVE  FALSE
        <5>1. s2 \in Carries(d)
          BY <1>1, <4>6 DEF IsContent
        <5>2. d \in Clients /\ Closing(i) \notin Carries(d)
          BY <4>6, <5>1 DEF ContentsPresent, Told
        <5>3. d = b
          BY <4>1, <4>3, <5>1, <5>2 DEF OneClient
        <5> QED BY <4>1, <4>5, <5>2, <5>3
      <4> QED BY <4>4, <4>6
    <3> QED BY <1>1, <3>1, <3>2
  <2> QED BY <1>1, <2>1 DEF ClientCloses, Accepted
<1> QED BY <1>5, <1>6, <1>8, <1>9 DEF Told

\* Steps that send nothing.
LEMMA SameTold ==
  ASSUME Typed, Told, NEW now, Turns(sched, sched', now, {}, {}),
         Panicked => Panicked',
         Panicked' \/ Closed(sched') = Closed(sched) \cup (Live(sched) \ Live(sched')),
         UNCHANGED <<rows, lost, recorded>>,
         \A b \in Holders : Carries(b)' = Carries(b)
  PROVE  Told'
<1>1. /\ Accepted' = Accepted
      /\ Live(sched') \subseteq Live(sched)
      /\ \A i \in Live(sched') : sched'.entries[i].draft = sched.entries[i].draft
  BY DEF Turns, Known, Accepted
<1>2. ContentsPresent'
  BY <1>1 DEF Told, ContentsPresent
<1>3. ClosesKept'
  BY <1>1 DEF Told, ClosesKept
<1>4. ContentsKept'
  BY <1>1 DEF Told, ContentsKept
<1>5. ClientCloses'
  BY <1>1 DEF Told, ClientCloses
<1> QED BY <1>2, <1>3, <1>4, <1>5 DEF Told

\* The content of a Notification that is live.
ContentOf(s, i) == [id |-> i, state |-> s.entries[i].draft.text]

\* Steps that leave the scheduler with snapshots for d to carry.
LEMMA LeavesTold ==
  ASSUME Typed, Told, NEW d \in Holders, NEW done, NEW now, NEW new, NEW amended,
         Turns(sched, done, now, new, amended), sched' = DrainClosed(done),
         Panicked => Panicked',
         Panicked' \/ (Live(sched) \cup new \cup Closed(sched)) \ Live(done)
                         \subseteq Closed(done) \cup lost',
         UNCHANGED <<rows, recorded>>, lost \subseteq lost',
         new # {} \/ amended # {} =>
           d \in Clients /\ \A c \in Clients : Carries(c) = {},
         d \in Clients => Carries(d) = {},
         \A b \in Holders \ {d} : Carries(b)' = Carries(b),
         \A snap : snap \in Carries(d)' <=>
           \/ snap \in Carries(d)
           \/ \E i \in amended \cap Live(done) : snap = ContentOf(done, i)
           \/ \E i \in Closed(done) : snap = Closing(i)
  PROVE  Told'
<1>1. /\ Fit(done) /\ Fit(sched)
      /\ Known(done) = Known(sched) \cup new /\ new \cap Known(sched) = {}
      /\ Live(done) \subseteq Live(sched) \cup new
      /\ \A i \in Live(done) :
           i \in amended \/ (i \in Live(sched)
                               /\ done.entries[i].draft = sched.entries[i].draft)
  BY DEF Turns, Typed, SchedulerFits
<1>2. /\ Live(sched') = Live(done) /\ Closed(sched') = {}
      /\ sched'.entries = done.entries /\ Accepted' = Known(done)
  <2>1. PICK r : r = DrainClosed(done)
    OBVIOUS
  <2>2. /\ Closed(r) = {} /\ Live(r) = Live(done) /\ r.entries = done.entries
        /\ Known(r) = Known(done)
    BY <1>1, <2>1, DrainFits
  <2> QED BY <2>1, <2>2 DEF Known, Accepted
<1>3. /\ Live(done) \subseteq Ids /\ Closed(done) \subseteq Ids
      /\ Live(done) \cap Closed(done) = {} /\ Closed(done) \subseteq Known(done)
      /\ done.entries \in [Live(done) -> Entry]
  BY <1>1, FitNumbers
<1>4. /\ Live(sched) \subseteq Known(sched) /\ Accepted = Known(sched)
  BY <1>1, FitNumbers DEF Known, Accepted
<1>5. \A i \in Ids : i # None /\ Closing(i).id = i /\ IsClose(Closing(i))
                     /\ ~IsContent(Closing(i))
  BY ClosingTyped, IdsFinite
<1>6. ASSUME NEW i \in Live(done)
      PROVE  /\ ContentOf(done, i).id = i
             /\ ContentOf(done, i).state = done.entries[i].draft.text
             /\ IsContent(ContentOf(done, i)) /\ ~IsClose(ContentOf(done, i))
  <2>1. done.entries[i].draft.text \in Texts
    BY <1>3 DEF Entry, Draft
  <2> QED BY <1>3, <1>5, <2>1, DaemonConstants DEF ContentOf, IsContent, IsClose
<1>7. \A b \in Holders : Carries(b) \subseteq Carries(b)'
  <2>1. Carries(d) \subseteq Carries(d)'
    OBVIOUS
  <2> QED BY <2>1
<1>8. ASSUME NEW b \in Holders, NEW snap \in Carries(b)
      PROVE  /\ IsContent(snap) =>
                  /\ b \in Clients \ {d} /\ amended = {} /\ new = {}
                  /\ snap.id \in Live(done) => snap.state = done.entries[snap.id].draft.text
                  /\ Closing(snap.id) \notin Carries(b)'
             /\ IsClose(snap) => snap.id \in Known(done) \ Live(done)
  <2>1. CASE IsContent(snap)
    <3>1. b \in Clients /\ Closing(snap.id) \notin Carries(b)
      BY <2>1 DEF Told, ContentsPresent
    <3>2. b # d /\ amended = {} /\ new = {}
      BY <1>8, <3>1
    <3>3. snap.id \in Live(done) => snap.state = done.entries[snap.id].draft.text
      BY <1>1, <1>8, <2>1, <3>2 DEF Told, ContentsPresent
    <3> QED BY <2>1, <3>1, <3>2, <3>3 DEF IsContent, IsClose
  <2>2. CASE IsClose(snap)
    <3>1. snap.id \in Known(sched) \ Live(sched)
      BY <1>4, <2>2 DEF Told, ContentsPresent
    <3> QED BY <1>1, <2>2, <3>1 DEF IsContent, IsClose
  <2> QED BY <2>1, <2>2
<1>9. ContentsPresent'
  <2>1. ASSUME NEW b \in Holders, NEW snap \in Carries(b)'
        PROVE  /\ IsContent(snap) =>
                    /\ b \in Clients
                    /\ snap.id \in Live(done) => snap.state = done.entries[snap.id].draft.text
                    /\ Closing(snap.id) \notin Carries(b)'
               /\ IsClose(snap) => snap.id \in Known(done) \ Live(done)
    <3>1. CASE snap \in Carries(b)
      BY <1>8, <3>1
    <3>2. CASE b = d /\ \E i \in amended \cap Live(done) : snap = ContentOf(done, i)
      <4>1. PICK i \in amended \cap Live(done) : snap = ContentOf(done, i)
        BY <3>2
      <4>2. d \in Clients /\ Carries(d) = {}
        BY <4>1
      <4>3. Closing(i) \notin Carries(d)'
        <5>1. \A j \in amended \cap Live(done) : Closing(i) # ContentOf(done, j)
          BY <1>3, <1>5, <1>6, <4>1
        <5>2. \A j \in Closed(done) : Closing(i) # Closing(j)
          BY <1>3, <1>5, <4>1
        <5> QED BY <4>2, <5>1, <5>2
      <4> QED BY <1>6, <3>2, <4>1, <4>2, <4>3
    <3>3. CASE b = d /\ \E i \in Closed(done) : snap = Closing(i)
      BY <1>3, <1>5, <3>3
    <3> QED BY <2>1, <3>1, <3>2, <3>3
  <2> QED BY <1>2, <2>1 DEF ContentsPresent
<1>10. ClosesKept'
  <2>1. ASSUME ~Panicked', NEW i \in Known(done) \ Live(done)
        PROVE  \/ i \in recorded \cup lost'
               \/ \E b \in Holders : Closing(i) \in Carries(b)'
    <3>1. CASE i \in Closed(done) \cup lost'
      BY <3>1
    <3>2. CASE i \notin Closed(done) \cup lost'
      <4>1. i \in Accepted \ Live(sched) /\ i \notin Closed(sched)
        BY <1>1, <1>4, <2>1, <3>2
      <4> QED BY <1>7, <2>1, <3>2, <4>1 DEF Told, ClosesKept
    <3> QED BY <3>1, <3>2
  <2> QED BY <1>2, <2>1 DEF ClosesKept
<1>11. ContentsKept'
  <2>1. ASSUME ~Panicked', NEW i \in Live(done)
        PROVE  \/ i \in lost'
               \/ \E b \in Holders : \E snap \in Carries(b)' : snap.id = i
               \/ rows[i].state = done.entries[i].draft.text
    <3>1. CASE i \in amended
      BY <1>6, <2>1, <3>1
    <3>2. CASE i \notin amended
      <4>1. i \in Live(sched) /\ done.entries[i].draft = sched.entries[i].draft
        BY <1>1, <2>1, <3>2
      <4> QED BY <1>7, <2>1, <4>1 DEF Told, ContentsKept
    <3> QED BY <3>1, <3>2
  <2> QED BY <1>2, <2>1 DEF ContentsKept
<1>12. ClientCloses'
  <2>1. ASSUME NEW i \in Ids, rows[i].state = "closed", rows[i].by \in Clients
        PROVE  /\ i \in Known(done) \ Live(done)
               /\ \A b \in Holders : \A snap \in Carries(b)' : IsContent(snap) => snap.id # i
    <3>1. /\ i \in Accepted \ Live(sched)
          /\ \A b \in Holders : \A snap \in Carries(b) : IsContent(snap) => snap.id # i
      BY <2>1 DEF Told, ClientCloses
    <3>2. i \in Known(done) \ Live(done)
      BY <1>1, <1>4, <3>1
    <3>3. ASSUME NEW b \in Holders, NEW snap \in Carries(b)', IsContent(snap), snap.id = i
          PROVE  FALSE
      <4>1. snap \notin Carries(b)
        BY <3>1, <3>3
      <4>2. b = d
        BY <3>3, <4>1
      <4>3. \A j \in amended \cap Live(done) : snap # ContentOf(done, j)
        BY <1>6, <3>2, <3>3
      <4>4. \A j \in Closed(done) : snap # Closing(j)
        BY <1>3, <1>5, <3>3
      <4> QED BY <3>3, <4>1, <4>2, <4>3, <4>4
    <3> QED BY <3>2, <3>3
  <2> QED BY <1>2, <2>1 DEF ClientCloses
<1> QED BY <1>9, <1>10, <1>11, <1>12 DEF Told

\* The step of a submit that panics: what other processes carry are closes.
LEMMA PanicsTold ==
  ASSUME Typed, Disciplined, MailAwaited, OneClient, Told, NEW p, NEW new,
         NEW amended, StepPanics(p, new, amended)
  PROVE  Told'
<1>1. /\ p \in Clients /\ At(p, "ready") /\ UNCHANGED <<rows, lost, recorded>>
      /\ Turns(sched, sched', tasks[p].at, new, amended)
  BY DEF StepPanics, history
<1>2. p \in Procs /\ order = p /\ Panicked'
  BY PanicsTask
<1>3. \A b \in Holders : Carries(b)' = Carries(b)
  BY MovesCarries
<1>4. Carries(p) = {}
  BY <1>1, <1>2, FreeHanded DEF At
<1>5. \A c \in Clients : Carries(c) = {}
  <2>1. p # None
    BY <1>1, Sorts
  <2> QED BY <1>2, <1>4, <2>1 DEF OneClient
<1>6. ASSUME NEW i \in Accepted \ Live(sched)
      PROVE  i \in Accepted' \ Live(sched')
  <2>1. /\ Known(sched') = Known(sched) \cup new /\ new \cap Known(sched) = {}
        /\ Live(sched') \subseteq Live(sched) \cup new
    BY <1>1 DEF Turns
  <2>2. Accepted = Known(sched) /\ Accepted' = Known(sched')
    BY DEF Accepted, Known
  <2> QED BY <1>6, <2>1, <2>2
<1>7. ContentsPresent'
  BY <1>3, <1>5, <1>6 DEF Told, ContentsPresent
<1>8. ClosesKept' /\ ContentsKept'
  BY <1>2 DEF ClosesKept, ContentsKept
<1>9. ClientCloses'
  BY <1>1, <1>3, <1>6 DEF Told, ClientCloses
<1> QED BY <1>7, <1>8, <1>9 DEF Told

LEMMA ToldKept ==
  ASSUME Typed, Disciplined, MailAwaited, OneClient, RoomKept, Told, Step
  PROVE  Told'
<1>1. Fit(sched)
  BY DEF Typed, SchedulerFits
<1>11. Panicked => Panicked'
  BY PanickedStays
<1>12. Panicked' \/ Roomy(sched)
  BY <1>11 DEF RoomKept
<1>2. \A c \in Clients : c \in Procs /\ c \in Holders /\ c # None /\ c # "loop"
  BY Sorts, HoldersApart
<1>3. CASE StepQuiet
  <2>1. Turns(sched, sched', clock, {}, {})
    BY <1>1, <1>3, CalmItself DEF StepQuiet, Calm
  <2>2. /\ queue' = queue /\ tasks' = tasks /\ loop'.todo = loop.todo
        /\ UNCHANGED <<rows, lost, recorded>>
    BY <1>3 DEF StepQuiet, history
  <2>3. \A b \in Holders : Carries(b)' = Carries(b)
    BY <2>2, CarriesSame
  <2>4. sched' = sched
    BY <1>3 DEF StepQuiet
  <2> QED BY <1>11, <2>1, <2>2, <2>3, <2>4, SameTold
<1>4. ASSUME NEW p, NEW task, StepMoves(p, task) PROVE Told'
  <2>1. Turns(sched, sched', clock, {}, {})
    BY <1>1, <1>4, CalmItself DEF StepMoves, Calm
  <2>2. UNCHANGED <<rows, lost, recorded>>
    BY <1>4 DEF StepMoves, history
  <2>3. \A b \in Holders : Carries(b)' = Carries(b)
    BY <1>4, MovesCarries
  <2>4. sched' = sched
    BY <1>4 DEF StepMoves
  <2> QED BY <1>11, <2>1, <2>2, <2>3, <2>4, SameTold
<1>5. ASSUME NEW p, NEW error, StepEnds(p, error) PROVE Told'
  <2>1. Turns(sched, sched', tasks[p].at, {}, {}) /\ UNCHANGED <<rows, lost, recorded>>
    BY <1>5 DEF StepEnds, Calm, history
  <2>2. \A b \in Holders : Carries(b)' = Carries(b)
    BY <1>5, MovesCarries
  <2>3. Panicked' \/ Closed(sched') = Closed(sched) \cup (Live(sched) \ Live(sched'))
    BY <1>5, <1>12 DEF StepEnds, Steady, Complete
  <2> QED BY <1>11, <2>1, <2>2, <2>3, SameTold
<1>6. ASSUME NEW p, NEW i, StepBegins(p, i) PROVE Told'
  <2>1. Turns(sched, sched', tasks[p].at, {}, {}) /\ UNCHANGED <<rows, lost, recorded>>
    BY <1>6 DEF StepBegins, history
  <2>2. \A b \in Holders : Carries(b)' = Carries(b)
    BY <1>6, MovesCarries
  <2>3. Panicked' \/ Closed(sched') = Closed(sched) \cup (Live(sched) \ Live(sched'))
    BY <1>6, <1>12 DEF StepBegins, Steady, Complete
  <2> QED BY <1>11, <2>1, <2>2, <2>3, SameTold
<1>7. ASSUME NEW p, NEW done, NEW now, NEW new, NEW amended, NEW todo,
             StepPersists(p, done, now, new, amended, todo)
      PROVE  Told'
  <2>1. /\ p \in Procs /\ Carries(p) = {} /\ Carries(p)' = Range(todo)
        /\ \A b \in Holders \ {p} : Carries(b)' = Carries(b)
    BY <1>7, PersistsCarries
  <2>2. /\ Turns(sched, done, now, new, amended) /\ sched' = DrainClosed(done)
        /\ UNCHANGED <<rows, lost, recorded>>
        /\ new # {} \/ amended # {} => p \in Clients /\ At(p, "ready")
        /\ Range(todo) = {[id |-> i, state |-> done.entries[i].draft.text] :
                            i \in amended \cap Live(done)}
                           \cup {Closing(i) : i \in Closed(done)}
    BY <1>7 DEF StepPersists, history
  <2>3. p \in Holders
    BY <2>1, HoldersApart
  <2>4. new # {} \/ amended # {} => p \in Clients /\ \A c \in Clients : Carries(c) = {}
    <3>1. SUFFICES ASSUME p \in Clients, At(p, "ready")
                   PROVE  \A c \in Clients : Carries(c) = {}
      BY <2>2
    <3>2. order = p
      BY <2>1, <3>1, Flight DEF At
    <3> QED BY <1>2, <2>1, <3>1, <3>2 DEF OneClient
  <2>5. \A snap : snap \in Carries(p)' <=>
           \/ snap \in Carries(p)
           \/ \E i \in amended \cap Live(done) : snap = ContentOf(done, i)
           \/ \E i \in Closed(done) : snap = Closing(i)
    BY <2>1, <2>2 DEF ContentOf
  <2>6. Panicked' \/ (Live(sched) \cup new \cup Closed(sched)) \ Live(done)
                        \subseteq Closed(done) \cup lost'
    BY <1>7, <1>12 DEF StepPersists, Complete
  <2> QED BY <1>11, <2>1, <2>2, <2>3, <2>4, <2>5, <2>6, LeavesTold
<1>8. ASSUME NEW done, StepTicks(done) PROVE Told'
  <2>1. /\ Carries("loop")' = Carries("loop") \cup {Closing(i) : i \in Closed(done)}
        /\ \A b \in Holders \ {"loop"} : Carries(b)' = Carries(b)
    BY <1>8, TicksCarries
  <2>2. /\ Turns(sched, done, clock, {}, {}) /\ sched' = DrainClosed(done)
        /\ UNCHANGED <<rows, recorded>> /\ lost \subseteq lost'
    BY <1>8 DEF StepTicks, Calm
  <2>3. "loop" \in Holders /\ "loop" \notin Clients
    BY <1>2, HoldersApart
  <2>4. \A snap : snap \in Carries("loop")' <=>
           \/ snap \in Carries("loop")
           \/ \E i \in {} \cap Live(done) : snap = ContentOf(done, i)
           \/ \E i \in Closed(done) : snap = Closing(i)
    BY <2>1
  <2>5. Panicked' \/ (Live(sched) \cup {} \cup Closed(sched)) \ Live(done)
                        \subseteq Closed(done) \cup lost'
    <3>1. CASE done.limits = sched.limits
      BY <1>8, <1>12, <3>1 DEF StepTicks, Steady, Complete
    <3>2. CASE done.limits # sched.limits
      BY <1>8, <3>2 DEF StepTicks, Unrecorded
    <3> QED BY <3>1, <3>2
  <2> QED BY <1>11, <2>1, <2>2, <2>3, <2>4, <2>5, LeavesTold
<1>13. CASE StepDies
  <2>1. /\ Turns(sched, sched', clock, {}, {}) /\ UNCHANGED <<rows, lost, recorded>>
        /\ loop'.pc = "dead"
    BY <1>13 DEF StepDies, Calm, history
  <2>2. Panicked'
    BY <2>1 DEF Panicked
  <2> QED BY <1>13, <2>1, <2>2, DiesCarries, SameTold
<1>14. ASSUME NEW p, NEW new, NEW amended, StepPanics(p, new, amended) PROVE Told'
  BY <1>14, PanicsTold
<1>9. ASSUME NEW T, NEW pc, StepDrops(T, pc) PROVE Told'
  BY <1>9, <1>11, DropsSheds, ShedsTold
<1>10. CASE MailStep
  BY <1>10, <1>11, MailSheds, ShedsTold
<1> QED BY <1>3, <1>4, <1>5, <1>6, <1>7, <1>8, <1>9, <1>10, <1>13, <1>14
        DEF Step, MailStep

\* A message sent after the flush is late.
LEMMA MessageLate ==
  ASSUME NEW snap, NEW by, tasks[Cleanup].pc \in {"flushing", "flushed"}
  PROVE  Message(snap, by).late
<1>1. PICK late : late = (tasks[Cleanup].pc \in {"flushing", "flushed"})
  OBVIOUS
<1>2. Message(snap, by).late = late
  BY <1>1 DEF Message
<1>3. late
  BY <1>1, Zenon
<1> QED BY <1>2, <1>3, Zenon

\* Messages that are added after the flush are late.
LEMMA AddsInLine ==
  ASSUME HistoryTyped, FlushInLine,
         tasks'[Cleanup].pc \in {"flushing", "flushed"} =>
           tasks'[Cleanup].pc = tasks[Cleanup].pc
             /\ tasks'[Cleanup].error = tasks[Cleanup].error,
         DOMAIN queue \subseteq DOMAIN queue',
         \A n \in DOMAIN queue : queue'[n] = queue[n],
         tasks[Cleanup].pc \in {"flushing", "flushed"} =>
           \A n \in DOMAIN queue' \ DOMAIN queue : queue'[n].late
  PROVE  FlushInLine'
<1>1. ASSUME tasks'[Cleanup].pc = "flushing"
      PROVE  \E m \in DOMAIN queue' :
               /\ queue'[m].snap.id = None
               /\ \A n \in DOMAIN queue' : m < n => queue'[n].late
  <2>1. tasks[Cleanup].pc = "flushing"
    BY <1>1
  <2>2. PICK m \in DOMAIN queue :
          /\ queue[m].snap.id = None
          /\ \A n \in DOMAIN queue : m < n => queue[n].late
    BY <2>1 DEF FlushInLine, At
  <2>3. m \in DOMAIN queue' /\ queue'[m].snap.id = None
    BY <2>2
  <2>4. ASSUME NEW n \in DOMAIN queue', m < n PROVE queue'[n].late
    <3>1. CASE n \in DOMAIN queue
      BY <2>2, <2>4, <3>1
    <3>2. CASE n \notin DOMAIN queue
      BY <2>1, <3>2
    <3> QED BY <3>1, <3>2
  <2> QED BY <2>3, <2>4
<1>2. ASSUME tasks'[Cleanup].pc = "flushed"
      PROVE  tasks'[Cleanup].error = "QueueFull" \/ \A n \in DOMAIN queue' : queue'[n].late
  <2>1. tasks[Cleanup].pc = "flushed" /\ tasks'[Cleanup].error = tasks[Cleanup].error
    BY <1>2
  <2>2. CASE tasks[Cleanup].error = "QueueFull"
    BY <2>1, <2>2
  <2>3. CASE \A n \in DOMAIN queue : queue[n].late
    <3>1. ASSUME NEW n \in DOMAIN queue' PROVE queue'[n].late
      <4>1. CASE n \in DOMAIN queue
        BY <2>3, <4>1
      <4>2. CASE n \notin DOMAIN queue
        BY <2>1, <4>2
      <4> QED BY <4>1, <4>2
    <3> QED BY <3>1
  <2> QED BY <2>1, <2>2, <2>3 DEF FlushInLine, At
<1> QED BY <1>1, <1>2 DEF FlushInLine, At

\* The messages stay in line when the first is taken.
LEMMA TakesInLine ==
  ASSUME FlushInLine, NEW entry, Takes(entry), entry.snap.id # None,
         tasks'[Cleanup].pc \in {"flushing", "flushed"} =>
           tasks'[Cleanup].pc = tasks[Cleanup].pc
             /\ tasks'[Cleanup].error = tasks[Cleanup].error
  PROVE  FlushInLine'
<1>1. /\ 1 \in DOMAIN queue /\ queue[1] = entry
      /\ \A n \in DOMAIN queue' :
           n \in Nat /\ n + 1 \in DOMAIN queue /\ queue'[n] = queue[n + 1]
      /\ \A n \in DOMAIN queue : n \in Nat /\ (n = 1 \/ n - 1 \in DOMAIN queue')
  BY DEF Takes
<1>2. ASSUME tasks'[Cleanup].pc = "flushing"
      PROVE  \E m \in DOMAIN queue' :
               /\ queue'[m].snap.id = None
               /\ \A n \in DOMAIN queue' : m < n => queue'[n].late
  <2>1. PICK m \in DOMAIN queue :
          /\ queue[m].snap.id = None
          /\ \A n \in DOMAIN queue : m < n => queue[n].late
    BY <1>2 DEF FlushInLine, At
  <2>2. m \in Nat /\ m - 1 \in DOMAIN queue'
    BY <1>1, <2>1
  <2>3. queue'[m - 1].snap.id = None
    <3>1. queue'[m - 1] = queue[(m - 1) + 1] /\ (m - 1) + 1 = m
      BY <1>1, <2>2
    <3> QED BY <2>1, <3>1
  <2>4. ASSUME NEW n \in DOMAIN queue', m - 1 < n PROVE queue'[n].late
    <3>1. n + 1 \in DOMAIN queue /\ m < n + 1 /\ queue'[n] = queue[n + 1]
      BY <1>1, <2>2, <2>4
    <3> QED BY <2>1, <3>1
  <2> QED BY <2>2, <2>3, <2>4
<1>3. ASSUME tasks'[Cleanup].pc = "flushed"
      PROVE  tasks'[Cleanup].error = "QueueFull" \/ \A n \in DOMAIN queue' : queue'[n].late
  <2>1. \/ tasks'[Cleanup].error = "QueueFull"
        \/ \A n \in DOMAIN queue : queue[n].late
    BY <1>3 DEF FlushInLine, At
  <2>2. ASSUME \A n \in DOMAIN queue : queue[n].late, NEW n \in DOMAIN queue'
        PROVE  queue'[n].late
    <3>1. n + 1 \in DOMAIN queue /\ queue'[n] = queue[n + 1]
      BY <1>1
    <3> QED BY <2>2, <3>1
  <2> QED BY <2>1, <2>2
<1> QED BY <1>2, <1>3 DEF FlushInLine, At

LEMMA FlushInLineKept ==
  ASSUME Typed, Disciplined, MailAwaited, FlushInLine, Step
  PROVE  FlushInLine'
<1>1. HistoryTyped /\ Cleanup \in Procs
  BY Sorts DEF Typed
<1>2. ASSUME queue' = queue,
             tasks'[Cleanup].pc \in {"flushing", "flushed"} =>
               tasks'[Cleanup].pc = tasks[Cleanup].pc
                 /\ tasks'[Cleanup].error = tasks[Cleanup].error
      PROVE  FlushInLine'
  BY <1>1, <1>2, AddsInLine
<1>3. CASE StepQuiet \/ StepDies \/ \E done : StepTicks(done)
  BY <1>2, <1>3 DEF StepQuiet, StepDies, StepTicks, history
<1>4. ASSUME NEW p, OneMoves(p) PROVE FlushInLine'
  <2>1. MovesFit(p)
    BY <1>4, OneMovesTask
  <2>2. queue' = queue
    BY <2>1 DEF MovesFit, history
  <2>3. CASE p = Cleanup
    BY <1>2, <2>1, <2>2, <2>3 DEF MovesFit
  <2>4. CASE p # Cleanup
    <3>1. tasks'[Cleanup] = tasks[Cleanup]
      BY <1>1, <2>1, <2>4 DEF MovesFit, OnlyTask
    <3> QED BY <1>2, <2>2, <3>1
  <2> QED BY <2>3, <2>4
<1>5. ASSUME NEW T, NEW pc, StepDrops(T, pc) PROVE FlushInLine'
  <2>1. tasks'[Cleanup].pc = pc /\ tasks'[Cleanup].error = tasks[Cleanup].error
    BY <1>5, DropsTask
  <2>2. queue' = queue /\ (pc = "ready" \/ pc = tasks[Cleanup].pc)
    BY <1>5 DEF StepDrops
  <2> QED BY <1>2, <2>1, <2>2
<1>6. ASSUME NEW p \in Procs, Persist(p) PROVE FlushInLine'
  <2>1. tasks'[Cleanup].pc \in {"flushing", "flushed"} =>
          tasks'[Cleanup].pc = tasks[Cleanup].pc
            /\ tasks'[Cleanup].error = tasks[Cleanup].error
    <3>1. OnlyTask(p) /\ tasks'[p].pc \in {"receipt", "persist"}
      BY <1>6, PersistTask
    <3> QED BY <1>1, <3>1 DEF OnlyTask
  <2>2. CASE Room > 0
    <3>1. PICK snap : snap = Head(tasks[p].todo)
      OBVIOUS
    <3>2. PICK x : Posts(x, Message(snap, p))
      BY <1>6, <2>2, <3>1, PersistMail
    <3>3. /\ DOMAIN queue' = DOMAIN queue \cup {x} /\ queue'[x] = Message(snap, p)
          /\ \A n \in DOMAIN queue : queue'[n] = queue[n]
      BY <3>2 DEF Posts
    <3>4. tasks[Cleanup].pc \in {"flushing", "flushed"} => queue'[x].late
      BY <3>3, MessageLate
    <3> QED BY <1>1, <2>1, <3>3, <3>4, AddsInLine
  <2>3. CASE ~(Room > 0)
    BY <1>2, <1>6, <2>1, <2>3, PersistMail
  <2> QED BY <2>2, <2>3
<1>7. CASE Write
  <2>1. PICK entry \in Mail :
          Takes(entry) /\ entry.snap \in Snapshot /\ tasks' = Receipt(entry)
    BY <1>7, WriteMail
  <2>2. entry.snap.id # None
    BY <2>1, IdsFinite DEF Snapshot
  <2>3. tasks'[Cleanup].pc \in {"flushing", "flushed"} => tasks'[Cleanup] = tasks[Cleanup]
    <3>1. \/ tasks' = tasks
          \/ OnlyTask(entry.by) /\ tasks'[entry.by].pc = "persist"
      BY <2>1, ReceiptTask
    <3> QED BY <1>1, <3>1 DEF OnlyTask
  <2> QED BY <2>1, <2>2, <2>3, TakesInLine
<1>8. CASE Flushed
  <2>1. /\ Takes(Head(queue)) /\ Head(queue).snap.id = None
        /\ tasks'[Cleanup].pc = "flushed"
    BY <1>8, FlushedMail
  <2>2. /\ 1 \in DOMAIN queue /\ queue[1].snap.id = None
        /\ \A n \in DOMAIN queue' :
             n \in Nat /\ n + 1 \in DOMAIN queue /\ queue'[n] = queue[n + 1]
        /\ queue' \in Seq(Mail)
    BY <2>1 DEF Takes
  <2>3. At(Cleanup, "flushing") /\ queue[1].by = Cleanup
    BY <2>2 DEF MailAwaited
  <2>4. PICK m \in DOMAIN queue :
          /\ queue[m].snap.id = None
          /\ \A n \in DOMAIN queue : m < n => queue[n].late
    BY <2>3 DEF FlushInLine
  <2>5. queue[m].by = Cleanup /\ Cleanup # "loop"
    BY <1>1, <2>4, Sorts DEF MailAwaited
  <2>6. m = 1
    BY <2>2, <2>3, <2>4, <2>5 DEF MailAwaited
  <2>7. ASSUME NEW n \in DOMAIN queue' PROVE queue'[n].late
    <3>1. n + 1 \in DOMAIN queue /\ queue'[n] = queue[n + 1] /\ n \in 1 .. Len(queue')
      BY <2>2
    <3>2. m < n + 1
      BY <2>6, <3>1
    <3> QED BY <2>4, <3>1, <3>2
  <2> QED BY <2>1, <2>7 DEF FlushInLine, At
<1>9. CASE Enqueue
  <2>1. /\ DOMAIN queue \subseteq DOMAIN queue'
        /\ \A n \in DOMAIN queue : queue'[n] = queue[n]
        /\ \A n \in DOMAIN queue' \ DOMAIN queue :
             \E snap \in Range(loop.todo) : queue'[n] = Message(snap, "loop")
    BY <1>9, EnqueueMail
  <2>2. tasks' = tasks
    BY <1>9 DEF Enqueue
  <2>3. tasks[Cleanup].pc \in {"flushing", "flushed"} =>
          \A n \in DOMAIN queue' \ DOMAIN queue : queue'[n].late
    BY <2>1, MessageLate
  <2> QED BY <1>1, <2>1, <2>2, <2>3, AddsInLine
<1>10. CASE Flush
  <2>1. CASE /\ tasks'[Cleanup].pc = "flushed" /\ queue' = queue
             /\ tasks'[Cleanup].error = "QueueFull"
    BY <2>1 DEF FlushInLine, At
  <2>2. CASE /\ tasks'[Cleanup].pc = "flushing"
             /\ \E x : Posts(x, Message([id |-> None], Cleanup))
    <3>1. PICK x : Posts(x, Message([id |-> None], Cleanup))
      BY <2>2
    <3>2. /\ DOMAIN queue' = DOMAIN queue \cup {x} /\ x \in Nat
          /\ queue'[x].snap.id = None
          /\ \A n \in DOMAIN queue : n < x
      BY <3>1 DEF Posts, Message
    <3>3. \A n \in DOMAIN queue' : n \in Nat /\ ~(x < n)
      BY <1>1, <3>2 DEF HistoryTyped
    <3> QED BY <2>2, <3>2, <3>3 DEF FlushInLine, At
  <2> QED BY <1>10, <2>1, <2>2, FlushMail
<1> QED BY <1>3, <1>4, <1>5, <1>6, <1>7, <1>8, <1>9, <1>10 DEF Step, OneMoves

-----------------------------------------------------------------------------
(* The invariant.                                                          *)

LEMMA InitTyped == Init => Typed /\ Disciplined
<1> SUFFICES ASSUME Init PROVE Typed /\ Disciplined
  OBVIOUS
<1>1. PICK limits \in LimitsSet :
        /\ sched = NewScheduler(limits, 0)
        /\ settings = [limits |-> limits, changed |-> FALSE, reloads |-> 0]
  BY DEF Init
<1>2. limits \in SchedulerLimits
  BY DaemonConstants
<1>3. /\ Sound(sched) /\ Live(sched) = {} /\ Tidy(sched) /\ sched.limits = limits
  BY <1>1, <1>2, NewSchedulerSound, NewSchedulerTidy
<1>4. sched.nextSequence = 0 /\ sched.lastNow = 0 /\ Closed(sched) = {}
  BY <1>1 DEF NewScheduler, Closed, EmptyLine
<1>5. /\ clock = 0 /\ tasks = [p \in Procs |-> Idle] /\ order = None /\ backend = None
      /\ loop = [pc |-> "top", limits |-> None, todo |-> <<>>]
      /\ queue = <<>> /\ rows = [i \in Ids |-> [state |-> None, by |-> None]]
      /\ daemon = "serving" /\ lost = {} /\ recorded = {}
  BY DEF Init
<1>6. SchedulerFits
  BY <1>3, <1>4, <1>5 DEF SchedulerFits, Fit
<1>7. <<>> \in Seq(Snapshot) /\ <<>> \in Seq(Mail)
  OBVIOUS
<1>8. PICK idle : idle = Idle
  OBVIOUS
<1>9. /\ idle \in Task /\ idle.pc = "idle" /\ idle.at = 0 /\ idle.intent = None
      /\ idle.todo = <<>> /\ idle.error = None
  BY <1>7, <1>8 DEF Idle, Task, PlacesOfClient
<1>10. tasks \in [Procs -> Task] /\ \A p \in Procs : tasks[p] = idle
  BY <1>5, <1>8, <1>9
<1>11. TasksTyped
  BY <1>5, <1>9, <1>10, Sorts DEF TasksTyped, PlacesOfClient, PlacesOfRenderer,
                                   PlacesOfCleanup
<1>12. ControlTyped
  BY <1>1, <1>5, <1>7 DEF ControlTyped
<1>13. HistoryTyped
  <2>1. Len(queue) <= HistoryCapacity
    BY <1>5, DaemonConstants
  <2> QED BY <1>5, <1>7, <2>1 DEF HistoryTyped, Row
<1>14. Discipline /\ OrderHeld /\ Winding /\ Emptied
  <2>1. /\ Tasks \subseteq Procs /\ Clients \subseteq Procs /\ Cleanup \in Procs
        /\ ~Ending
    BY <1>5, Sorts DEF Ending, Tasks, Procs
  <2>2. Discipline
    BY <1>5, <1>9, <1>10, <2>1 DEF Discipline
  <2>3. OrderHeld
    BY <1>9, <1>10, <2>1 DEF OrderHeld
  <2>4. Winding
    BY <1>5, <1>9, <1>10, <2>1 DEF Winding
  <2>5. Emptied
    BY <1>9, <1>10, <2>1 DEF Emptied
  <2> QED BY <2>2, <2>3, <2>4, <2>5
<1>15. Counted
  <2>1. IsFiniteSet(Clients) /\ Early \subseteq Clients
    BY DaemonConstants DEF Early
  <2>2. Cardinality(Early) <= Cardinality(Clients) /\ Cardinality(Early) \in Nat
    BY <2>1, FS_Subset, FS_CardinalityType
  <2> QED BY <1>4, <2>2 DEF Counted
<1> QED BY <1>6, <1>11, <1>12, <1>13, <1>14, <1>15 DEF Typed, Disciplined

LEMMA InitIInv == Init => IInv
<1> SUFFICES ASSUME Init PROVE IInv
  OBVIOUS
<1>1. Typed /\ Disciplined
  BY InitTyped
<1>2. Live(sched) = {} /\ sched.nextSequence = 0
  <2>1. PICK limits \in LimitsSet : sched = NewScheduler(limits, 0)
    BY DEF Init
  <2>2. limits \in SchedulerLimits
    BY DaemonConstants
  <2>3. Live(sched) = {}
    BY <2>1, <2>2, NewSchedulerSound
  <2>4. sched.nextSequence = 0
    BY <2>1 DEF NewScheduler
  <2> QED BY <2>3, <2>4
<1>3. /\ queue = <<>> /\ loop.todo = <<>> /\ \A p \in Procs : tasks[p] = Idle
      /\ rows = [i \in Ids |-> [state |-> None, by |-> None]]
  BY DEF Init
<1>4. DOMAIN queue = {} /\ Range(<<>>) = {} /\ \A p \in Procs : tasks[p].todo = <<>>
  BY <1>3 DEF Idle, Range
<1>5. \A b \in Holders : \A snap : snap \notin Carries(b)
  BY <1>3, <1>4, HoldersApart, CarriedWhere
<1>6. Accepted = {}
  BY <1>2 DEF Accepted
<1>12. RoomKept
  <2>1. PICK limits \in LimitsSet : sched = NewScheduler(limits, 0)
    BY DEF Init
  <2>2. limits \in SchedulerLimits
    BY DaemonConstants
  <2>3. Sound(sched)
    BY <2>1, <2>2, NewSchedulerSound
  <2>4. Closed(sched) = {}
    BY <2>1 DEF NewScheduler, Closed, EmptyLine
  <2> QED BY <1>2, <2>3, <2>4, EmptyRoomy DEF RoomKept
<1>7. PinsHeld
  BY <1>2 DEF PinsHeld
<1>8. MailAwaited /\ OneClient
  BY <1>4, <1>5, HoldersApart DEF MailAwaited, OneClient
<1>9. ContentsPresent /\ ClosesKept /\ ContentsKept
  BY <1>2, <1>5, <1>6 DEF ContentsPresent, ClosesKept, ContentsKept
<1>10. ClientCloses
  <2>1. \A i \in Ids : rows[i].by \notin Clients
    BY <1>3, Sorts DEF Procs
  <2> QED BY <2>1 DEF ClientCloses
<1>11. FlushInLine
  <2>1. tasks[Cleanup].pc = "idle"
    BY <1>3, Sorts DEF Idle
  <2> QED BY <2>1 DEF FlushInLine, At
<1> QED BY <1>1, <1>7, <1>8, <1>9, <1>10, <1>11, <1>12 DEF IInv, HistorySound

LEMMA NextIInv == IInv /\ [Next]_vars => IInv'
<1> SUFFICES ASSUME IInv, [Next]_vars PROVE IInv'
  OBVIOUS
<1>1. /\ Typed /\ Disciplined /\ PinsHeld /\ MailAwaited /\ OneClient /\ FlushInLine
      /\ RoomKept /\ Told
  BY DEF IInv, HistorySound, Told
<1>2. Step
  BY <1>1, NextSteps
<1>3. Typed' /\ Disciplined' /\ PinsHeld' /\ MailAwaited' /\ OneClient' /\ FlushInLine'
  BY <1>1, <1>2, TypedKept, DisciplinedKept, PinsHeldKept, MailAwaitedKept,
     OneClientKept, FlushInLineKept
<1>4. Told' /\ RoomKept'
  BY <1>1, <1>2, ToldKept, RoomStays
<1> QED BY <1>3, <1>4 DEF IInv, HistorySound, Told

LEMMA AlwaysIInv == Spec => []IInv
BY InitIInv, NextIInv, PTL DEF Spec

-----------------------------------------------------------------------------
(* The theorems.                                                           *)

\* Only a clock that the reconcile loop overtook, or a task aborted by the
\* shutdown, leaves a Notification pinned with no jump to decide it: every other
\* way out of a jump commits it, cancels it, or finds it gone.
THEOREM PinsAreLostByClock == Spec => []PinLostOnlyByClock
<1>1. IInv => PinLostOnlyByClock
  BY DEF IInv, PinsHeld, Held, Excused, PinLostOnlyByClock
<1> QED BY <1>1, AlwaysIInv, PTL

\* A snapshot carried is one of those under way.
LEMMA CarriedIds ==
  ASSUME Typed, NEW b \in Holders, NEW snap \in Carries(b)
  PROVE  snap.id \in Carried
<1>1. CASE b = "loop" /\ snap \in Range(loop.todo)
  <2>1. loop.todo \in Seq(Snapshot)
    BY DEF Typed, ControlTyped
  <2>2. snap.id \in Sent(loop.todo)
    BY <1>1, <2>1, SnapshotIds
  <2> QED BY <2>2 DEF Carried
<1>2. CASE b # "loop" /\ snap \in Range(tasks[b].todo)
  <2>1. b \in Procs /\ tasks[b].todo \in Seq(Snapshot)
    BY <1>2, HoldersApart, TaskFacts
  <2>2. snap.id \in Sent(tasks[b].todo)
    BY <1>2, <2>1, SnapshotIds
  <2> QED BY <2>1, <2>2 DEF Carried
<1>3. CASE \E n \in DOMAIN queue : queue[n].by = b /\ queue[n].snap = snap
  BY <1>3 DEF Carried
<1> QED BY <1>1, <1>2, <1>3, CarriedWhere

LEMMA IInvTyped == IInv => TypeOK
<1> SUFFICES ASSUME Typed PROVE TypeOK
  BY DEF IInv
<1>1. clock \in Nat /\ IsState(sched) /\ sched.lastNow <= clock
  BY DEF Typed, SchedulerFits, Fit, Sound
<1>2. ASSUME NEW p \in Procs
      PROVE  /\ DOMAIN tasks[p] = DOMAIN Idle
             /\ tasks[p].pc \in {"idle", "waiting", "received", "ready", "begun",
                  "switching", "switched", "refused", "persist", "receipt",
                  "flushing", "flushed", "answered", "aborted"}
             /\ tasks[p].at \in 0 .. clock
             /\ tasks[p].todo \in Seq(Snapshot)
  <2>1. tasks[p] \in Task /\ tasks[p].at \in 0 .. clock /\ tasks[p].todo \in Seq(Snapshot)
    BY TaskFacts
  <2>2. DOMAIN tasks[p] = DOMAIN Idle
    BY <2>1 DEF Task, Idle
  <2>3. tasks[p].pc \in PlacesOfClient \cup PlacesOfRenderer \cup PlacesOfCleanup
    BY <2>1 DEF Task
  <2> QED BY <2>1, <2>2, <2>3 DEF PlacesOfClient, PlacesOfRenderer, PlacesOfCleanup
<1>3. /\ order \in Clients \cup {None} /\ backend \in Tasks \cup {None}
      /\ loop.todo \in Seq(Snapshot)
  BY DEF Typed, ControlTyped
<1>4. /\ Len(queue) <= HistoryCapacity /\ lost \cup recorded \subseteq Ids
      /\ queue \in Seq(Mail)
  BY DEF Typed, HistoryTyped
<1>5. \A n \in DOMAIN queue : queue[n].snap \in Snapshot \cup [id : {None}]
  <2>1. \A n \in DOMAIN queue : queue[n] \in Mail
    BY <1>4
  <2> QED BY <2>1 DEF Mail, Mark
<1> QED BY <1>1, <1>2, <1>3, <1>4, <1>5 DEF TypeOK

LEMMA IInvStopped == IInv => StoppedIsRecorded
<1> SUFFICES ASSUME IInv, daemon = "stopped"
             PROVE  /\ Live(sched) = {} /\ Closed(sched) = {}
                    /\ \A i \in Accepted \ (recorded \cup lost) :
                         \/ Panicked \/ tasks[Cleanup].error = "QueueFull"
                         \/ i \in Sent(loop.todo)
                         \/ \E n \in DOMAIN queue : queue[n].snap.id = i /\ queue[n].late
  BY DEF StoppedIsRecorded
<1>1. Typed /\ Disciplined /\ ClosesKept /\ FlushInLine
  BY DEF IInv, HistorySound
<1>2. (\A t \in Tasks : Ended(t)) /\ tasks[Cleanup].pc = "flushed"
  BY <1>1 DEF Disciplined, Winding
<1>3. Live(sched) = {} /\ Closed(sched) = {}
  BY <1>1, <1>2 DEF Disciplined, Emptied
<1>4. \A p \in Procs : tasks[p].todo = <<>>
  <2>1. \A p \in Procs : tasks[p].pc \notin {"persist", "receipt"}
    BY <1>2, Sorts DEF Ended
  <2> QED BY <1>1, <2>1, Flight
<1>5. ASSUME NEW i \in Accepted \ (recorded \cup lost), ~Panicked,
             tasks[Cleanup].error # "QueueFull", i \notin Sent(loop.todo)
      PROVE  \E n \in DOMAIN queue : queue[n].snap.id = i /\ queue[n].late
  <2>1. PICK b \in Holders : Closing(i) \in Carries(b)
    BY <1>1, <1>3, <1>5 DEF ClosesKept
  <2>2. Closing(i).id = i
    BY DEF Closing
  <2>3. Closing(i) \notin Range(loop.todo)
    <3>1. loop.todo \in Seq(Snapshot)
      BY <1>1 DEF Typed, ControlTyped
    <3> QED BY <1>5, <2>2, <3>1, SnapshotIds
  <2>4. b # "loop" => Closing(i) \notin Range(tasks[b].todo)
    BY <1>4, HoldersApart DEF Range
  <2>5. PICK n \in DOMAIN queue : queue[n].snap = Closing(i)
    BY <2>1, <2>3, <2>4, CarriedWhere
  <2>6. queue[n].late
    BY <1>1, <1>2, <1>5 DEF FlushInLine, At
  <2> QED BY <2>2, <2>5, <2>6
<1> QED BY <1>3, <1>5

\* History hears of every Notification, one that max_pending suppresses
\* included: until a close or a present content is in the database or lost, some
\* process carries it or the scheduler keeps its record, and a stopped daemon
\* has told all that was sent before its flush.  Lost are what a full queue
\* refused, what SQLite failed to write, what an aborted task held, and what
\* the tick that took other limits cut off `closed`; nothing is said after the
\* `.expect` of enforce_pending_limit has failed.
THEOREM HistoryHears == Spec => []HistoryIsTold
<1>1. ASSUME IInv PROVE HistoryIsTold
  <2>1. Typed /\ ClosesKept /\ ContentsKept
    BY <1>1 DEF IInv, HistorySound
  <2>2. CloseReachesHistory
    <3>1. \A b \in Holders : \A i : Closing(i) \in Carries(b) => i \in Carried
      <4>1. \A i : Closing(i).id = i
        BY DEF Closing
      <4> QED BY <2>1, <4>1, CarriedIds
    <3> QED BY <2>1, <3>1 DEF ClosesKept, CloseReachesHistory
  <2>3. RowIsCurrent
    <3>1. \A b \in Holders : \A snap \in Carries(b) : snap.id \in Carried
      BY <2>1, CarriedIds
    <3> QED BY <2>1, <3>1 DEF ContentsKept, RowIsCurrent
  <2> QED BY <1>1, <2>2, <2>3, IInvTyped, IInvStopped DEF HistoryIsTold
<1> QED BY <1>1, AlwaysIInv, PTL

\* No step opens a row again that a client's request closed.
LEMMA RowStaysClosed ==
  ASSUME IInv, [Next]_vars, NEW i \in Ids, rows[i].state = "closed", rows[i].by \in Clients
  PROVE  rows'[i].state = "closed"
<1>1. Typed /\ Disciplined /\ MailAwaited /\ ClientCloses
  BY DEF IInv, HistorySound
<1>2. Step
  BY <1>1, NextSteps
<1>3. CASE rows' = rows
  BY <1>3
<1>4. CASE Sheds
  <2>1. ASSUME Written(i) PROVE rows'[i].state = "closed"
    <3>1. PICK b \in Holders : \E snap \in Carries(b) :
            snap.id = i /\ rows'[i].state = snap.state
      BY <2>1 DEF Written
    <3>2. PICK snap \in Carries(b) : snap.id = i /\ rows'[i].state = snap.state
      BY <3>1
    <3>3. ~IsContent(snap)
      BY <1>1, <3>2 DEF ClientCloses
    <3>4. IsClose(snap)
      BY <1>1, <3>2, <3>3, CarriedTyped, IdsFinite
    <3> QED BY <3>2, <3>4 DEF IsClose
  <2> QED BY <1>4, <2>1 DEF Sheds
<1>5. CASE StepQuiet \/ StepDies \/ \E done : StepTicks(done)
  BY <1>3, <1>5 DEF StepQuiet, StepDies, StepTicks, history
<1>6. CASE \E p : OneMoves(p)
  BY <1>3, <1>6, OneMovesHistory
<1>7. CASE \E T, pc : StepDrops(T, pc)
  BY <1>3, <1>7 DEF StepDrops
<1>8. CASE MailStep
  BY <1>1, <1>4, <1>8, MailSheds
<1> QED BY <1>2, <1>5, <1>6, <1>7, <1>8 DEF Step, OneMoves, MailStep

\* A row that a client's request closed stays closed: request_order is held until
\* the receipt, so no other request carries an older content of the Notification.
THEOREM ClientClosesAreFinal == Spec => ClientCloseIsFinal
<1>1. IInv /\ [Next]_vars =>
        \A i \in Ids : rows[i].state = "closed" /\ rows[i].by \in Clients =>
                         rows'[i].state = "closed"
  BY RowStaysClosed
<1> QED BY <1>1, AlwaysIInv, PTL DEF Spec, ClientCloseIsFinal

=============================================================================
