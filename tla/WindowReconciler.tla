-------------------------- MODULE WindowReconciler --------------------------
(***************************************************************************)
(* WindowReconciler (src/daemon/reconcile.rs): one tick after the other    *)
(* makes the displays of every viewed window follow the scheduler's plan,  *)
(* while clients come and go, panes die, tmux commands fail and the        *)
(* control connection is lost.                                             *)
(*                                                                         *)
(* A tick is one step: it holds the locks of the scheduler and of the      *)
(* backend, and what tmux does meanwhile shows as a command that fails or  *)
(* as a change before or after it.  The scheduler is here what a tick sees *)
(* of it; LiveScheduler is about the rest.                                 *)
(***************************************************************************)
EXTENDS TmuxDisplays

CONSTANTS
  Styles,       \* display policies
  Animated,     \* those with animation.enabled
  MaxAttempts,  \* MAX_RENDER_ATTEMPTS
  MaxChanges,   \* bound on what the scheduler, the clients and users do
  MaxFailures   \* bound on the calls in which tmux fails

ASSUME ReconcilerConstants ==
  /\ Animated \subseteq Styles
  /\ MaxAttempts \in Nat \ {0} /\ MaxChanges \in Nat /\ MaxFailures \in Nat

VARIABLES
  plan,       \* the scheduler's display plan: its Notifications in order
  text,       \* what they say
  closed,     \* closed Notifications
  revised,    \* the content revision moved on since the last tick
  available,  \* set_display_available: do the timeouts run
  rec,        \* the reconciler
  ripe,       \* whose time has come: the retry of a window, "reconnect",
              \* "motion"
  changes, failures

sched == <<plan, text, closed, revised, available>>
vars == <<tmux, sched, rec, ripe, changes, failures>>

Empty == [x \in {} |-> 0]
Displays == [id : Ids, win : Windows]

\* The plans the scheduler may make: one Attention, or Toasts.
Plans(says, gone) ==
  LET toasts == {n \in Ids \ gone : says[n] \notin Modal}
  IN  {<<n>> : n \in {n \in Ids \ gone : says[n] \in Modal}} \cup
      {p \in UNION {[1 .. k -> toasts] : k \in 0 .. Cardinality(toasts)} :
         \A i, j \in DOMAIN p : p[i] = p[j] => i = j}

Init ==
  /\ viewed \in Views
  /\ drawn = [w \in Windows |-> Empty]
  /\ dead = [w \in Windows |-> {}]
  /\ heard = {}
  /\ text \in [Ids -> Contents] /\ plan \in Plans(text, {})
  /\ closed = {} /\ revised = FALSE
  /\ available = FALSE
  /\ \E style \in Styles :
       rec = [connected |-> FALSE, dirty |-> TRUE, successful |-> {},
              retries |-> Empty, seen |-> Empty, projected |-> {},
              target |-> Empty, motions |-> Empty, exiting |-> Empty,
              style |-> style]
  /\ ripe = {"reconnect"}
  /\ changes = 0 /\ failures = 0

-----------------------------------------------------------------------------
(* The first part of a tick: events and the topology.                      *)

\* A TopologyChanged among the events.
Invalidated == rec.connected /\ "changed" \in heard

\* Fault: an event only gives failed windows another chance.
ListenedForRetries == IF Invalidated THEN [rec EXCEPT !.retries = Empty] ELSE rec

Listened ==
  IF Invalidated THEN [rec EXCEPT !.dirty = TRUE, !.retries = Empty] ELSE rec

\* disconnect and schedule_reconnect.
Disconnected(r) == [r EXCEPT !.connected = FALSE, !.successful = {}]

GoesOn == IF rec.connected THEN "gone" \notin heard ELSE "reconnect" \in ripe
Looks == GoesOn /\ (~rec.connected \/ Listened.dirty)

\* snapshot, with prune_missing_displays.
Pruned == IF Looks THEN [w \in Windows |-> Restricted(drawn[w], Ids \ dead[w])] ELSE drawn
Missing == IF Looks THEN [w \in Windows |-> {}] ELSE dead

\* Fault: a new connection starts from nothing.
LookedAnew(new) ==
  [Listened EXCEPT !.connected = TRUE, !.seen = IF Looks THEN viewed ELSE @,
                   !.projected = IF rec.connected THEN @ \ closed ELSE {},
                   !.retries = IF new \/ ~rec.connected THEN Empty ELSE @,
                   !.dirty = @ \/ ~rec.connected]

\* The reconciler with the topology it goes on with; `new` when a snapshot is
\* not the last one.
Looked(new) ==
  LET r == [Listened EXCEPT !.connected = TRUE,
                            !.seen = IF Looks THEN viewed ELSE @,
                            !.projected = @ \ closed]
  IN  IF ~rec.connected THEN [r EXCEPT !.dirty = TRUE, !.retries = Empty]
      ELSE IF new THEN [r EXCEPT !.retries = Empty]
      ELSE r

\* Snapshots differ when the views do, and may when panes do.
News == IF ~Looks THEN {FALSE} ELSE IF viewed # rec.seen THEN {TRUE} ELSE BOOLEAN

-----------------------------------------------------------------------------
(* The target, and the displays that move.                                 *)

Attends(p) == \E n \in ToSet(p) : text[n] \in Modal

\* planned_attention and planned_toasts: an Attention always fits.
Fitting(room) ==
  IF Attends(plan) THEN plan
  ELSE SubSeq(plan, 1, IF room < Len(plan) THEN room ELSE Len(plan))

\* build_plan.  An Attention is in the middle; Toasts have slots.
Target(r) ==
  [w \in DOMAIN r.seen |->
     LET ids     == Fitting(r.seen[w])
         slot(n) == IF text[n] \in Modal THEN 0 ELSE SelectInSeq(ids, LAMBDA m : m = n)
     IN  [order |-> ids,
          looks |-> [n \in ToSet(ids) |-> [content |-> text[n], style |-> r.style,
                                           place |-> <<r.seen[w], slot(n)>>]]]]

\* Where a display is that slides in or out: no window without room has a slot.
Outside == <<0, 1>>

Has(target, d) == d.win \in DOMAIN target /\ d.id \in DOMAIN target[d.win].looks
LookIn(target, d) == target[d.win].looks[d.id]
ToastIn(target, d) == Has(target, d) /\ LookIn(target, d).content \notin Modal

\* update_animations.
Moved(r, target) ==
  LET gone(d)   == Has(r.target, d) /\ ~Has(target, d)
      stops     == {d \in Displays :
                      \/ gone(d) /\ d.id \notin closed
                      \/ /\ Has(r.target, d) /\ Has(target, d)
                         /\ LookIn(target, d).place # LookIn(r.target, d).place}
      enters    == {d \in Displays : /\ ToastIn(target, d) /\ ~Has(r.target, d)
                                     /\ d.id \notin r.projected}
      leaves    == {d \in Displays : gone(d) /\ ToastIn(r.target, d) /\ d.id \in closed}
      motions   == Restricted(r.motions, Displays \ stops)
      from(d)   == IF d \in DOMAIN motions /\ motions[d] # "exit" THEN Outside
                   ELSE LookIn(r.target, d).place
  IN  IF r.style \notin Animated THEN [r EXCEPT !.motions = Empty, !.exiting = Empty]
      ELSE [r EXCEPT
              !.motions = [d \in DOMAIN motions \cup enters \cup leaves |->
                             IF d \in leaves THEN "exit"
                             ELSE IF d \in enters THEN "enter" ELSE motions[d]],
              !.exiting = [d \in (DOMAIN @ \ stops) \cup leaves |->
                             IF d \in leaves
                             THEN [LookIn(r.target, d) EXCEPT !.place = from(d)]
                             ELSE @[d]]]

\* AnimationRuntime::advance when the time of the motions in `over` is over: an
\* exit is drawn outside once, then taken away.
Advanced(r, over) ==
  LET done == {d \in DOMAIN r.motions :
                 r.motions[d] = "finished" \/ (d \in over /\ r.motions[d] = "enter")}
  IN  [r EXCEPT
         !.motions = [d \in DOMAIN @ \ done |->
                        IF d \in over THEN "finished" ELSE @[d]],
         !.exiting = Restricted(@, Displays \ done),
         !.dirty = @ \/ done \cup (over \cap DOMAIN r.motions) # {}]

\* What a window shows as planned and as it leaves, with what moves where it is.
Staged(r, target, w) ==
  LET own     == IF w \in DOMAIN target THEN target[w] ELSE Nothing
      left    == {d.id : d \in {d \in DOMAIN r.exiting : d.win = w}} \ DOMAIN own.looks
      look(d) == LET l == IF Has(target, d) THEN LookIn(target, d) ELSE r.exiting[d]
                 IN  IF d \in DOMAIN r.motions /\ r.motions[d] # "exit"
                     THEN [l EXCEPT !.place = Outside] ELSE l
  IN  [order |-> own.order, leaving |-> left,
       looks |-> [n \in DOMAIN own.looks \cup left |-> look([id |-> n, win |-> w])]]

Staging(r, target) == DOMAIN target \cup {d.win : d \in DOMAIN r.exiting}

\* AnimationRuntime::apply.
Desired(r, target) == [w \in Staging(r, target) |-> Staged(r, target, w)]

\* The middle of a tick: from the topology to what it wants to be drawn.
Planned(new) ==
  LET r      == Looked(new)
      heeded == IF revised THEN [r EXCEPT !.retries = Empty, !.dirty = TRUE] ELSE r
      target == Target(heeded)
      moved  == Moved(heeded, target)
      over   == IF "motion" \notin ripe THEN {}
                ELSE {d \in DOMAIN r.motions \cap DOMAIN moved.motions :
                        moved.motions[d] = r.motions[d]}
  IN  Advanced([moved EXCEPT !.projected = @ \cup ToSet(plan), !.target = target,
                             !.dirty = @ \/ target # r.target], over)

-----------------------------------------------------------------------------
(* The last part: the report.                                              *)

RetryDue(r) == \E w \in DOMAIN r.retries : r.retries[w] < MaxAttempts /\ w \in ripe

\* record_failure.  Beyond MaxAttempts the number makes no difference.
WithFailures(retries, ws) ==
  [w \in DOMAIN retries \cup ws |->
     IF w \notin DOMAIN retries THEN 1
     ELSE IF w \in ws /\ retries[w] < MaxAttempts THEN retries[w] + 1
     ELSE retries[w]]

\* apply_report: a failed update does not take back what was confirmed.
Reported(r, o, desired) ==
  LET eligible == DOMAIN r.seen
      applied  == Applied(o, desired) \cap eligible
      shows(w) == Wanted(desired[w]) # {}
  IN  [r EXCEPT !.dirty = FALSE,
                !.successful = ((@ \cap eligible) \ applied) \cup {w \in applied : shows(w)},
                !.retries = WithFailures(Restricted(@, Windows \ applied), Failed(o))]

\* Fault: one window is enough.
ExhaustedSomewhere(r, desired) ==
  \E w \in DOMAIN desired : /\ Wanted(desired[w]) # {} /\ w \in DOMAIN r.retries
                            /\ r.retries[w] >= MaxAttempts

Exhausted(r, desired) ==
  LET content == {w \in DOMAIN desired : Wanted(desired[w]) # {}}
  IN  /\ content # {} /\ r.successful = {}
      /\ \A w \in content : w \in DOMAIN r.retries /\ r.retries[w] >= MaxAttempts

\* The timers that still wait to be heard after a tick that left `r`, failed in
\* `failed` and, when it `moves`, advanced the motions.
StillRipe(r, failed, moves) ==
  {x \in ripe :
     /\ x \in Windows => x \in DOMAIN r.retries \ failed
     /\ x = "motion" => ~moves
     /\ x = "reconnect" => ~GoesOn /\ ~rec.connected}

Drawn(o) ==
  /\ drawn' = [w \in Windows |-> o[w].shown]
  /\ dead' = [w \in Windows |-> o[w].gone]

Fails(n) == failures' = failures + n /\ failures' <= MaxFailures

-----------------------------------------------------------------------------
(* tick, by the way it ends.                                               *)

\* Fault: the wait for a new connection does not stop the timeouts.
WaitsRunning ==
  /\ ~GoesOn
  /\ rec' = Disconnected(Listened)
  /\ ripe' = StillRipe(rec', {}, FALSE)
  /\ heard' = IF rec.connected THEN {} ELSE heard
  /\ UNCHANGED <<viewed, drawn, dead, sched, changes, failures>>

Waits ==
  /\ ~GoesOn
  /\ rec' = Disconnected(Listened)
  /\ ripe' = StillRipe(rec', {}, FALSE)
  /\ heard' = IF rec.connected THEN {} ELSE heard
  /\ available' = FALSE
  /\ UNCHANGED <<viewed, drawn, dead, plan, text, closed, revised, changes, failures>>

\* The snapshot, or a new connection, fails.
LooksInVain ==
  /\ Looks
  /\ rec' = Disconnected(Listened)
  /\ ripe' = StillRipe(rec', {}, FALSE)
  /\ heard' = {}
  /\ available' = FALSE
  /\ Fails(1)
  /\ UNCHANGED <<viewed, drawn, dead, plan, text, closed, revised, changes>>

\* No window is viewed: every display is closed.
NothingViewed ==
  /\ GoesOn
  /\ \E new \in News :
       LET r == [Looked(new) EXCEPT !.motions = Empty, !.exiting = Empty]
       IN  /\ DOMAIN r.seen = {}
           /\ available' = FALSE
           /\ IF r.dirty \/ r.successful # {} \/ RetryDue(r)
              THEN \/ \E o \in Outcomes(Pruned, Missing, Empty) :
                        /\ Drawn(o) /\ heard' = {} /\ Fails(Cardinality(Struck(o)))
                        /\ rec' = [r EXCEPT !.successful = {}, !.dirty = FALSE,
                                     !.retries = IF Failed(o) = {} THEN Empty
                                                 ELSE WithFailures(@, Failed(o))]
                        /\ ripe' = StillRipe(rec', Failed(o), TRUE)
                   \/ /\ heard' = {} /\ Fails(1)
                      /\ \E o \in CutShort(Pruned, Missing, Empty) : Drawn(o)
                      /\ rec' = Disconnected(r)
                      /\ ripe' = StillRipe(rec', {}, TRUE)
              ELSE /\ rec' = [r EXCEPT !.successful = {}, !.dirty = FALSE]
                   /\ ripe' = StillRipe(rec', {}, TRUE)
                   /\ heard' = {} /\ drawn' = Pruned /\ dead' = Missing
                   /\ UNCHANGED failures
  /\ UNCHANGED <<viewed, plan, text, closed, revised, changes>>

\* Nothing is to be done.
Idles(r) ==
  /\ ~r.dirty /\ ~RetryDue(r)
  /\ rec' = r
  /\ available' = (r.successful # {})
  /\ drawn' = Pruned /\ dead' = Missing /\ heard' = {}
  /\ UNCHANGED <<plan, closed, failures>>
  /\ revised' = FALSE

\* The connection is lost under its commands.
LosesConnection(r, desired) ==
  /\ rec' = Disconnected(r)
  /\ available' = FALSE
  /\ heard' = {} /\ Fails(1)
  /\ \E o \in CutShort(Pruned, Missing, desired) : Drawn(o)
  /\ UNCHANGED <<plan, closed>>
  /\ revised' = FALSE

\* The report of reconcile is taken.
Reconciles(r, desired, o) ==
  LET reported == Reported(r, o, desired)
  IN  /\ ~Exhausted(reported, desired)
      /\ rec' = reported
      /\ available' = (reported.successful # {})
      /\ Drawn(o) /\ heard' = {} /\ Fails(Cardinality(Struck(o)))
      /\ UNCHANGED <<plan, closed>>
      /\ revised' = FALSE

\* Every window that should show something has used up its attempts: what the
\* plan holds is closed as RenderFailed, and what is drawn too, if tmux can.
GivesUp(r, desired, o) ==
  LET reported == Reported(r, o, desired)
      shown    == [w \in Windows |-> o[w].shown]
      gone     == [w \in Windows |-> o[w].gone]
  IN  /\ Exhausted(reported, desired)
      /\ rec' = [reported EXCEPT !.retries = Empty, !.projected = @ \ ToSet(plan)]
      /\ available' = FALSE
      /\ \/ \E p \in Outcomes(shown, gone, Empty) :
              /\ Drawn(p) /\ heard' = {}
              /\ Fails(Cardinality(Struck(o)) + Cardinality(Struck(p)))
         \/ \E p \in CutShort(shown, gone, Empty) :
              /\ Drawn(p) /\ heard' = {"gone"}
              /\ Fails(Cardinality(Struck(o)) + 1)
      /\ closed' = closed \cup ToSet(plan)
      /\ plan' \in Plans(text, closed')
      /\ revised' = TRUE

SomeViewed ==
  /\ GoesOn
  /\ \E new \in News :
       LET r       == Planned(new)
           desired == Desired(r, r.target)
       IN  /\ DOMAIN Looked(new).seen # {}
           /\ \/ Idles(r) /\ ripe' = StillRipe(r, {}, TRUE)
              \/ /\ r.dirty \/ RetryDue(r)
                 /\ \/ LosesConnection(r, desired) /\ ripe' = StillRipe(r, {}, TRUE)
                    \/ \E o \in Outcomes(Pruned, Missing, desired) :
                         /\ failures + Cardinality(Struck(o)) <= MaxFailures
                         /\ Reconciles(r, desired, o) \/ GivesUp(r, desired, o)
                         /\ ripe' = StillRipe(rec', Failed(o), TRUE)
  /\ UNCHANGED <<viewed, text, changes>>

Tick == Waits \/ LooksInVain \/ NothingViewed \/ SomeViewed

-----------------------------------------------------------------------------
(* What happens between two ticks.                                         *)

Changes == changes < MaxChanges /\ changes' = changes + 1

\* More Toasts are shown, an Attention takes over, or a lower limit takes the
\* last Toasts back.  A promotion alone does not move the content revision.
Rearrange ==
  /\ Changes
  /\ ~Attends(plan)
  /\ plan' \in {p \in Plans(text, closed) \ {plan} :
                  IsPrefix(plan, p) \/ IsPrefix(p, plan) \/ Attends(p)}
  /\ revised' \in IF IsPrefix(plan, plan') THEN {revised, TRUE} ELSE {TRUE}
  /\ UNCHANGED <<tmux, text, closed, available, rec, ripe, failures>>

\* The others stay where they are, unless it was the Attention.
Close(n) ==
  /\ Changes
  /\ n \notin closed
  /\ closed' = closed \cup {n}
  /\ plan' \in IF Attends(plan) /\ n \in ToSet(plan) THEN Plans(text, closed')
               ELSE {p \in Plans(text, closed') : IsPrefix(SelectSeq(plan, LAMBDA m : m # n), p)}
  /\ revised' = TRUE
  /\ UNCHANGED <<tmux, text, available, rec, ripe, failures>>

\* When its presentation changes it is Pending first, and may be promoted.
Update(n, c) ==
  /\ Changes
  /\ n \notin closed /\ c # text[n]
  /\ text' = [text EXCEPT ![n] = c]
  /\ plan' \in IF c \in Modal <=> text[n] \in Modal THEN {plan}
               ELSE IF c \in Modal THEN {IF Attends(plan) THEN plan ELSE <<n>>}
               ELSE IF n \in ToSet(plan) THEN Plans(text', closed) ELSE {plan}
  /\ revised' = TRUE
  /\ UNCHANGED <<tmux, closed, available, rec, ripe, failures>>

\* update_policy.
Restyle(s) ==
  /\ Changes
  /\ s # rec.style
  /\ rec' = [rec EXCEPT !.style = s, !.motions = Empty, !.exiting = Empty, !.dirty = TRUE]
  /\ UNCHANGED <<tmux, sched, ripe, failures>>

\* Clients attach, detach, move or resize.
ViewsChange ==
  /\ Changes
  /\ viewed' \in Views \ {viewed}
  /\ UNCHANGED <<drawn, dead, heard, sched, rec, ripe, failures>>

\* A pane is killed or its renderer exits.
PaneDies(w, n) ==
  /\ Changes
  /\ n \in DOMAIN drawn[w] \ dead[w]
  /\ dead' = [dead EXCEPT ![w] = @ \cup {n}]
  /\ UNCHANGED <<viewed, drawn, heard, sched, rec, ripe, failures>>

\* jump: the snapshot takes panes that are gone off the list, over a new
\* connection if the last one was lost; then, if the target is there, every
\* Attention display is closed, whether or not it gets further.
Jump ==
  LET modal(w) == {n \in DOMAIN drawn[w] : drawn[w][n].content \in Modal}
  IN  /\ Changes
      /\ \E goes \in BOOLEAN :
           drawn' = [w \in Windows |->
             Restricted(drawn[w], Ids \ (dead[w] \cup IF goes THEN modal(w) ELSE {}))]
      /\ dead' = [w \in Windows |-> {}]
      /\ heard' = heard \ {"gone"}
      /\ UNCHANGED <<viewed, sched, rec, ripe, failures>>

ConnectionBreaks ==
  /\ rec.connected /\ "gone" \notin heard
  /\ failures < MaxFailures /\ failures' = failures + 1
  /\ heard' = heard \cup {"gone"}
  /\ UNCHANGED <<viewed, drawn, dead, sched, rec, ripe, changes>>

TimePasses(x) ==
  /\ x \notin ripe
  /\ \/ x \in DOMAIN rec.retries
     \/ x = "reconnect" /\ ~rec.connected
     \/ x = "motion" /\ rec.connected /\ rec.motions # Empty
  /\ ripe' = ripe \cup {x}
  /\ UNCHANGED <<tmux, sched, rec, changes, failures>>

\* tmux tells of a change, of those above or of those the ticks make, or the
\* refresh interval has passed since the last snapshot.
TopologyEvent ==
  /\ rec.connected
  /\ heard' = heard \cup {"changed"}
  /\ UNCHANGED <<viewed, drawn, dead, sched, rec, ripe, changes, failures>>

Timers == Windows \cup {"reconnect", "motion"}

Elsewhere ==
  \/ Rearrange
  \/ \E n \in Ids : Close(n) \/ \E c \in Contents : Update(n, c)
  \/ \E s \in Styles : Restyle(s)
  \/ ViewsChange
  \/ \E w \in Windows, n \in Ids : PaneDies(w, n)
  \/ Jump
  \/ ConnectionBreaks
  \/ TopologyEvent
  \/ \E x \in Timers : TimePasses(x)

Next == Tick \/ Elsewhere

Spec == Init /\ [][Next]_vars
-----------------------------------------------------------------------------
(* Properties.                                                             *)

TypeOK ==
  /\ viewed \in Views
  /\ \A w \in Windows : DOMAIN drawn[w] \subseteq Ids /\ dead[w] \subseteq DOMAIN drawn[w]
  /\ heard \subseteq {"changed", "gone"}
  /\ plan \in Plans(text, closed)
  /\ rec.successful \subseteq DOMAIN rec.seen
  /\ DOMAIN rec.exiting \subseteq DOMAIN rec.motions
  /\ DOMAIN rec.retries \subseteq Windows
  /\ ripe \subseteq Timers

\* No timeout runs while the reconciler knows its connection to be lost: every
\* way a tick can find or lose it ends with set_display_available(false).
PausedWhileDisconnected == ~rec.connected => ~available

\* A failure in one window, a new connection or a retry never takes away a
\* display that its window should still show; only a jump closes some.
DisplaysPersist ==
  [][(drawn' # drawn /\ ~Jump) =>
     \A w \in DOMAIN rec'.target \cap DOMAIN rec'.seen, n \in Ids \ closed' :
       LET want == rec'.target[w].looks
       IN  (n \in (DOMAIN drawn[w] \ dead[w]) \cap DOMAIN want /\ SameKind(drawn[w][n], want[n]))
           => n \in DOMAIN drawn'[w]]_vars

\* A Toast that is drawn somewhere never slides in again: not in a window that
\* follows a client, after a lost connection or a failed attempt.
EnterOnlyWhenNew ==
  [][\A d \in DOMAIN rec'.motions :
       (rec'.motions[d] = "enter" /\ d \notin DOMAIN rec.motions)
       => \A w \in Windows : d.id \notin DOMAIN drawn[w]]_vars

\* Notifications are closed as RenderFailed only while no viewed window shows
\* just what it should: each lacks something, or has a pane that is gone or a
\* Toast that slides out, whose failures count as those of the others.
GivesUpOnlyUnshown ==
  [][(closed' # closed /\ Tick) =>
       \A w \in DOMAIN rec'.seen :
         rec'.target[w].order # <<>> =>
           \/ drawn[w] # rec'.target[w].looks
           \/ dead[w] # {}
           \/ \E d \in DOMAIN rec'.exiting : d.win = w]_vars

ShowsSomething == \E w \in DOMAIN rec.seen : drawn[w] # Empty

\* A tick with nothing to do that still counts on what a jump found gone.
Overlooks ==
  ~Looks /\ ~ShowsSomething /\ UNCHANGED drawn /\ rec'.successful = rec.successful

\* A tick that lets the timeouts of Toasts run and leaves no window to retry
\* has something drawn in a window somebody views.
RunsSeen ==
  [][(available' /\ rec'.retries = Empty /\ ~Attends(plan) /\ ~ShowsSomething' /\ Tick)
       => Overlooks]_vars

\* A failure costs a user nothing that can be seen: displays stay, nothing is
\* given up while it is shown, and time runs only for what is drawn.
FailuresAreLocal == []TypeOK /\ DisplaysPersist /\ GivesUpOnlyUnshown /\ RunsSeen
=============================================================================
