----------------------- MODULE WindowReconcilerProofs -----------------------
(***************************************************************************)
(* Proofs about WindowReconciler, for any windows, Notifications, policies *)
(* and bounds: that Toasts' timeouts pause while there is no connection,   *)
(* that nothing slides in twice, and that failures stay local.  The first  *)
(* two need IInv, which says which Notifications are drawn and remembered; *)
(* the third also LookInv, which says how they look.                       *)
(***************************************************************************)
EXTENDS WindowReconciler, TLAPS, FiniteSetTheorems

\* The fields of the reconciler's record.
RecFields == {"connected", "dirty", "successful", "retries", "seen", "projected",
              "target", "motions", "exiting", "style"}

\* The reconciler's record, whatever its fields hold.
IsRec(r) == r = [f \in RecFields |-> r[f]]

\* The plan is of Notifications that are live.
PlanIsLive == plan \in Seq(Ids \ closed)

\* Only what is closed slides out.
ExitingIsClosed(r) == \A d \in DOMAIN r.exiting : d.id \in closed

\* What is drawn was projected once, and is remembered until it is closed.
DrawnIsKnown == \A w \in Windows : DOMAIN drawn[w] \subseteq rec.projected \cup closed

\* Windows have room for a number of Toasts.
ViewsAreViews == viewed \in Views /\ rec.seen \in Views

\* The inductive invariant.
IInv ==
  /\ IsRec(rec) /\ ViewsAreViews /\ PlanIsLive /\ ExitingIsClosed(rec) /\ DrawnIsKnown
  /\ PausedWhileDisconnected

-----------------------------------------------------------------------------
(* Sequences and outcomes.                                                 *)

\* The members of a sequence.
LEMMA ToSetOfSeq ==
  ASSUME NEW S, NEW s \in Seq(S) PROVE ToSet(s) \subseteq S
  BY DEF ToSet

\* A plan is a sequence of live Notifications.
LEMMA PlansAreSeqs ==
  ASSUME NEW says, NEW gone PROVE Plans(says, gone) \subseteq Seq(Ids \ gone)
<1> DEFINE toasts == {n \in Ids \ gone : says[n] \notin Modal}
<1>1. Cardinality(toasts) \in Nat
  BY DisplayConstants, FS_Subset, FS_CardinalityType
<1>2. \A k \in 0 .. Cardinality(toasts) : [1 .. k -> toasts] \subseteq Seq(Ids \ gone)
  <2> TAKE k \in 0 .. Cardinality(toasts)
  <2>1. k \in Nat  BY <1>1
  <2> QED  BY <2>1
<1>3. \A n \in Ids \ gone : <<n>> \in Seq(Ids \ gone)
  OBVIOUS
<1> QED  BY <1>2, <1>3 DEF Plans

\* The plan cut to a window's room is a part of the plan.
LEMMA FittingIsPlanned ==
  ASSUME NEW S, plan \in Seq(S), NEW room \in Nat
  PROVE  ToSet(Fitting(room)) \subseteq ToSet(plan) /\ Fitting(room) \in Seq(S)
<1>1. CASE Attends(plan)  BY <1>1 DEF Fitting
<1>2. CASE ~Attends(plan)
  <2> DEFINE k == IF room < Len(plan) THEN room ELSE Len(plan)
  <2>1. k \in Nat /\ k <= Len(plan) /\ Len(plan) \in Nat  OBVIOUS
  <2>2. Fitting(room) = SubSeq(plan, 1, k)  BY <1>2 DEF Fitting
  <2> HIDE DEF k
  <2>3. /\ SubSeq(plan, 1, k) \in Seq(S) /\ Len(SubSeq(plan, 1, k)) = k
        /\ \A i \in 1 .. k : SubSeq(plan, 1, k)[i] = plan[i]
    BY <2>1
  <2> QED  BY <2>1, <2>2, <2>3 DEF ToSet
<1> QED  BY <1>1, <1>2

\* However far reconcile gets, a window shows what it showed or should show.
LEMMA ReachedShows ==
  ASSUME NEW shown, NEW gone, NEW want, NEW S, want.order \in Seq(S),
         NEW o \in Reached(shown, gone, want)
  PROVE  DOMAIN o.shown \subseteq DOMAIN shown \cup Wanted(want)
<1> DEFINE kept == Restricted(shown, Wanted(want))
<1>1. DOMAIN kept \subseteq DOMAIN shown  BY DEF Restricted
<1>2. \A done \in DrawnBefore(want) : done \subseteq Wanted(want)
  <2>1. \A p \in Prefixes(want.order) : ToSet(p) \subseteq ToSet(want.order)
    <3> TAKE p \in Prefixes(want.order)
    <3>1. PICK l \in 0 .. Len(want.order) : p = SubSeq(want.order, 1, l)
      BY DEF Prefixes
    <3>2. Len(p) = l /\ p \in Seq(S) /\ \A i \in 1 .. l : p[i] = want.order[i]
      BY <3>1
    <3> QED  BY <3>2 DEF ToSet
  <2> QED  BY <2>1 DEF DrawnBefore, Wanted
<1>3. \A done : DOMAIN Redrawn(kept, want, done) = DOMAIN kept \cup done
  BY DEF Redrawn
<1>4. \A s, n, look : \A t \in Undrawn(s, n, look) : DOMAIN t \subseteq DOMAIN s
  BY DEF Undrawn, Restricted
<1> DEFINE obsolete == DOMAIN shown \ Wanted(want)
           unclosed == {[shown |-> shown, gone |-> gone \cup killed, ok |-> FALSE,
                         struck |-> obsolete \cap gone = {}] : killed \in SUBSET obsolete}
           fallible(n) == n \notin DOMAIN kept \/ kept[n] # want.looks[n]
           stuck(done) == \E n \in done : CannotDraw(kept, gone, n, want.looks[n])
           fails(done, n) ==
             {[shown |-> s, gone |-> gone \cap DOMAIN s, ok |-> FALSE,
               struck |-> ~CannotDraw(kept, gone, n, want.looks[n])] :
                s \in Undrawn(Redrawn(kept, want, done), n, want.looks[n])}
           failed ==
             UNION {UNION {fails(done, n) : n \in {n \in NextToDraw(want, done) : fallible(n)}} :
                      done \in {done \in DrawnBefore(want) : ~stuck(done)}}
           all == [shown |-> Redrawn(kept, want, Wanted(want)), gone |-> gone \cap Wanted(want),
                   ok |-> TRUE, struck |-> FALSE]
<1>5. o \in unclosed \/ o \in failed \/ o = all
  <2>1. Reached(shown, gone, want) =
          (IF obsolete = {} THEN {} ELSE unclosed) \cup
          (IF obsolete \cap gone # {} THEN {}
           ELSE failed \cup (IF stuck(Wanted(want)) THEN {} ELSE {all}))
    BY Zenon DEF Reached
  <2> HIDE DEF unclosed, failed, all, obsolete, stuck
  <2> QED  BY <2>1
<1> HIDE DEF kept
<1>6. CASE o \in unclosed
  <2>1. o.shown = shown  BY <1>6
  <2> QED  BY <2>1
<1>7. CASE o \in failed
  <2>1. PICK done \in DrawnBefore(want) : \E n \in NextToDraw(want, done) : o \in fails(done, n)
    BY <1>7
  <2> PICK n \in NextToDraw(want, done) : o \in fails(done, n)
    BY <2>1
  <2>2. o.shown \in Undrawn(Redrawn(kept, want, done), n, want.looks[n])
    OBVIOUS
  <2>3. DOMAIN o.shown \subseteq DOMAIN Redrawn(kept, want, done)
    BY <2>2, <1>4
  <2>4. DOMAIN Redrawn(kept, want, done) = DOMAIN kept \cup done
    BY <1>3
  <2> QED  BY <2>3, <2>4, <1>1, <1>2
<1>8. CASE o = all
  BY <1>8, <1>1, <1>3
<1> QED  BY <1>5, <1>6, <1>7, <1>8

\* A reconcile shows only what was shown or is wanted.
LEMMA OutcomesShow ==
  ASSUME NEW shown, NEW gone, NEW desired, NEW S, NEW w \in Windows,
         Want(desired, w).order \in Seq(S),
         NEW o \in Outcomes(shown, gone, desired) \cup CutShort(shown, gone, desired)
  PROVE  DOMAIN o[w].shown \subseteq DOMAIN shown[w] \cup Wanted(Want(desired, w))
<1> DEFINE reached(v) == Reached(shown[v], gone[v], Want(desired, v))
           left(v) == [shown |-> shown[v], gone |-> gone[v], ok |-> FALSE, struck |-> TRUE]
<1>1. o[w] \in reached(w) \/ o[w] = left(w)
  <2>1. CASE o \in Outcomes(shown, gone, desired)
    <3>1. <<w, o[w]>> \in UNION {{v} \X reached(v) : v \in Windows}
      BY <2>1 DEF Outcomes, PerWindow
    <3> HIDE DEF reached
    <3> QED  BY <3>1
  <2>2. CASE o \in CutShort(shown, gone, desired)
    <3> DEFINE done(v) == {x \in reached(v) : x.ok}
    <3>1. <<w, o[w]>> \in UNION {{v} \X ({left(v)} \cup done(v)) : v \in Windows}
      BY <2>2 DEF CutShort, PerWindow
    <3>2. \A v : done(v) \subseteq reached(v)  OBVIOUS
    <3> HIDE DEF reached, left, done
    <3> QED  BY <3>1, <3>2
  <2> QED  BY <2>1, <2>2
<1>2. CASE o[w] \in reached(w)  BY <1>2, ReachedShows
<1>3. CASE o[w] = left(w)
  <2>1. o[w].shown = shown[w]  BY <1>3
  <2> QED  BY <2>1
<1> QED  BY <1>1, <1>2, <1>3

-----------------------------------------------------------------------------
(* What the parts of a tick leave of the reconciler.                       *)

\* Losing the connection leaves the reconciler's memory of displays.
LEMMA DisconnectedKeeps ==
  ASSUME NEW r, IsRec(r)
  PROVE  /\ IsRec(Disconnected(r)) /\ Disconnected(r).connected = FALSE
         /\ Disconnected(r).projected = r.projected /\ Disconnected(r).seen = r.seen
         /\ Disconnected(r).motions = r.motions /\ Disconnected(r).exiting = r.exiting
  BY DEF IsRec, RecFields, Disconnected

\* So does what the control client has told.
LEMMA ListenedKeeps ==
  ASSUME IsRec(rec)
  PROVE  /\ IsRec(Listened) /\ Listened.connected = rec.connected
         /\ Listened.projected = rec.projected /\ Listened.seen = rec.seen
         /\ Listened.motions = rec.motions /\ Listened.exiting = rec.exiting
  BY DEF IsRec, RecFields, Listened

\* So does a look at the windows, which finds Views.
LEMMA LookedKeeps ==
  ASSUME NEW new, IsRec(rec)
  PROVE  /\ IsRec(Looked(new)) /\ Looked(new).connected = TRUE
         /\ Looked(new).projected = rec.projected \ closed
         /\ Looked(new).seen \in {rec.seen, viewed}
         /\ Looked(new).motions = rec.motions /\ Looked(new).exiting = rec.exiting
  BY ListenedKeeps DEF IsRec, RecFields, Looked

\* So does apply_report.
LEMMA ReportedKeeps ==
  ASSUME NEW r, IsRec(r), NEW o, NEW desired
  PROVE  /\ IsRec(Reported(r, o, desired)) /\ Reported(r, o, desired).connected = r.connected
         /\ Reported(r, o, desired).projected = r.projected
         /\ Reported(r, o, desired).seen = r.seen
         /\ Reported(r, o, desired).motions = r.motions
         /\ Reported(r, o, desired).exiting = r.exiting
  BY DEF IsRec, RecFields, Reported

\* Motions that end enter nothing.
LEMMA AdvancedKeeps ==
  ASSUME NEW r, IsRec(r), NEW over
  PROVE  /\ IsRec(Advanced(r, over)) /\ Advanced(r, over).connected = r.connected
         /\ Advanced(r, over).projected = r.projected
         /\ Advanced(r, over).target = r.target /\ Advanced(r, over).seen = r.seen
         /\ DOMAIN Advanced(r, over).exiting \subseteq DOMAIN r.exiting
         /\ \A d \in DOMAIN Advanced(r, over).motions :
              /\ d \in DOMAIN r.motions
              /\ Advanced(r, over).motions[d] \in {"finished", r.motions[d]}
  BY DEF IsRec, RecFields, Advanced, Restricted

\* What slides in is planned and was not projected; what slides out is closed.
LEMMA MovedKeeps ==
  ASSUME NEW r, IsRec(r), NEW target
  PROVE  /\ IsRec(Moved(r, target)) /\ Moved(r, target).connected = r.connected
         /\ Moved(r, target).projected = r.projected /\ Moved(r, target).seen = r.seen
         /\ ExitingIsClosed(r) => ExitingIsClosed(Moved(r, target))
         /\ \A d \in DOMAIN Moved(r, target).motions :
              (Moved(r, target).motions[d] = "enter" /\ d \notin DOMAIN r.motions)
              => Has(target, d) /\ d.id \notin r.projected
<1> DEFINE gone(d) == Has(r.target, d) /\ ~Has(target, d)
           stops == {d \in Displays :
                       \/ gone(d) /\ d.id \notin closed
                       \/ /\ Has(r.target, d) /\ Has(target, d)
                          /\ LookIn(target, d).place # LookIn(r.target, d).place}
           enters == {d \in Displays : /\ ToastIn(target, d) /\ ~Has(r.target, d)
                                       /\ d.id \notin r.projected}
           leaves == {d \in Displays : gone(d) /\ ToastIn(r.target, d) /\ d.id \in closed}
           motions == Restricted(r.motions, Displays \ stops)
           from(d) == IF d \in DOMAIN motions /\ motions[d] # "exit" THEN Outside
                      ELSE LookIn(r.target, d).place
           inOut == [d \in DOMAIN motions \cup enters \cup leaves |->
                       IF d \in leaves THEN "exit" ELSE IF d \in enters THEN "enter" ELSE motions[d]]
           out == [d \in (DOMAIN r.exiting \ stops) \cup leaves |->
                     IF d \in leaves THEN [LookIn(r.target, d) EXCEPT !.place = from(d)]
                     ELSE r.exiting[d]]
<1>1. Moved(r, target) =
        IF r.style \notin Animated THEN [r EXCEPT !.motions = Empty, !.exiting = Empty]
        ELSE [r EXCEPT !.motions = inOut, !.exiting = out]
  BY Zenon DEF Moved
<1>2. \A d \in enters : Has(target, d) /\ d.id \notin r.projected
  BY DEF ToastIn
<1>3. \A d \in leaves : d.id \in closed
  OBVIOUS
<1>4. DOMAIN motions \subseteq DOMAIN r.motions
  BY DEF Restricted
<1>5. \A d \in DOMAIN inOut : (inOut[d] = "enter" /\ d \notin DOMAIN r.motions) => d \in enters
  <2> HIDE DEF enters, leaves, motions
  <2> QED  BY <1>4
<1>6. DOMAIN out \subseteq DOMAIN r.exiting \cup leaves
  <2> HIDE DEF stops, leaves, from
  <2> QED  OBVIOUS
<1> HIDE DEF inOut, out, enters, leaves
<1>7. CASE r.style \notin Animated
  <2>1. Moved(r, target) = [r EXCEPT !.motions = Empty, !.exiting = Empty]
    BY <1>1, <1>7
  <2>2. /\ IsRec(Moved(r, target)) /\ Moved(r, target).connected = r.connected
        /\ Moved(r, target).projected = r.projected /\ Moved(r, target).seen = r.seen
        /\ Moved(r, target).motions = Empty /\ Moved(r, target).exiting = Empty
    BY <2>1 DEF IsRec, RecFields
  <2> QED  BY <2>2 DEF ExitingIsClosed, Empty
<1>8. CASE r.style \in Animated
  <2>1. Moved(r, target) = [r EXCEPT !.motions = inOut, !.exiting = out]
    BY <1>1, <1>8
  <2>2. /\ IsRec(Moved(r, target)) /\ Moved(r, target).connected = r.connected
        /\ Moved(r, target).projected = r.projected /\ Moved(r, target).seen = r.seen
        /\ Moved(r, target).motions = inOut /\ Moved(r, target).exiting = out
    BY <2>1 DEF IsRec, RecFields
  <2> QED  BY <2>2, <1>2, <1>3, <1>5, <1>6 DEF ExitingIsClosed
<1> QED  BY <1>7, <1>8

-----------------------------------------------------------------------------
(* What a tick wants to be drawn.                                          *)

\* A target shows a part of the plan in every window.
Targets(target) ==
  \A w \in DOMAIN target :
    /\ target[w].order \in Seq(Ids \ closed)
    /\ ToSet(target[w].order) \subseteq ToSet(plan)
    /\ DOMAIN target[w].looks = ToSet(target[w].order)

\* A target is of the plan.
LEMMA TargetIsPlanned ==
  ASSUME NEW r, r.seen \in Views, PlanIsLive PROVE Targets(Target(r))
<1> SUFFICES ASSUME NEW w \in DOMAIN Target(r)
             PROVE  /\ Target(r)[w].order \in Seq(Ids \ closed)
                    /\ ToSet(Target(r)[w].order) \subseteq ToSet(plan)
                    /\ DOMAIN Target(r)[w].looks = ToSet(Target(r)[w].order)
  BY DEF Targets
<1>1. DOMAIN Target(r) = DOMAIN r.seen
  BY DEF Target
<1>2. r.seen[w] \in Nat
  BY <1>1, DisplayConstants DEF Views
<1> DEFINE ids == Fitting(r.seen[w])
           slot(n) == IF text[n] \in Modal THEN 0 ELSE SelectInSeq(ids, LAMBDA m : m = n)
           looks == [n \in ToSet(ids) |-> [content |-> text[n], style |-> r.style,
                                           place |-> <<r.seen[w], slot(n)>>]]
<1>3. Target(r)[w] = [order |-> ids, looks |-> looks]
  BY <1>1, Zenon DEF Target
<1>4. DOMAIN looks = ToSet(ids)
  OBVIOUS
<1> HIDE DEF looks
<1> QED  BY <1>2, <1>3, <1>4, FittingIsPlanned DEF PlanIsLive

\* After the middle of a tick the plan is projected, and what begins to slide in
\* was neither projected before nor closed.
LEMMA PlannedKeeps ==
  ASSUME NEW new, IsRec(rec), ExitingIsClosed(rec), PlanIsLive, ViewsAreViews
  PROVE  LET r == Planned(new)
         IN  /\ IsRec(r) /\ r.connected = TRUE
             /\ r.projected = (rec.projected \ closed) \cup ToSet(plan)
             /\ r.seen \in Views /\ ExitingIsClosed(r) /\ Targets(r.target)
             /\ \A d \in DOMAIN r.motions :
                  (r.motions[d] = "enter" /\ d \notin DOMAIN rec.motions)
                  => d.id \notin rec.projected \cup closed
<1> DEFINE r == Looked(new)
           heeded == IF revised THEN [r EXCEPT !.retries = Empty, !.dirty = TRUE] ELSE r
           target == Target(heeded)
           moved == Moved(heeded, target)
           over == IF "motion" \notin ripe THEN {}
                   ELSE {d \in DOMAIN r.motions \cap DOMAIN moved.motions :
                           moved.motions[d] = r.motions[d]}
           ready == [moved EXCEPT !.projected = @ \cup ToSet(plan), !.target = target,
                                  !.dirty = @ \/ target # r.target]
<1>1. Planned(new) = Advanced(ready, over)
  BY Zenon DEF Planned
<1>2. /\ IsRec(r) /\ r.connected = TRUE /\ r.projected = rec.projected \ closed
      /\ r.seen \in Views /\ r.motions = rec.motions /\ r.exiting = rec.exiting
  BY LookedKeeps DEF ViewsAreViews
<1> HIDE DEF r
<1>3. /\ IsRec(heeded) /\ heeded.connected = TRUE /\ heeded.projected = rec.projected \ closed
      /\ heeded.seen \in Views /\ heeded.motions = rec.motions /\ heeded.exiting = rec.exiting
  <2>1. CASE revised   BY <1>2, <2>1 DEF IsRec, RecFields
  <2>2. CASE ~revised  BY <1>2, <2>2
  <2> QED  BY <2>1, <2>2
<1> HIDE DEF heeded
<1>4. Targets(target)
  BY <1>3, TargetIsPlanned
<1> HIDE DEF target
<1>5. /\ IsRec(moved) /\ moved.connected = TRUE /\ moved.projected = rec.projected \ closed
      /\ moved.seen \in Views /\ ExitingIsClosed(moved)
      /\ \A d \in DOMAIN moved.motions :
           (moved.motions[d] = "enter" /\ d \notin DOMAIN rec.motions)
           => Has(target, d) /\ d.id \notin rec.projected \ closed
  <2>1. ExitingIsClosed(heeded)  BY <1>3 DEF ExitingIsClosed
  <2> QED  BY <1>3, <2>1, MovedKeeps
<1>6. \A d : Has(target, d) => d.id \notin closed
  BY <1>4, ToSetOfSeq DEF Has, Targets, PlanIsLive
<1> HIDE DEF moved
<1>7. /\ IsRec(ready) /\ ready.connected = TRUE /\ ready.target = target
      /\ ready.projected = (rec.projected \ closed) \cup ToSet(plan)
      /\ ready.seen \in Views /\ ready.exiting = moved.exiting /\ ready.motions = moved.motions
  BY <1>5 DEF IsRec, RecFields
<1> HIDE DEF ready, over
<1> QED  BY <1>1, <1>4, <1>5, <1>6, <1>7, AdvancedKeeps DEF ExitingIsClosed

\* A window that nothing is desired of.
LEMMA NothingIsWanted ==
  /\ Nothing.order = <<>> /\ ToSet(Nothing.order) = {} /\ Wanted(Nothing) = {}
  /\ \A S : Nothing.order \in Seq(S)
<1>1. Nothing.order = <<>> /\ Nothing.leaving = {}  BY DEF Nothing
<1>2. ToSet(<<>>) = {}  BY DEF ToSet
<1> QED  BY <1>1, <1>2 DEF Wanted

\* What a window should show is planned or closed.
LEMMA DesiredIsKnown ==
  ASSUME NEW r, ExitingIsClosed(r), Targets(r.target), NEW w
  PROVE  LET want == Want(Desired(r, r.target), w)
         IN  want.order \in Seq(Ids \ closed) /\ Wanted(want) \subseteq ToSet(plan) \cup closed
<1> DEFINE want == Want(Desired(r, r.target), w)
           own == IF w \in DOMAIN r.target THEN r.target[w] ELSE Nothing
<1>1. own.order \in Seq(Ids \ closed) /\ ToSet(own.order) \subseteq ToSet(plan)
  <2>1. CASE w \in DOMAIN r.target
    BY <2>1 DEF Targets
  <2>2. CASE w \notin DOMAIN r.target
    BY <2>2, NothingIsWanted
  <2> QED  BY <2>1, <2>2
<1>2. CASE w \notin Staging(r, r.target)
  <2>1. want = Nothing  BY <1>2 DEF Want, Desired
  <2> QED  BY <2>1, NothingIsWanted
<1>3. CASE w \in Staging(r, r.target)
  <2> DEFINE left == {d.id : d \in {d \in DOMAIN r.exiting : d.win = w}} \ DOMAIN own.looks
  <2>1. want = Staged(r, r.target, w)
    BY <1>3 DEF Want, Desired
  <2>2. Staged(r, r.target, w).order = own.order /\ Staged(r, r.target, w).leaving = left
    BY DEF Staged
  <2>3. left \subseteq closed
    BY DEF ExitingIsClosed
  <2> HIDE DEF want, own, left
  <2> QED  BY <1>1, <2>1, <2>2, <2>3 DEF Wanted, want
<1> QED  BY <1>2, <1>3

\* Taking dead panes off the list shows nothing new.
LEMMA PrunedShows ==
  \A w \in Windows : DOMAIN Pruned[w] \subseteq DOMAIN drawn[w]
  BY DEF Pruned, Restricted

\* A reconcile that wants nothing adds nothing.
LEMMA ClosingAddsNothing ==
  ASSUME NEW shown, NEW gone, NEW w \in Windows,
         NEW o \in Outcomes(shown, gone, Empty) \cup CutShort(shown, gone, Empty)
  PROVE  DOMAIN o[w].shown \subseteq DOMAIN shown[w]
<1>1. Want(Empty, w) = Nothing  BY DEF Want, Empty
<1>2. Want(Empty, w).order \in Seq({}) /\ Wanted(Want(Empty, w)) = {}
  BY <1>1, NothingIsWanted
<1> QED  BY <1>2, OutcomesShow

\* A reconcile adds what is planned or closed.
LEMMA ReconcilingAddsKnown ==
  ASSUME NEW r, ExitingIsClosed(r), Targets(r.target), NEW w \in Windows,
         NEW o \in Outcomes(Pruned, Missing, Desired(r, r.target))
                   \cup CutShort(Pruned, Missing, Desired(r, r.target))
  PROVE  DOMAIN o[w].shown \subseteq DOMAIN drawn[w] \cup ToSet(plan) \cup closed
<1> DEFINE desired == Desired(r, r.target)
<1>1. /\ Want(desired, w).order \in Seq(Ids \ closed)
      /\ Wanted(Want(desired, w)) \subseteq ToSet(plan) \cup closed
  BY DesiredIsKnown
<1> HIDE DEF desired
<1>2. DOMAIN o[w].shown \subseteq DOMAIN Pruned[w] \cup Wanted(Want(desired, w))
  BY <1>1, OutcomesShow DEF desired
<1> QED  BY <1>1, <1>2, PrunedShows

-----------------------------------------------------------------------------
(* The steps.                                                              *)

\* A Toast that begins to slide in was not known before.
EntersUnknown ==
  \A d \in DOMAIN rec'.motions :
    (rec'.motions[d] = "enter" /\ d \notin DOMAIN rec.motions)
    => d.id \notin rec.projected \cup closed

\* It holds at the start.
LEMMA InitHolds == Init => IInv
<1> SUFFICES ASSUME Init PROVE IInv  OBVIOUS
<1>1. PICK style \in Styles :
        rec = [connected |-> FALSE, dirty |-> TRUE, successful |-> {},
               retries |-> Empty, seen |-> Empty, projected |-> {},
               target |-> Empty, motions |-> Empty, exiting |-> Empty,
               style |-> style]
  BY DEF Init
<1>2. IsRec(rec)  BY <1>1 DEF IsRec, RecFields
<1>3. PlanIsLive  BY PlansAreSeqs DEF Init, PlanIsLive
<1>4. Empty \in Views /\ DOMAIN Empty = {}  BY DEF Views, Empty
<1>5. ViewsAreViews  BY <1>1, <1>4 DEF Init, ViewsAreViews
<1>6. ExitingIsClosed(rec)  BY <1>1, <1>4 DEF ExitingIsClosed
<1>7. DrawnIsKnown  BY <1>4 DEF Init, DrawnIsKnown
<1>8. PausedWhileDisconnected  BY DEF Init, PausedWhileDisconnected
<1> QED  BY <1>2, <1>3, <1>5, <1>6, <1>7, <1>8 DEF IInv

\* A tick that ends without a connection, or with nothing drawn anew, of which
\* the reconciler remembers what it knew.
LEMMA WaitsKeeps == IInv /\ (Waits \/ LooksInVain) => IInv' /\ EntersUnknown
<1> SUFFICES ASSUME IInv, Waits \/ LooksInVain PROVE IInv' /\ EntersUnknown  OBVIOUS
<1>1. /\ rec' = Disconnected(Listened) /\ available' = FALSE
      /\ UNCHANGED <<viewed, drawn, plan, closed>>
  BY DEF Waits, LooksInVain
<1>2. /\ IsRec(rec') /\ rec'.projected = rec.projected /\ rec'.seen = rec.seen
      /\ rec'.motions = rec.motions /\ rec'.exiting = rec.exiting
  BY <1>1, ListenedKeeps, DisconnectedKeeps DEF IInv
<1> QED  BY <1>1, <1>2 DEF IInv, ViewsAreViews, PlanIsLive, ExitingIsClosed, DrawnIsKnown,
                           PausedWhileDisconnected, EntersUnknown

\* A tick that finds nobody watching.
LEMMA NothingViewedKeeps == IInv /\ NothingViewed => IInv' /\ EntersUnknown
<1> SUFFICES ASSUME IInv, NothingViewed PROVE IInv' /\ EntersUnknown  OBVIOUS
<1>1. PICK new \in News :
        LET r == [Looked(new) EXCEPT !.motions = Empty, !.exiting = Empty]
        IN  /\ available' = FALSE
            /\ \/ /\ \E o \in Outcomes(Pruned, Missing, Empty) :
                         /\ Drawn(o)
                         /\ rec' = [r EXCEPT !.successful = {}, !.dirty = FALSE,
                                      !.retries = IF Failed(o) = {} THEN Empty
                                                  ELSE WithFailures(@, Failed(o))]
               \/ /\ \E o \in CutShort(Pruned, Missing, Empty) : Drawn(o)
                  /\ rec' = Disconnected(r)
               \/ /\ rec' = [r EXCEPT !.successful = {}, !.dirty = FALSE]
                  /\ drawn' = Pruned
  BY DEF NothingViewed
<1> DEFINE r == [Looked(new) EXCEPT !.motions = Empty, !.exiting = Empty]
<1>2. /\ IsRec(r) /\ r.projected = rec.projected \ closed /\ r.seen \in Views
      /\ r.motions = Empty /\ r.exiting = Empty
  BY LookedKeeps DEF IInv, ViewsAreViews, IsRec, RecFields
<1> HIDE DEF r
<1>3. /\ IsRec(rec') /\ rec'.projected = r.projected /\ rec'.seen = r.seen
      /\ rec'.motions = Empty /\ rec'.exiting = Empty
  <2>1. ASSUME NEW x, rec' = [r EXCEPT !.successful = {}, !.dirty = FALSE, !.retries = x]
        PROVE  <1>3!:
    BY <1>2, <2>1 DEF IsRec, RecFields
  <2>2. CASE rec' = Disconnected(r)
    BY <1>2, <2>2, DisconnectedKeeps
  <2>3. CASE rec' = [r EXCEPT !.successful = {}, !.dirty = FALSE]
    BY <1>2, <2>3 DEF IsRec, RecFields
  <2> QED  BY <1>1, <2>1, <2>2, <2>3 DEF r
<1>4. \A w \in Windows : DOMAIN drawn'[w] \subseteq DOMAIN drawn[w]
  <2>1. ASSUME NEW o \in Outcomes(Pruned, Missing, Empty) \cup CutShort(Pruned, Missing, Empty),
               Drawn(o)
        PROVE  <1>4!:
    BY <2>1, ClosingAddsNothing, PrunedShows DEF Drawn
  <2> QED  BY <1>1, <2>1, PrunedShows
<1>5. available' = FALSE /\ UNCHANGED <<viewed, plan, closed>>
  BY <1>1 DEF NothingViewed
<1>6. ExitingIsClosed(rec)' /\ EntersUnknown
  BY <1>3 DEF ExitingIsClosed, EntersUnknown, Empty
<1>7. DrawnIsKnown'
  BY <1>2, <1>3, <1>4, <1>5 DEF IInv, DrawnIsKnown
<1> QED  BY <1>2, <1>3, <1>5, <1>6, <1>7 DEF IInv, ViewsAreViews, PlanIsLive,
                                              PausedWhileDisconnected

\* A tick with windows to show something in, by the way it ends.
LEMMA SomeViewedKeeps == IInv /\ SomeViewed => IInv' /\ EntersUnknown
<1> SUFFICES ASSUME IInv, SomeViewed PROVE IInv' /\ EntersUnknown  OBVIOUS
<1>1. PICK new \in News :
        LET r       == Planned(new)
            desired == Desired(r, r.target)
        IN  \/ Idles(r)
            \/ LosesConnection(r, desired)
            \/ \E o \in Outcomes(Pruned, Missing, desired) :
                 Reconciles(r, desired, o) \/ GivesUp(r, desired, o)
  BY DEF SomeViewed
<1> DEFINE r == Planned(new)
           desired == Desired(r, r.target)
<1>2. /\ IsRec(r) /\ r.connected = TRUE
      /\ r.projected = (rec.projected \ closed) \cup ToSet(plan)
      /\ r.seen \in Views /\ ExitingIsClosed(r) /\ Targets(r.target)
      /\ \A d \in DOMAIN r.motions :
           (r.motions[d] = "enter" /\ d \notin DOMAIN rec.motions)
           => d.id \notin rec.projected \cup closed
  BY PlannedKeeps DEF IInv
<1>3. viewed' = viewed
  BY DEF SomeViewed
<1>4. \A o \in Outcomes(Pruned, Missing, desired) \cup CutShort(Pruned, Missing, desired) :
        \A w \in Windows : DOMAIN o[w].shown \subseteq DOMAIN drawn[w] \cup ToSet(plan) \cup closed
  BY <1>2, ReconcilingAddsKnown
<1> HIDE DEF r, desired
<1>5. CASE Idles(r)
  <2>1. rec' = r /\ drawn' = Pruned /\ UNCHANGED <<plan, closed>>
    BY <1>5 DEF Idles
  <2>2. DrawnIsKnown'
    BY <2>1, <1>2, PrunedShows DEF IInv, DrawnIsKnown
  <2> QED  BY <1>2, <1>3, <2>1, <2>2 DEF IInv, ViewsAreViews, PlanIsLive, ExitingIsClosed,
                                         PausedWhileDisconnected, EntersUnknown
<1>6. CASE LosesConnection(r, desired)
  <2>1. /\ rec' = Disconnected(r) /\ available' = FALSE /\ UNCHANGED <<plan, closed>>
        /\ \E o \in CutShort(Pruned, Missing, desired) : Drawn(o)
    BY <1>6 DEF LosesConnection
  <2>2. /\ IsRec(rec') /\ rec'.projected = r.projected /\ rec'.seen = r.seen
        /\ rec'.motions = r.motions /\ rec'.exiting = r.exiting
    BY <2>1, <1>2, DisconnectedKeeps
  <2>3. DrawnIsKnown'
    BY <2>1, <2>2, <1>2, <1>4 DEF IInv, DrawnIsKnown, Drawn
  <2> QED  BY <1>2, <1>3, <2>1, <2>2, <2>3 DEF IInv, ViewsAreViews, PlanIsLive, ExitingIsClosed,
                                               PausedWhileDisconnected, EntersUnknown
<1>7. ASSUME NEW o \in Outcomes(Pruned, Missing, desired), Reconciles(r, desired, o)
      PROVE  IInv' /\ EntersUnknown
  <2>1. rec' = Reported(r, o, desired) /\ Drawn(o) /\ UNCHANGED <<plan, closed>>
    BY <1>7 DEF Reconciles
  <2>2. /\ IsRec(rec') /\ rec'.projected = r.projected /\ rec'.seen = r.seen
        /\ rec'.motions = r.motions /\ rec'.exiting = r.exiting /\ rec'.connected = TRUE
    BY <2>1, <1>2, ReportedKeeps
  <2>3. DrawnIsKnown'
    BY <2>1, <2>2, <1>2, <1>4, <1>7 DEF IInv, DrawnIsKnown, Drawn
  <2> QED  BY <1>2, <1>3, <2>1, <2>2, <2>3 DEF IInv, ViewsAreViews, PlanIsLive, ExitingIsClosed,
                                               PausedWhileDisconnected, EntersUnknown
<1>8. ASSUME NEW o \in Outcomes(Pruned, Missing, desired), GivesUp(r, desired, o)
      PROVE  IInv' /\ EntersUnknown
  <2> DEFINE reported == Reported(r, o, desired)
             shown == [w \in Windows |-> o[w].shown]
             gone == [w \in Windows |-> o[w].gone]
  <2>1. /\ rec' = [reported EXCEPT !.retries = Empty, !.projected = @ \ ToSet(plan)]
        /\ available' = FALSE /\ closed' = closed \cup ToSet(plan) /\ plan' \in Plans(text, closed')
        /\ \E p \in Outcomes(shown, gone, Empty) \cup CutShort(shown, gone, Empty) : Drawn(p)
    BY <1>8 DEF GivesUp
  <2>2. /\ IsRec(reported) /\ reported.projected = r.projected /\ reported.seen = r.seen
        /\ reported.motions = r.motions /\ reported.exiting = r.exiting
    BY <1>2, ReportedKeeps
  <2> HIDE DEF reported
  <2>3. /\ IsRec(rec') /\ rec'.projected = r.projected \ ToSet(plan) /\ rec'.seen = r.seen
        /\ rec'.motions = r.motions /\ rec'.exiting = r.exiting
    BY <2>1, <2>2 DEF IsRec, RecFields
  <2>4. \A w \in Windows : DOMAIN drawn'[w] \subseteq DOMAIN shown[w]
    <3> HIDE DEF shown, gone
    <3>1. PICK p \in Outcomes(shown, gone, Empty) \cup CutShort(shown, gone, Empty) : Drawn(p)
      BY <2>1
    <3> TAKE w \in Windows
    <3>2. DOMAIN p[w].shown \subseteq DOMAIN shown[w]
      BY ClosingAddsNothing
    <3> QED  BY <3>1, <3>2 DEF Drawn
  <2>5. \A w \in Windows : DOMAIN shown[w] \subseteq DOMAIN drawn[w] \cup ToSet(plan) \cup closed
    BY <1>4, <1>8
  <2> HIDE DEF shown
  <2>6. DrawnIsKnown'
    BY <2>1, <2>3, <2>4, <2>5, <1>2 DEF IInv, DrawnIsKnown
  <2>7. PlanIsLive'
    BY <2>1, PlansAreSeqs DEF PlanIsLive
  <2> QED  BY <1>2, <1>3, <2>1, <2>3, <2>6, <2>7 DEF IInv, ViewsAreViews, ExitingIsClosed,
                                                     PausedWhileDisconnected, EntersUnknown
<1> QED  BY <1>1, <1>5, <1>6, <1>7, <1>8 DEF r, desired

\* Every tick.
LEMMA TickKeeps == IInv /\ Tick => IInv' /\ EntersUnknown
  BY WaitsKeeps, NothingViewedKeeps, SomeViewedKeeps DEF Tick

\* Between two ticks nothing begins to slide in, and Notifications only close.
LEMMA ElsewhereKeeps == IInv /\ Elsewhere => IInv' /\ EntersUnknown
<1> SUFFICES ASSUME IInv, Elsewhere PROVE IInv' /\ EntersUnknown  OBVIOUS
<1> USE DEF IInv, PausedWhileDisconnected
<1>1. ASSUME UNCHANGED rec PROVE EntersUnknown
  BY <1>1 DEF EntersUnknown
<1>2. CASE Rearrange
  <2>1. plan' \in Plans(text, closed) /\ UNCHANGED <<viewed, drawn, closed, available, rec>>
    BY <1>2 DEF Rearrange, tmux
  <2>2. PlanIsLive'  BY <2>1, PlansAreSeqs DEF PlanIsLive
  <2> QED  BY <1>1, <2>1, <2>2 DEF ViewsAreViews, ExitingIsClosed, DrawnIsKnown
<1>3. ASSUME NEW n \in Ids, Close(n) PROVE IInv' /\ EntersUnknown
  <2>1. /\ plan' \in Plans(text, closed') /\ closed' = closed \cup {n}
        /\ UNCHANGED <<viewed, drawn, available, rec>>
    BY <1>3 DEF Close, tmux
  <2>2. PlanIsLive'  BY <2>1, PlansAreSeqs DEF PlanIsLive
  <2>3. ExitingIsClosed(rec)' /\ DrawnIsKnown'
    BY <2>1 DEF ExitingIsClosed, DrawnIsKnown
  <2> QED  BY <1>1, <2>1, <2>2, <2>3 DEF ViewsAreViews
<1>4. ASSUME NEW n \in Ids, NEW c \in Contents, Update(n, c) PROVE IInv' /\ EntersUnknown
  <2>1. /\ n \in Ids \ closed /\ UNCHANGED <<viewed, drawn, closed, available, rec>>
        /\ plan' = plan \/ plan' = <<n>> \/ plan' \in Plans(text', closed)
    BY <1>4 DEF Update, tmux
  <2>2. <<n>> \in Seq(Ids \ closed)  BY <2>1
  <2>3. PlanIsLive'  BY <2>1, <2>2, PlansAreSeqs DEF PlanIsLive
  <2> QED  BY <1>1, <2>1, <2>3 DEF ViewsAreViews, ExitingIsClosed, DrawnIsKnown
<1>5. ASSUME NEW s \in Styles, Restyle(s) PROVE IInv' /\ EntersUnknown
  <2>1. /\ rec' = [rec EXCEPT !.style = s, !.motions = Empty, !.exiting = Empty, !.dirty = TRUE]
        /\ UNCHANGED <<viewed, drawn, plan, closed, available>>
    BY <1>5 DEF Restyle, tmux, sched
  <2>2. /\ IsRec(rec') /\ rec'.connected = rec.connected /\ rec'.projected = rec.projected
        /\ rec'.seen = rec.seen /\ rec'.motions = Empty /\ rec'.exiting = Empty
    BY <2>1 DEF IsRec, RecFields
  <2>3. ExitingIsClosed(rec)' /\ EntersUnknown
    BY <2>2 DEF ExitingIsClosed, EntersUnknown, Empty
  <2> QED  BY <2>1, <2>2, <2>3 DEF ViewsAreViews, PlanIsLive, DrawnIsKnown
<1>6. CASE Jump
  <2>1. /\ \A w \in Windows : DOMAIN drawn'[w] \subseteq DOMAIN drawn[w]
        /\ UNCHANGED <<viewed, plan, closed, available, rec>>
    BY <1>6 DEF Jump, sched, Restricted
  <2>2. DrawnIsKnown'  BY <2>1 DEF DrawnIsKnown
  <2> QED  BY <1>1, <2>1, <2>2 DEF ViewsAreViews, PlanIsLive, ExitingIsClosed
<1>7. CASE ViewsChange
  <2>1. viewed' \in Views /\ UNCHANGED <<drawn, plan, closed, available, rec>>
    BY <1>7 DEF ViewsChange, sched
  <2> QED  BY <1>1, <2>1 DEF ViewsAreViews, PlanIsLive, ExitingIsClosed, DrawnIsKnown
<1>8. CASE \/ \E w \in Windows, n \in Ids : PaneDies(w, n)
           \/ ConnectionBreaks \/ TopologyEvent
           \/ \E x \in Timers : TimePasses(x)
  <2>1. UNCHANGED <<viewed, drawn, plan, closed, available, rec>>
    BY <1>8 DEF PaneDies, ConnectionBreaks, TopologyEvent, TimePasses, tmux, sched
  <2> QED  BY <1>1, <2>1 DEF ViewsAreViews, PlanIsLive, ExitingIsClosed, DrawnIsKnown
<1> QED  BY <1>2, <1>3, <1>4, <1>5, <1>6, <1>7, <1>8 DEF Elsewhere

\* The invariant, in every behaviour.
LEMMA Invariance == Spec => []IInv
<1>1. IInv /\ UNCHANGED vars => IInv'
  BY DEF IInv, vars, tmux, sched, ViewsAreViews, PlanIsLive, ExitingIsClosed, DrawnIsKnown,
         PausedWhileDisconnected
<1>2. IInv /\ [Next]_vars => IInv'
  BY <1>1, TickKeeps, ElsewhereKeeps DEF Next
<1> QED  BY <1>2, InitHolds, PTL DEF Spec

-----------------------------------------------------------------------------
\* tick: no timeout runs while the reconciler knows its connection to be lost.
THEOREM TimeoutsPause == Spec => []PausedWhileDisconnected
  BY Invariance, PTL DEF IInv

\* projected_notifications: a Toast that is drawn in some window never slides in
\* again, in that one or another, after whatever reconnection, move or retry.
THEOREM NothingEntersTwice == Spec => EnterOnlyWhenNew
<1> DEFINE New ==
      \A d \in DOMAIN rec'.motions :
        (rec'.motions[d] = "enter" /\ d \notin DOMAIN rec.motions)
        => \A w \in Windows : d.id \notin DOMAIN drawn[w]
<1>1. IInv /\ [Next]_vars => [New]_vars
  <2> SUFFICES ASSUME IInv, Next PROVE New  OBVIOUS
  <2>1. EntersUnknown  BY TickKeeps, ElsewhereKeeps DEF Next
  <2> QED  BY <2>1 DEF IInv, DrawnIsKnown, EntersUnknown
<1> QED  BY <1>1, Invariance, PTL DEF Spec, EnterOnlyWhenNew

-----------------------------------------------------------------------------
(* What a reconcile leaves of a window, however far it gets.              *)

\* A look is a record of the three things a display is told apart by.
IsLook(l) == l = [content |-> l.content, style |-> l.style, place |-> l.place]

\* A function of looks.
AreLooks(f) == \A n \in DOMAIN f : IsLook(f[n])

\* How a window that showed `shown` may look after it was to become `want`: a
\* display keeps its place or gets the wanted one, and goes only when it is not
\* wanted or changes its kind.
Approached(shown, want, x) ==
  /\ x.gone \subseteq DOMAIN x.shown /\ AreLooks(x.shown)
  /\ \A n \in DOMAIN x.shown :
       \/ n \in DOMAIN shown /\ x.shown[n].place = shown[n].place
       \/ n \in Wanted(want) /\ x.shown[n].place = want.looks[n].place
  /\ \A n \in DOMAIN shown \cap Wanted(want) :
       SameKind(shown[n], want.looks[n]) => n \in DOMAIN x.shown
  /\ x.ok => Wanted(want) \subseteq DOMAIN x.shown

\* What a window is to show is a sequence of Notifications, each with a look.
Wants(want) ==
  /\ \E S : want.order \in Seq(S)
  /\ \A n \in Wanted(want) : IsLook(want.looks[n])

\* What reconcile_window has drawn is of what the window should show.
LEMMA DrawnBeforeWanted ==
  ASSUME NEW want, NEW S, want.order \in Seq(S), NEW done \in DrawnBefore(want)
  PROVE  done \subseteq Wanted(want)
<1>1. \A p \in Prefixes(want.order) : ToSet(p) \subseteq ToSet(want.order)
  <2> TAKE p \in Prefixes(want.order)
  <2>1. PICK l \in 0 .. Len(want.order) : p = SubSeq(want.order, 1, l)
    BY DEF Prefixes
  <2>2. Len(p) = l /\ p \in Seq(S) /\ \A i \in 1 .. l : p[i] = want.order[i]
    BY <2>1
  <2> QED  BY <2>2 DEF ToSet
<1> QED  BY <1>1 DEF DrawnBefore, Wanted

\* A look that is put in another place is a look in that place.
LEMMA PlacedLook ==
  ASSUME NEW l, IsLook(l), NEW p
  PROVE  /\ IsLook([l EXCEPT !.place = p]) /\ [l EXCEPT !.place = p].place = p
         /\ [l EXCEPT !.place = p].content = l.content
<1> DEFINE m == [content |-> l.content, style |-> l.style, place |-> p]
<1>1. [l EXCEPT !.place = p] = m  BY DEF IsLook
<1>2. m.content = l.content /\ m.style = l.style /\ m.place = p  OBVIOUS
<1> QED  BY <1>1, <1>2 DEF IsLook

\* What a display that fails leaves.
LEMMA UndrawnApproached ==
  ASSUME NEW f, AreLooks(f), NEW n, NEW look, NEW s \in Undrawn(f, n, look)
  PROVE  /\ AreLooks(s) /\ DOMAIN s \subseteq DOMAIN f
         /\ \A m \in DOMAIN s : s[m].place = f[m].place \/ (m = n /\ s[m].place = look.place)
         /\ \A m \in DOMAIN f : m # n \/ SameKind(f[n], look) => m \in DOMAIN s
<1>1. CASE s = f  BY <1>1
<1>2. CASE n \in DOMAIN f /\ ~SameKind(f[n], look) /\ s = Restricted(f, DOMAIN f \ {n})
  <2>1. DOMAIN s = DOMAIN f \ {n} /\ \A m \in DOMAIN s : s[m] = f[m]
    BY <1>2 DEF Restricted
  <2> QED  BY <1>2, <2>1 DEF AreLooks
<1>3. CASE n \in DOMAIN f /\ s = [f EXCEPT ![n].place = look.place]
  <2>1. DOMAIN s = DOMAIN f /\ \A m \in DOMAIN f \ {n} : s[m] = f[m]
    BY <1>3
  <2>2. s[n] = [f[n] EXCEPT !.place = look.place]
    BY <1>3
  <2>3. IsLook(s[n]) /\ s[n].place = look.place
    BY <1>3, <2>2, PlacedLook DEF AreLooks
  <2> QED  BY <2>1, <2>3 DEF AreLooks
<1> QED  BY <1>1, <1>2, <1>3 DEF Undrawn

\* reconcile_window, however far it gets.
LEMMA ReachedApproached ==
  ASSUME NEW shown, AreLooks(shown), NEW gone, gone \subseteq DOMAIN shown,
         NEW want, Wants(want), NEW o \in Reached(shown, gone, want)
  PROVE  Approached(shown, want, o)
<1> DEFINE kept == Restricted(shown, Wanted(want))
           obsolete == DOMAIN shown \ Wanted(want)
           unclosed == {[shown |-> shown, gone |-> gone \cup killed, ok |-> FALSE,
                         struck |-> obsolete \cap gone = {}] : killed \in SUBSET obsolete}
           fallible(n) == n \notin DOMAIN kept \/ kept[n] # want.looks[n]
           stuck(done) == \E n \in done : CannotDraw(kept, gone, n, want.looks[n])
           fails(done, n) ==
             {[shown |-> s, gone |-> gone \cap DOMAIN s, ok |-> FALSE,
               struck |-> ~CannotDraw(kept, gone, n, want.looks[n])] :
                s \in Undrawn(Redrawn(kept, want, done), n, want.looks[n])}
           failed ==
             UNION {UNION {fails(done, n) : n \in {n \in NextToDraw(want, done) : fallible(n)}} :
                      done \in {done \in DrawnBefore(want) : ~stuck(done)}}
           all == [shown |-> Redrawn(kept, want, Wanted(want)), gone |-> gone \cap Wanted(want),
                   ok |-> TRUE, struck |-> FALSE]
<1>1. o \in unclosed \/ o \in failed \/ o = all
  <2>1. Reached(shown, gone, want) =
          (IF obsolete = {} THEN {} ELSE unclosed) \cup
          (IF obsolete \cap gone # {} THEN {}
           ELSE failed \cup (IF stuck(Wanted(want)) THEN {} ELSE {all}))
    BY Zenon DEF Reached
  <2> HIDE DEF unclosed, failed, all, obsolete, stuck
  <2> QED  BY <2>1
<1>2. /\ DOMAIN kept = DOMAIN shown \cap Wanted(want)
      /\ \A n \in DOMAIN kept : kept[n] = shown[n]
  BY DEF Restricted
<1> HIDE DEF kept
<1>3. ASSUME NEW done, done \subseteq Wanted(want)
      PROVE  LET f == Redrawn(kept, want, done)
             IN  /\ DOMAIN f = DOMAIN kept \cup done /\ AreLooks(f)
                 /\ \A n \in DOMAIN f : f[n] = IF n \in done THEN want.looks[n] ELSE shown[n]
  <2> DEFINE f == Redrawn(kept, want, done)
  <2>1. /\ DOMAIN f = DOMAIN kept \cup done
        /\ \A n \in DOMAIN f : f[n] = IF n \in done THEN want.looks[n] ELSE kept[n]
    BY DEF Redrawn
  <2> HIDE DEF f
  <2>2. AreLooks(f)
    BY <1>2, <1>3, <2>1 DEF AreLooks, Wants
  <2> QED  BY <1>2, <2>1, <2>2 DEF f
<1>4. CASE o \in unclosed
  <2>1. PICK killed \in SUBSET obsolete : o.shown = shown /\ o.gone = gone \cup killed /\ ~o.ok
    BY <1>4
  <2> QED  BY <2>1 DEF Approached
<1>5. CASE o \in failed
  <2>1. PICK done \in DrawnBefore(want) : \E n \in NextToDraw(want, done) : o \in fails(done, n)
    BY <1>5
  <2> PICK n \in NextToDraw(want, done) : o \in fails(done, n)
    BY <2>1
  <2> DEFINE f == Redrawn(kept, want, done)
             look == want.looks[n]
  <2>2. /\ o.shown \in Undrawn(f, n, look)
        /\ o.gone = gone \cap DOMAIN o.shown /\ ~o.ok
    OBVIOUS
  <2>3. done \subseteq Wanted(want)
    BY DrawnBeforeWanted DEF Wants
  <2>4. /\ DOMAIN f = DOMAIN kept \cup done /\ AreLooks(f)
        /\ \A m \in DOMAIN f : f[m] = IF m \in done THEN want.looks[m] ELSE shown[m]
    BY <1>3, <2>3
  <2> HIDE DEF f
  <2>5. /\ AreLooks(o.shown) /\ DOMAIN o.shown \subseteq DOMAIN f
        /\ \A m \in DOMAIN o.shown :
             o.shown[m].place = f[m].place \/ (m = n /\ o.shown[m].place = look.place)
        /\ \A m \in DOMAIN f : m # n \/ SameKind(f[n], look) => m \in DOMAIN o.shown
    BY <2>2, <2>4, UndrawnApproached
  <2> HIDE DEF look
  <2>6. ASSUME NEW m \in DOMAIN o.shown
        PROVE  \/ m \in DOMAIN shown /\ o.shown[m].place = shown[m].place
               \/ m \in Wanted(want) /\ o.shown[m].place = want.looks[m].place
    <3>1. CASE o.shown[m].place = f[m].place
      BY <1>2, <2>3, <2>4, <2>5, <3>1
    <3>2. CASE m = n /\ o.shown[m].place = look.place
      <4>1. m \in Wanted(want)
        BY <1>2, <2>3, <2>4, <2>5
      <4> QED  BY <3>2, <4>1 DEF look
    <3> QED  BY <2>5, <3>1, <3>2
  <2>7. ASSUME NEW m \in DOMAIN shown \cap Wanted(want), SameKind(shown[m], want.looks[m])
        PROVE  m \in DOMAIN o.shown
    <3>1. m \in DOMAIN f
      BY <1>2, <2>4, <2>7
    <3>2. SameKind(f[m], want.looks[m])
      BY <2>4, <2>7, <3>1 DEF SameKind
    <3> QED  BY <2>5, <3>1, <3>2 DEF look
  <2> QED  BY <2>2, <2>5, <2>6, <2>7 DEF Approached
<1>6. CASE o = all
  <2>1. /\ o.shown = Redrawn(kept, want, Wanted(want)) /\ o.gone = gone \cap Wanted(want)
    BY <1>6
  <2>2. /\ DOMAIN o.shown = DOMAIN kept \cup Wanted(want) /\ AreLooks(o.shown)
        /\ \A n \in DOMAIN o.shown :
             o.shown[n] = IF n \in Wanted(want) THEN want.looks[n] ELSE shown[n]
    BY <1>3, <2>1
  <2> QED  BY <1>2, <2>1, <2>2 DEF Approached
<1> QED  BY <1>1, <1>4, <1>5, <1>6

-----------------------------------------------------------------------------
(* A window that shows just what it should.                                *)

\* reconcile, however far it gets, in every window.
LEMMA OutcomesApproached ==
  ASSUME NEW shown, NEW gone, NEW desired, NEW w \in Windows,
         AreLooks(shown[w]), gone[w] \subseteq DOMAIN shown[w], Wants(Want(desired, w)),
         NEW o \in Outcomes(shown, gone, desired) \cup CutShort(shown, gone, desired)
  PROVE  Approached(shown[w], Want(desired, w), o[w])
<1> DEFINE reached(v) == Reached(shown[v], gone[v], Want(desired, v))
           left(v) == [shown |-> shown[v], gone |-> gone[v], ok |-> FALSE, struck |-> TRUE]
<1>1. o[w] \in reached(w) \/ o[w] = left(w)
  <2>1. CASE o \in Outcomes(shown, gone, desired)
    <3>1. <<w, o[w]>> \in UNION {{v} \X reached(v) : v \in Windows}
      BY <2>1 DEF Outcomes, PerWindow
    <3> HIDE DEF reached
    <3> QED  BY <3>1
  <2>2. CASE o \in CutShort(shown, gone, desired)
    <3> DEFINE done(v) == {x \in reached(v) : x.ok}
    <3>1. <<w, o[w]>> \in UNION {{v} \X ({left(v)} \cup done(v)) : v \in Windows}
      BY <2>2 DEF CutShort, PerWindow
    <3>2. \A v : done(v) \subseteq reached(v)  OBVIOUS
    <3> HIDE DEF reached, left, done
    <3> QED  BY <3>1, <3>2
  <2> QED  BY <2>1, <2>2
<1>2. CASE o[w] \in reached(w)  BY <1>2, ReachedApproached
<1>3. CASE o[w] = left(w)
  <2>1. o[w].shown = shown[w] /\ o[w].gone = gone[w] /\ ~o[w].ok  BY <1>3
  <2> QED  BY <2>1 DEF Approached
<1> QED  BY <1>1, <1>2, <1>3

\* A sequence that names nobody twice.
Once(s) == \A i, j \in DOMAIN s : s[i] = s[j] => i = j

\* As many are drawn as there are places before the next one.
LEMMA PrefixCounts ==
  ASSUME NEW S, NEW s \in Seq(S), Once(s), NEW l \in 0 .. Len(s)
  PROVE  /\ Cardinality(ToSet(SubSeq(s, 1, l))) = l
         /\ l = Len(s) => ToSet(SubSeq(s, 1, l)) = ToSet(s)
<1> DEFINE p == SubSeq(s, 1, l)
           f == [i \in 1 .. l |-> s[i]]
<1>1. l \in Nat /\ Len(s) \in Nat /\ l <= Len(s) /\ DOMAIN s = 1 .. Len(s)  OBVIOUS
<1>2. p \in Seq(S) /\ Len(p) = l /\ DOMAIN p = 1 .. l /\ \A i \in 1 .. l : p[i] = s[i]
  BY <1>1
<1> HIDE DEF p
<1>3. ToSet(p) = {s[i] : i \in 1 .. l}
  BY <1>2 DEF ToSet
<1>4. f \in Bijection(1 .. l, ToSet(p))
  <2>1. f \in [1 .. l -> ToSet(p)]
    BY <1>3
  <2>2. \A i, j \in 1 .. l : f[i] = f[j] => i = j
    BY <1>1 DEF Once
  <2>3. \A x \in ToSet(p) : \E i \in 1 .. l : f[i] = x
    BY <1>3
  <2> HIDE DEF f
  <2> QED  BY <2>1, <2>2, <2>3 DEF Bijection, Injection, Surjection, IsInjective
<1>5. IsFiniteSet(1 .. l) /\ Cardinality(1 .. l) = l
  <2>1. IsFiniteSet(1 .. l) /\ Cardinality(1 .. l) = (IF 1 > l THEN 0 ELSE l - 1 + 1)
    BY <1>1, FS_Interval
  <2> QED  BY <1>1, <2>1
<1>6. Cardinality(ToSet(p)) = l
  <2>1. ExistsBijection(1 .. l, ToSet(p))  BY <1>4 DEF ExistsBijection
  <2> QED  BY <1>5, <2>1, FS_Bijection
<1>7. l = Len(s) => ToSet(p) = ToSet(s)
  BY <1>1, <1>3 DEF ToSet
<1> QED  BY <1>6, <1>7 DEF p

\* reconcile_window never looks beyond what the window should show.
LEMMA NextIsWanted ==
  ASSUME NEW want, NEW S, want.order \in Seq(S), Once(want.order),
         NEW done \in DrawnBefore(want)
  PROVE  NextToDraw(want, done) \subseteq Wanted(want)
<1>1. CASE ToSet(want.order) \subseteq done
  BY <1>1 DEF NextToDraw, Wanted
<1>2. CASE ~(ToSet(want.order) \subseteq done)
  <2>1. PICK l \in 0 .. Len(want.order) : done = ToSet(SubSeq(want.order, 1, l))
    BY <1>2 DEF DrawnBefore, Prefixes
  <2>2. Cardinality(done) = l /\ l # Len(want.order)
    BY <1>2, <2>1, PrefixCounts
  <2>3. l + 1 \in DOMAIN want.order
    BY <2>1, <2>2
  <2> QED  BY <1>2, <2>2, <2>3 DEF NextToDraw, Wanted, ToSet
<1> QED  BY <1>1, <1>2

\* A window that shows just what it should cannot fail.
LEMMA ReachedSame ==
  ASSUME NEW shown, NEW want, NEW S, want.order \in Seq(S), Once(want.order),
         DOMAIN shown = Wanted(want), \A n \in Wanted(want) : shown[n] = want.looks[n],
         NEW o \in Reached(shown, {}, want)
  PROVE  o.ok
<1> DEFINE gone == {}
           kept == Restricted(shown, Wanted(want))
           obsolete == DOMAIN shown \ Wanted(want)
           unclosed == {[shown |-> shown, gone |-> gone \cup killed, ok |-> FALSE,
                         struck |-> obsolete \cap gone = {}] : killed \in SUBSET obsolete}
           fallible(n) == n \notin DOMAIN kept \/ kept[n] # want.looks[n]
           stuck(done) == \E n \in done : CannotDraw(kept, gone, n, want.looks[n])
           fails(done, n) ==
             {[shown |-> s, gone |-> gone \cap DOMAIN s, ok |-> FALSE,
               struck |-> ~CannotDraw(kept, gone, n, want.looks[n])] :
                s \in Undrawn(Redrawn(kept, want, done), n, want.looks[n])}
           failed ==
             UNION {UNION {fails(done, n) : n \in {n \in NextToDraw(want, done) : fallible(n)}} :
                      done \in {done \in DrawnBefore(want) : ~stuck(done)}}
           all == [shown |-> Redrawn(kept, want, Wanted(want)), gone |-> gone \cap Wanted(want),
                   ok |-> TRUE, struck |-> FALSE]
<1>1. obsolete = {}  OBVIOUS
<1>2. o \in failed \/ o = all
  <2>1. Reached(shown, gone, want) =
          (IF obsolete = {} THEN {} ELSE unclosed) \cup
          (IF obsolete \cap gone # {} THEN {}
           ELSE failed \cup (IF stuck(Wanted(want)) THEN {} ELSE {all}))
    BY Zenon DEF Reached
  <2> HIDE DEF unclosed, failed, all, obsolete, stuck
  <2> QED  BY <1>1, <2>1
<1>3. \A n \in Wanted(want) : ~fallible(n)
  BY DEF Restricted
<1>4. \A done \in DrawnBefore(want) : NextToDraw(want, done) \subseteq Wanted(want)
  BY NextIsWanted
<1>5. o \notin failed
  <2> HIDE DEF fails, stuck, fallible
  <2> QED  BY <1>3, <1>4
<1> QED  BY <1>2, <1>5

-----------------------------------------------------------------------------
(* What a tick wants to be drawn.                                          *)

\* A target of looks.
TargetLooks(target) == \A w \in DOMAIN target : AreLooks(target[w].looks)

\* The display of Notification n in window w.
Disp(n, w) == [id |-> n, win |-> w]

\* What window w should show, of the target and of what moves.
DesiredIs(r, w, want) ==
  /\ Wants(want)
  /\ w \in DOMAIN r.target =>
       /\ w \in DOMAIN Desired(r, r.target)
       /\ want.order = r.target[w].order
       /\ DOMAIN r.target[w].looks \subseteq Wanted(want)
       /\ (\A d \in DOMAIN r.exiting : d.win # w)
          => Wanted(want) = DOMAIN r.target[w].looks
  /\ \A n \in Wanted(want) :
       /\ (Disp(n, w) \in DOMAIN r.motions /\ r.motions[Disp(n, w)] # "exit")
          => want.looks[n].place = Outside
       /\ Has(r.target, Disp(n, w)) =>
            /\ want.looks[n].content = r.target[w].looks[n].content
            /\ Disp(n, w) \notin DOMAIN r.motions => want.looks[n] = r.target[w].looks[n]

\* desired_with_motions gives each window its target, but for what moves.
LEMMA DesiredLooks ==
  ASSUME NEW r, Targets(r.target), TargetLooks(r.target), AreLooks(r.exiting),
         DOMAIN r.exiting \subseteq Displays, NEW w
  PROVE  DesiredIs(r, w, Want(Desired(r, r.target), w))
<1> DEFINE want == Want(Desired(r, r.target), w)
           own == IF w \in DOMAIN r.target THEN r.target[w] ELSE Nothing
           left == {d.id : d \in {d \in DOMAIN r.exiting : d.win = w}} \ DOMAIN own.looks
           l(d) == IF Has(r.target, d) THEN LookIn(r.target, d) ELSE r.exiting[d]
           look(d) == IF d \in DOMAIN r.motions /\ r.motions[d] # "exit"
                      THEN [l(d) EXCEPT !.place = Outside] ELSE l(d)
<1>1. /\ \E S : own.order \in Seq(S)
      /\ DOMAIN own.looks = ToSet(own.order) /\ AreLooks(own.looks)
  <2>1. CASE w \in DOMAIN r.target
    BY <2>1 DEF Targets, TargetLooks
  <2>2. CASE w \notin DOMAIN r.target
    <3>1. DOMAIN Nothing.looks = {}  BY DEF Nothing
    <3> QED  BY <2>2, <3>1, NothingIsWanted DEF AreLooks
  <2> QED  BY <2>1, <2>2
<1>2. CASE w \notin Staging(r, r.target)
  <2>1. want = Nothing  BY <1>2 DEF Want, Desired
  <2>2. w \notin DOMAIN r.target  BY <1>2 DEF Staging
  <2> QED  BY <2>1, <2>2, NothingIsWanted DEF Wants, DesiredIs
<1>3. CASE w \in Staging(r, r.target)
  <2>1. want = Staged(r, r.target, w)
    BY <1>3 DEF Want, Desired
  <2>2. Staged(r, r.target, w) =
          [order |-> own.order, leaving |-> left,
           looks |-> [n \in DOMAIN own.looks \cup left |-> look([id |-> n, win |-> w])]]
    BY Zenon DEF Staged
  <2>3. /\ want.order = own.order /\ want.leaving = left
        /\ \A n \in DOMAIN own.looks \cup left : want.looks[n] = look(Disp(n, w))
    BY <2>1, <2>2 DEF Disp
  <2>4. Wanted(want) = DOMAIN own.looks \cup left
    BY <1>1, <2>3 DEF Wanted
  <2>5. ASSUME NEW n
        PROVE  Has(r.target, Disp(n, w)) <=> w \in DOMAIN r.target /\ n \in DOMAIN r.target[w].looks
    BY DEF Has, Disp
  <2>6. ASSUME NEW n \in Wanted(want)
        PROVE  /\ IsLook(l(Disp(n, w)))
               /\ Has(r.target, Disp(n, w)) => l(Disp(n, w)) = r.target[w].looks[n]
    <3>1. CASE n \in DOMAIN own.looks
      <4>1. w \in DOMAIN r.target
        <5>1. DOMAIN Nothing.looks = {}  BY DEF Nothing
        <5> QED  BY <3>1, <5>1
      <4>2. Has(r.target, Disp(n, w)) /\ LookIn(r.target, Disp(n, w)) = own.looks[n]
        BY <3>1, <4>1 DEF Has, LookIn, Disp
      <4> QED  BY <1>1, <3>1, <4>1, <4>2 DEF AreLooks
    <3>2. CASE n \notin DOMAIN own.looks
      <4>1. n \in left  BY <2>4, <3>2
      <4>2. PICK d \in DOMAIN r.exiting : d.id = n /\ d.win = w  BY <4>1
      <4>3. d = Disp(n, w)  BY <4>2 DEF Displays, Disp
      <4>4. ~Has(r.target, Disp(n, w))  BY <2>5, <3>2
      <4> QED  BY <4>2, <4>3, <4>4 DEF AreLooks
    <3> QED  BY <3>1, <3>2
  <2>7. ASSUME w \in DOMAIN r.target, \A d \in DOMAIN r.exiting : d.win # w
        PROVE  left = {}
    BY <2>7
  <2> HIDE DEF l, left, want
  <2>8. ASSUME NEW n \in Wanted(want)
        PROVE  /\ IsLook(want.looks[n]) /\ want.looks[n].content = l(Disp(n, w)).content
               /\ (Disp(n, w) \in DOMAIN r.motions /\ r.motions[Disp(n, w)] # "exit")
                  => want.looks[n].place = Outside
               /\ Disp(n, w) \notin DOMAIN r.motions => want.looks[n] = l(Disp(n, w))
    <3>1. want.looks[n] = look(Disp(n, w))  BY <2>3, <2>4
    <3> QED  BY <2>6, <3>1, PlacedLook
  <2> HIDE DEF look
  <2> QED  BY <1>1, <1>3, <2>3, <2>4, <2>6, <2>7, <2>8 DEF Wants, want, Desired, DesiredIs
<1> QED  BY <1>2, <1>3

-----------------------------------------------------------------------------
(* The second invariant: what the reconciler remembers of looks.           *)

\* The motions and looks that the reconciler remembers.
Shaped(r) ==
  /\ DOMAIN r.exiting \subseteq DOMAIN r.motions /\ DOMAIN r.motions \subseteq Displays
  /\ AreLooks(r.exiting) /\ TargetLooks(r.target)
  /\ DOMAIN r.retries \subseteq Windows
  /\ \A d \in DOMAIN r.motions : r.motions[d] # "enter" => d.id \in closed

\* What is drawn, with the panes of it that are gone.
ShownOk(shown, gone) ==
  \A w \in Windows : /\ DOMAIN shown[w] \subseteq Ids /\ gone[w] \subseteq DOMAIN shown[w]
                     /\ AreLooks(shown[w])

\* What slides in is not in its place yet.
OutsideYet(shown, motions) ==
  \A d \in DOMAIN motions :
    d.id \in closed \/ (d.id \in DOMAIN shown[d.win] => shown[d.win][d.id].place = Outside)

\* A target names nobody twice and puts nobody outside.
TargetTrue(target) ==
  \A w \in DOMAIN target :
    /\ Once(target[w].order)
    /\ \A n \in DOMAIN target[w].looks : target[w].looks[n].place # Outside

\* What stays true, with IInv, of what is drawn and remembered.
LookInv ==
  /\ plan \in Plans(text, closed) /\ closed \subseteq Ids /\ text = [n \in Ids |-> text[n]]
  /\ Shaped(rec) /\ rec.successful \subseteq DOMAIN rec.seen
  /\ ShownOk(drawn, dead) /\ dead = [w \in Windows |-> dead[w]]
  /\ OutsideYet(drawn, rec.motions)
  /\ heard \subseteq {"changed", "gone"} /\ ripe \subseteq Timers

\* A plan names nobody twice, and is a dialog or is of Toasts.
LEMMA PlansAreOnce ==
  ASSUME NEW says, NEW gone, NEW p \in Plans(says, gone)
  PROVE  /\ Once(p)
         /\ \/ \E n \in Ids : p = <<n>> /\ says[n] \in Modal
            \/ \A n \in ToSet(p) : says[n] \notin Modal
<1> DEFINE toasts == {n \in Ids \ gone : says[n] \notin Modal}
<1>1. CASE p \in {<<n>> : n \in {n \in Ids \ gone : says[n] \in Modal}}
  <2>1. PICK n \in Ids : p = <<n>> /\ says[n] \in Modal  BY <1>1
  <2>2. DOMAIN p = {1}  BY <2>1
  <2> QED  BY <2>1, <2>2 DEF Once
<1>2. CASE p \in {p_1 \in UNION {[1 .. k -> toasts] : k \in 0 .. Cardinality(toasts)} :
                   \A i, j \in DOMAIN p_1 : p_1[i] = p_1[j] => i = j}
  <2>1. Once(p)  BY <1>2 DEF Once
  <2>2. PICK k \in 0 .. Cardinality(toasts) : p \in [1 .. k -> toasts]
    BY <1>2
  <2>3. \A n \in ToSet(p) : n \in toasts  BY <2>2 DEF ToSet
  <2> QED  BY <2>1, <2>3
<1> QED  BY <1>1, <1>2 DEF Plans

\* The plan cut to a window's room names nobody twice, and has no Toast without room.
LEMMA FittingOnce ==
  ASSUME plan \in Plans(text, closed), NEW room \in Nat
  PROVE  /\ Once(Fitting(room))
         /\ \A n \in ToSet(Fitting(room)) : text[n] \in Modal \/ room # 0
<1>1. /\ plan \in Seq(Ids \ closed) /\ Once(plan)
      /\ \/ \E n \in Ids : plan = <<n>> /\ text[n] \in Modal
         \/ \A n \in ToSet(plan) : text[n] \notin Modal
  BY PlansAreSeqs, PlansAreOnce
<1>2. CASE Attends(plan)
  <2>1. PICK n \in Ids : plan = <<n>> /\ text[n] \in Modal  BY <1>1, <1>2 DEF Attends
  <2>2. ToSet(plan) = {n}  BY <2>1 DEF ToSet
  <2> QED  BY <1>1, <1>2, <2>1, <2>2 DEF Fitting
<1>3. CASE ~Attends(plan)
  <2> DEFINE k == IF room < Len(plan) THEN room ELSE Len(plan)
  <2>1. k \in Nat /\ k <= Len(plan) /\ Len(plan) \in Nat /\ (room = 0 => k = 0)
    BY <1>1
  <2>2. Fitting(room) = SubSeq(plan, 1, k)  BY <1>3 DEF Fitting
  <2> HIDE DEF k
  <2>3. /\ SubSeq(plan, 1, k) \in Seq(Ids \ closed) /\ Len(SubSeq(plan, 1, k)) = k
        /\ DOMAIN SubSeq(plan, 1, k) = 1 .. k
        /\ \A i \in 1 .. k : SubSeq(plan, 1, k)[i] = plan[i]
    BY <1>1, <2>1
  <2>4. DOMAIN plan = 1 .. Len(plan)  BY <1>1
  <2>5. Once(Fitting(room))
    BY <1>1, <2>1, <2>2, <2>3, <2>4 DEF Once
  <2>6. room = 0 => ToSet(Fitting(room)) = {}
    BY <2>1, <2>2, <2>3 DEF ToSet
  <2> QED  BY <2>5, <2>6
<1> QED  BY <1>2, <1>3

\* The target that compute_target makes of a plan.
LEMMA TargetIsTrue ==
  ASSUME NEW r, r.seen \in Views, plan \in Plans(text, closed)
  PROVE  /\ DOMAIN Target(r) = DOMAIN r.seen
         /\ TargetTrue(Target(r)) /\ TargetLooks(Target(r))
<1>1. DOMAIN Target(r) = DOMAIN r.seen
  BY DEF Target
<1>2. ASSUME NEW w \in DOMAIN Target(r)
      PROVE  /\ Once(Target(r)[w].order) /\ AreLooks(Target(r)[w].looks)
             /\ \A n \in DOMAIN Target(r)[w].looks : Target(r)[w].looks[n].place # Outside
  <2>1. r.seen[w] \in Nat
    BY <1>1, DisplayConstants DEF Views
  <2> DEFINE ids == Fitting(r.seen[w])
             slot(n) == IF text[n] \in Modal THEN 0 ELSE SelectInSeq(ids, LAMBDA m : m = n)
             look(n) == [content |-> text[n], style |-> r.style, place |-> <<r.seen[w], slot(n)>>]
             looks == [n \in ToSet(ids) |-> look(n)]
  <2>2. Target(r)[w] = [order |-> ids, looks |-> looks]
    BY <1>1, Zenon DEF Target
  <2>3. Once(ids) /\ \A n \in ToSet(ids) : text[n] \in Modal \/ r.seen[w] # 0
    BY <2>1, FittingOnce
  <2> HIDE DEF ids
  <2>4. \A n \in ToSet(ids) : slot(n) = 0 \/ r.seen[w] # 0
    BY <2>3
  <2> HIDE DEF slot
  <2>5. \A n \in ToSet(ids) : IsLook(look(n)) /\ look(n).place # Outside
    BY <2>1, <2>4 DEF IsLook, Outside
  <2>6. DOMAIN looks = ToSet(ids) /\ \A n \in ToSet(ids) : looks[n] = look(n)
    OBVIOUS
  <2> HIDE DEF looks, look
  <2> QED  BY <2>2, <2>3, <2>5, <2>6 DEF AreLooks
<1> QED  BY <1>1, <1>2 DEF TargetTrue, TargetLooks

-----------------------------------------------------------------------------
\* Motions that end leave the rest as it was.
LEMMA AdvancedShaped ==
  ASSUME NEW r, IsRec(r), Shaped(r), NEW over
  PROVE  LET a == Advanced(r, over)
         IN  /\ Shaped(a) /\ a.successful = r.successful /\ a.retries = r.retries
             /\ r.dirty => a.dirty
<1> DEFINE done == {d \in DOMAIN r.motions :
                      r.motions[d] = "finished" \/ (d \in over /\ r.motions[d] = "enter")}
           motions == [d \in DOMAIN r.motions \ done |->
                         IF d \in over THEN "finished" ELSE r.motions[d]]
           exiting == Restricted(r.exiting, Displays \ done)
           a == Advanced(r, over)
<1>1. a = [r EXCEPT !.motions = motions, !.exiting = exiting,
                    !.dirty = @ \/ done \cup (over \cap DOMAIN r.motions) # {}]
  BY Zenon DEF Advanced
<1>2. /\ DOMAIN motions = DOMAIN r.motions \ done
      /\ \A d \in DOMAIN motions : motions[d] # "enter" => r.motions[d] # "enter"
  OBVIOUS
<1>3. /\ DOMAIN exiting = DOMAIN r.exiting \cap (Displays \ done)
      /\ \A d \in DOMAIN exiting : exiting[d] = r.exiting[d]
  BY DEF Restricted
<1> HIDE DEF motions, exiting, a, done
<1>4. /\ a.motions = motions /\ a.exiting = exiting /\ a.target = r.target
      /\ a.retries = r.retries /\ a.successful = r.successful
      /\ r.dirty => a.dirty
  BY <1>1 DEF IsRec, RecFields
<1> QED  BY <1>2, <1>3, <1>4 DEF Shaped, AreLooks, a

\* Motions that begin are of displays of the target or of closed ones.
LEMMA MovedShaped ==
  ASSUME NEW r, IsRec(r), Shaped(r), NEW target
  PROVE  LET m == Moved(r, target)
         IN  /\ Shaped(m) /\ m.successful = r.successful /\ m.retries = r.retries
             /\ m.dirty = r.dirty
<1> DEFINE gone(d) == Has(r.target, d) /\ ~Has(target, d)
           stops == {d \in Displays :
                       \/ gone(d) /\ d.id \notin closed
                       \/ /\ Has(r.target, d) /\ Has(target, d)
                          /\ LookIn(target, d).place # LookIn(r.target, d).place}
           enters == {d \in Displays : /\ ToastIn(target, d) /\ ~Has(r.target, d)
                                       /\ d.id \notin r.projected}
           leaves == {d \in Displays : gone(d) /\ ToastIn(r.target, d) /\ d.id \in closed}
           motions == Restricted(r.motions, Displays \ stops)
           from(d) == IF d \in DOMAIN motions /\ motions[d] # "exit" THEN Outside
                      ELSE LookIn(r.target, d).place
           inOut == [d \in DOMAIN motions \cup enters \cup leaves |->
                       IF d \in leaves THEN "exit" ELSE IF d \in enters THEN "enter" ELSE motions[d]]
           out == [d \in (DOMAIN r.exiting \ stops) \cup leaves |->
                     IF d \in leaves THEN [LookIn(r.target, d) EXCEPT !.place = from(d)]
                     ELSE r.exiting[d]]
           m == Moved(r, target)
<1>1. m = IF r.style \notin Animated THEN [r EXCEPT !.motions = Empty, !.exiting = Empty]
          ELSE [r EXCEPT !.motions = inOut, !.exiting = out]
  BY Zenon DEF Moved
<1>2. \A d \in leaves : d \in Displays /\ d.id \in closed /\ IsLook(LookIn(r.target, d))
  BY DEF Shaped, TargetLooks, AreLooks, Has, LookIn
<1>3. enters \subseteq Displays
  OBVIOUS
<1>4. /\ DOMAIN motions = DOMAIN r.motions \cap (Displays \ stops)
      /\ \A d \in DOMAIN motions : motions[d] = r.motions[d]
  BY DEF Restricted
<1>5. /\ DOMAIN inOut = DOMAIN motions \cup enters \cup leaves
      /\ \A d \in DOMAIN inOut : inOut[d] # "enter" =>
           d \in leaves \/ (d \in DOMAIN motions /\ inOut[d] = motions[d])
  <2> HIDE DEF enters, leaves, motions
  <2> QED  OBVIOUS
<1>6. /\ DOMAIN out = (DOMAIN r.exiting \ stops) \cup leaves
      /\ \A d \in DOMAIN out : IsLook(out[d])
  <2>1. /\ DOMAIN out = (DOMAIN r.exiting \ stops) \cup leaves
        /\ \A d \in leaves : out[d] = [LookIn(r.target, d) EXCEPT !.place = from(d)]
        /\ \A d \in DOMAIN out \ leaves : d \in DOMAIN r.exiting /\ out[d] = r.exiting[d]
    <3> HIDE DEF stops, leaves, from
    <3> QED  OBVIOUS
  <2> HIDE DEF out, stops, leaves, from
  <2>2. \A d \in leaves : IsLook(out[d])
    BY <1>2, <2>1, PlacedLook
  <2>3. \A d \in DOMAIN out \ leaves : IsLook(out[d])
    BY <2>1 DEF Shaped, AreLooks
  <2> QED  BY <2>1, <2>2, <2>3
<1> HIDE DEF inOut, out, enters, leaves, motions, stops, m
<1>7. CASE r.style \notin Animated
  <2>1. m = [r EXCEPT !.motions = Empty, !.exiting = Empty]  BY <1>1, <1>7
  <2>2. /\ m.motions = Empty /\ m.exiting = Empty /\ m.target = r.target
        /\ m.retries = r.retries /\ m.successful = r.successful /\ m.dirty = r.dirty
    BY <2>1 DEF IsRec, RecFields
  <2> QED  BY <2>2 DEF Shaped, AreLooks, Empty, m
<1>8. CASE r.style \in Animated
  <2>1. m = [r EXCEPT !.motions = inOut, !.exiting = out]  BY <1>1, <1>8
  <2>2. /\ m.motions = inOut /\ m.exiting = out /\ m.target = r.target
        /\ m.retries = r.retries /\ m.successful = r.successful /\ m.dirty = r.dirty
    BY <2>1 DEF IsRec, RecFields
  <2>3. DOMAIN m.exiting \subseteq DOMAIN m.motions /\ DOMAIN m.motions \subseteq Displays
    BY <1>2, <1>3, <1>4, <1>5, <1>6, <2>2 DEF Shaped
  <2>4. \A d \in DOMAIN m.motions : m.motions[d] # "enter" => d.id \in closed
    BY <1>2, <1>4, <1>5, <2>2 DEF Shaped
  <2> QED  BY <1>6, <2>2, <2>3, <2>4 DEF Shaped, AreLooks, m
<1> QED  BY <1>7, <1>8

\* A tick that finds nothing to do has not looked.
LEMMA LookedShaped ==
  ASSUME NEW new, IsRec(rec), Shaped(rec)
  PROVE  /\ Shaped(Looked(new)) /\ Looked(new).successful = rec.successful
         /\ Looked(new).target = rec.target
         /\ Looks => Looked(new).dirty
         /\ ~Looks => Looked(new).seen = rec.seen
<1>1. /\ IsRec(Listened) /\ Listened.connected = rec.connected
      /\ Listened.motions = rec.motions /\ Listened.exiting = rec.exiting
      /\ Listened.target = rec.target /\ Listened.successful = rec.successful
      /\ Listened.seen = rec.seen
      /\ Listened.retries = rec.retries \/ Listened.retries = Empty
  BY DEF IsRec, RecFields, Listened
<1> HIDE DEF Listened
<1>2. /\ Looked(new).motions = rec.motions /\ Looked(new).exiting = rec.exiting
      /\ Looked(new).target = rec.target /\ Looked(new).successful = rec.successful
      /\ Looked(new).retries = rec.retries \/ Looked(new).retries = Empty
  BY <1>1 DEF IsRec, RecFields, Looked
<1>3. Looks => Looked(new).dirty
  BY <1>1 DEF IsRec, RecFields, Looked, Looks
<1>4. ~Looks => Looked(new).seen = rec.seen
  BY <1>1 DEF IsRec, RecFields, Looked
<1> QED  BY <1>2, <1>3, <1>4 DEF Shaped, Empty

\* What a tick plans.
LEMMA PlannedShaped ==
  ASSUME NEW new, IInv, LookInv
  PROVE  LET r == Planned(new)
         IN  /\ Shaped(r) /\ OutsideYet(drawn, r.motions)
             /\ DOMAIN r.target = DOMAIN r.seen /\ TargetTrue(r.target)
             /\ r.successful = rec.successful
             /\ DOMAIN Looked(new).seen = DOMAIN r.seen
             /\ ~r.dirty => ~Looks /\ r.seen = rec.seen
<1> DEFINE r == Looked(new)
           heeded == IF revised THEN [r EXCEPT !.retries = Empty, !.dirty = TRUE] ELSE r
           target == Target(heeded)
           moved == Moved(heeded, target)
           over == IF "motion" \notin ripe THEN {}
                   ELSE {d \in DOMAIN r.motions \cap DOMAIN moved.motions :
                           moved.motions[d] = r.motions[d]}
           ready == [moved EXCEPT !.projected = @ \cup ToSet(plan), !.target = target,
                                  !.dirty = @ \/ target # r.target]
           p == Planned(new)
<1>1. p = Advanced(ready, over)
  BY Zenon DEF Planned
<1>2. /\ IsRec(r) /\ Shaped(r) /\ r.successful = rec.successful /\ r.seen \in Views
      /\ Looks => r.dirty
      /\ ~Looks => r.seen = rec.seen
  BY LookedKeeps, LookedShaped DEF IInv, LookInv, ViewsAreViews, Looks
<1> HIDE DEF r
<1>3. /\ IsRec(heeded) /\ Shaped(heeded) /\ heeded.successful = rec.successful
      /\ heeded.seen = r.seen
      /\ r.dirty => heeded.dirty
  <2>1. CASE revised
    <3>1. heeded = [r EXCEPT !.retries = Empty, !.dirty = TRUE]  BY <2>1
    <3>2. /\ IsRec(heeded) /\ heeded.motions = r.motions /\ heeded.exiting = r.exiting
          /\ heeded.target = r.target /\ heeded.successful = r.successful
          /\ heeded.seen = r.seen /\ heeded.dirty = TRUE /\ heeded.retries = Empty
      BY <1>2, <3>1 DEF IsRec, RecFields
    <3> QED  BY <1>2, <3>2 DEF Shaped, Empty
  <2>2. CASE ~revised  BY <1>2, <2>2
  <2> QED  BY <2>1, <2>2
<1> HIDE DEF heeded
<1>4. /\ DOMAIN target = DOMAIN r.seen /\ TargetTrue(target) /\ TargetLooks(target)
  BY <1>2, <1>3, TargetIsTrue DEF LookInv
<1> HIDE DEF target
<1>5. /\ IsRec(moved) /\ moved.seen = r.seen
      /\ Shaped(moved) /\ moved.successful = rec.successful
      /\ r.dirty => moved.dirty
  BY <1>3, MovedKeeps, MovedShaped
<1> HIDE DEF moved
<1>6. /\ IsRec(ready) /\ ready.target = target /\ ready.seen = r.seen
      /\ ready.exiting = moved.exiting /\ ready.motions = moved.motions
      /\ ready.retries = moved.retries /\ ready.successful = rec.successful
      /\ r.dirty => ready.dirty
  BY <1>5 DEF IsRec, RecFields
<1> HIDE DEF ready, over
<1>7. Shaped(ready)
  BY <1>4, <1>5, <1>6 DEF Shaped
<1>8. /\ Shaped(p) /\ p.successful = rec.successful /\ p.seen = r.seen /\ p.target = target
      /\ r.dirty => p.dirty
  BY <1>1, <1>6, <1>7, AdvancedShaped, AdvancedKeeps
<1>9. OutsideYet(drawn, p.motions)
  <2> HIDE DEF p
  <2> SUFFICES ASSUME NEW d \in DOMAIN p.motions, d.id \notin closed,
                      d.id \in DOMAIN drawn[d.win]
               PROVE  drawn[d.win][d.id].place = Outside
    BY DEF OutsideYet
  <2>1. p.motions[d] = "enter" /\ d.win \in Windows
    BY <1>8 DEF Shaped, Displays
  <2>2. d \in DOMAIN rec.motions
    <3>1. d.id \in rec.projected \cup closed  BY <2>1 DEF IInv, DrawnIsKnown
    <3> QED  BY <2>1, <3>1, PlannedKeeps DEF IInv, p
  <2> QED  BY <2>2 DEF LookInv, OutsideYet
<1> QED  BY <1>2, <1>4, <1>8, <1>9 DEF p, r

-----------------------------------------------------------------------------
(* What every window looks like after a reconcile.                         *)

\* What an outcome draws, window by window.
Shown(o) == [w \in Windows |-> o[w].shown]
\* The panes an outcome leaves dead, window by window.
Gone(o) == [w \in Windows |-> o[w].gone]

\* Taking dead panes off the list leaves the rest of it as it was.
LEMMA PrunedOk ==
  ASSUME ShownOk(drawn, dead)
  PROVE  /\ ShownOk(Pruned, Missing)
         /\ \A w \in Windows :
              /\ DOMAIN drawn[w] \ dead[w] \subseteq DOMAIN Pruned[w]
              /\ DOMAIN Pruned[w] \subseteq DOMAIN drawn[w]
              /\ \A n \in DOMAIN Pruned[w] : Pruned[w][n] = drawn[w][n]
              /\ dead[w] = {} => Missing[w] = {}
         /\ \A motions : OutsideYet(drawn, motions) /\ DOMAIN motions \subseteq Displays
                         => OutsideYet(Pruned, motions)
<1>1. CASE Looks
  <2>1. \A w \in Windows : /\ DOMAIN Pruned[w] = DOMAIN drawn[w] \cap (Ids \ dead[w])
                           /\ \A n \in DOMAIN Pruned[w] : Pruned[w][n] = drawn[w][n]
                           /\ Missing[w] = {}
    BY <1>1 DEF Pruned, Missing, Restricted
  <2> QED  BY <2>1 DEF ShownOk, AreLooks, OutsideYet, Displays
<1>2. CASE ~Looks
  <2>1. Pruned = drawn /\ Missing = dead  BY <1>2 DEF Pruned, Missing
  <2> QED  BY <2>1
<1> QED  BY <1>1, <1>2

\* What a window should show is of Notifications, and outside while it slides.
LEMMA DesiredOutside ==
  ASSUME NEW r, Shaped(r), Targets(r.target), closed \subseteq Ids, PlanIsLive,
         ExitingIsClosed(r), NEW w
  PROVE  LET want == Want(Desired(r, r.target), w)
         IN  /\ Wants(want) /\ Wanted(want) \subseteq Ids
             /\ \A n \in Wanted(want) :
                  (Disp(n, w) \in DOMAIN r.motions /\ r.motions[Disp(n, w)] # "exit")
                  => want.looks[n].place = Outside
<1> DEFINE want == Want(Desired(r, r.target), w)
<1>1. DOMAIN r.exiting \subseteq Displays /\ TargetLooks(r.target) /\ AreLooks(r.exiting)
  BY DEF Shaped
<1>2. DesiredIs(r, w, want)
  BY <1>1, DesiredLooks
<1> HIDE DEF want
<1>3. ASSUME NEW n \in Wanted(want), Disp(n, w) \in DOMAIN r.motions,
             r.motions[Disp(n, w)] # "exit"
      PROVE  want.looks[n].place = Outside
  BY <1>2, <1>3 DEF DesiredIs
<1>4. Wanted(want) \subseteq ToSet(plan) \cup closed
  BY DesiredIsKnown DEF want
<1>5. ToSet(plan) \subseteq Ids
  BY ToSetOfSeq DEF PlanIsLive
<1> QED  BY <1>2, <1>3, <1>4, <1>5 DEF want, DesiredIs

\* A reconcile leaves looks, and what slides in outside.
LEMMA ReconcilingKeeps ==
  ASSUME NEW r, Shaped(r), Targets(r.target), closed \subseteq Ids, PlanIsLive,
         ExitingIsClosed(r), NEW shown, NEW gone, ShownOk(shown, gone),
         OutsideYet(shown, r.motions),
         NEW o \in Outcomes(shown, gone, Desired(r, r.target))
                   \cup CutShort(shown, gone, Desired(r, r.target))
  PROVE  ShownOk(Shown(o), Gone(o)) /\ OutsideYet(Shown(o), r.motions)
<1> DEFINE desired == Desired(r, r.target)
           want(w) == Want(desired, w)
<1>0. \A w \in Windows :
        /\ Wants(want(w)) /\ Wanted(want(w)) \subseteq Ids
        /\ \A n \in Wanted(want(w)) :
             (Disp(n, w) \in DOMAIN r.motions /\ r.motions[Disp(n, w)] # "exit")
             => want(w).looks[n].place = Outside
  BY DesiredOutside
<1> HIDE DEF desired
<1>1. ASSUME NEW w \in Windows
      PROVE  Approached(shown[w], want(w), o[w])
  BY <1>0, OutcomesApproached DEF ShownOk, desired
<1> HIDE DEF want
<1>2. \A w \in Windows : Shown(o)[w] = o[w].shown /\ Gone(o)[w] = o[w].gone
  BY DEF Shown, Gone
<1>3. ShownOk(Shown(o), Gone(o))
  BY <1>0, <1>1, <1>2 DEF Approached, ShownOk
<1>4. ASSUME NEW d \in DOMAIN r.motions, d.id \notin closed, d.id \in DOMAIN Shown(o)[d.win]
      PROVE  Shown(o)[d.win][d.id].place = Outside
  <2>1. d \in Displays /\ r.motions[d] # "exit"
    BY <1>4 DEF Shaped
  <2>2. d.win \in Windows /\ d = Disp(d.id, d.win)
    BY <2>1 DEF Displays, Disp
  <2>3. d.id \in DOMAIN shown[d.win] => shown[d.win][d.id].place = Outside
    BY <1>4 DEF OutsideYet
  <2>4. \/ d.id \in DOMAIN shown[d.win] /\ Shown(o)[d.win][d.id].place = shown[d.win][d.id].place
        \/ d.id \in Wanted(want(d.win))
           /\ Shown(o)[d.win][d.id].place = want(d.win).looks[d.id].place
    BY <1>1, <1>2, <1>4, <2>2 DEF Approached
  <2>5. d.id \in Wanted(want(d.win)) => want(d.win).looks[d.id].place = Outside
    BY <1>0, <2>1, <2>2
  <2> QED  BY <2>3, <2>4, <2>5
<1> QED  BY <1>3, <1>4 DEF OutsideYet

\* Closing everything moves nothing to another place.
LEMMA ClosingKeeps ==
  ASSUME NEW shown, NEW gone, ShownOk(shown, gone), NEW motions,
         DOMAIN motions \subseteq Displays, OutsideYet(shown, motions),
         NEW o \in Outcomes(shown, gone, Empty) \cup CutShort(shown, gone, Empty)
  PROVE  ShownOk(Shown(o), Gone(o)) /\ OutsideYet(Shown(o), motions)
<1>1. \A w \in Windows : Want(Empty, w) = Nothing
  BY DEF Want, Empty
<1>2. Wants(Nothing)
  BY NothingIsWanted DEF Wants
<1>3. \A w \in Windows : Approached(shown[w], Nothing, o[w])
  BY <1>1, <1>2, OutcomesApproached DEF ShownOk
<1>4. \A w \in Windows : Shown(o)[w] = o[w].shown /\ Gone(o)[w] = o[w].gone
  BY DEF Shown, Gone
<1>5. \A w \in Windows : \A n \in DOMAIN Shown(o)[w] :
        n \in DOMAIN shown[w] /\ Shown(o)[w][n].place = shown[w][n].place
  BY <1>3, <1>4, NothingIsWanted DEF Approached
<1>6. ShownOk(Shown(o), Gone(o))
  BY <1>3, <1>4, <1>5 DEF Approached, ShownOk
<1> QED  BY <1>5, <1>6 DEF OutsideYet, Displays

\* A window that shows just what it should does not fail.
LEMMA ShownSucceeds ==
  ASSUME NEW r, Shaped(r), Targets(r.target), TargetTrue(r.target), PlanIsLive,
         ShownOk(drawn, dead), OutsideYet(drawn, r.motions),
         NEW w \in DOMAIN r.target \cap Windows, drawn[w] = r.target[w].looks, dead[w] = {},
         \A d \in DOMAIN r.exiting : d.win # w,
         NEW o \in Outcomes(Pruned, Missing, Desired(r, r.target))
  PROVE  o[w].ok
<1> DEFINE desired == Desired(r, r.target)
           want == Want(desired, w)
<1>1. /\ Wants(want) /\ want.order = r.target[w].order
      /\ Wanted(want) = DOMAIN r.target[w].looks
      /\ \A n \in Wanted(want) :
           Has(r.target, Disp(n, w)) /\ Disp(n, w) \notin DOMAIN r.motions
           => want.looks[n] = r.target[w].looks[n]
  BY DesiredLooks DEF Shaped, DesiredIs
<1>2. Once(want.order) /\ \E S : want.order \in Seq(S)
  BY <1>1 DEF TargetTrue, Targets
<1> HIDE DEF want, desired
<1>3. ASSUME NEW n \in Wanted(want)
      PROVE  Has(r.target, Disp(n, w)) /\ Disp(n, w) \notin DOMAIN r.motions
  <2>1. Has(r.target, Disp(n, w))
    BY <1>1 DEF Has, Disp
  <2>2. n \in Ids \ closed
    BY <1>1, ToSetOfSeq DEF Targets, PlanIsLive
  <2>3. n \in DOMAIN drawn[w] /\ drawn[w][n].place # Outside
    BY <1>1 DEF TargetTrue
  <2>4. Disp(n, w).id = n /\ Disp(n, w).win = w
    BY DEF Disp
  <2> QED  BY <2>1, <2>2, <2>3, <2>4 DEF OutsideYet
<1>4. /\ DOMAIN Pruned[w] = Wanted(want) /\ Missing[w] = {}
      /\ \A n \in Wanted(want) : Pruned[w][n] = want.looks[n]
  <2>1. DOMAIN Pruned[w] = DOMAIN drawn[w] /\ Missing[w] = {}
    BY PrunedOk
  <2>2. \A n \in DOMAIN Pruned[w] : Pruned[w][n] = drawn[w][n]
    BY PrunedOk
  <2> QED  BY <1>1, <1>3, <2>1, <2>2
<1>5. o[w] \in Reached(Pruned[w], Missing[w], want)
  <2> DEFINE reached(v) == Reached(Pruned[v], Missing[v], Want(desired, v))
  <2>1. <<w, o[w]>> \in UNION {{v} \X reached(v) : v \in Windows}
    BY DEF Outcomes, PerWindow, desired
  <2>2. o[w] \in reached(w)
    <3> HIDE DEF reached
    <3> QED  BY <2>1
  <2> QED  BY <2>2 DEF want
<1> QED  BY <1>2, <1>4, <1>5, ReachedSame

\* Every window that should show something and did not fail shows something.
LEMMA AppliedShows ==
  ASSUME NEW r, Shaped(r), Targets(r.target), ExitingIsClosed(r),
         ShownOk(drawn, dead), NEW w \in Windows,
         NEW o \in Outcomes(Pruned, Missing, Desired(r, r.target)), o[w].ok
  PROVE  Wanted(Want(Desired(r, r.target), w)) \subseteq DOMAIN o[w].shown
<1>1. Wants(Want(Desired(r, r.target), w))
  BY DesiredLooks DEF Shaped, DesiredIs
<1>2. Approached(Pruned[w], Want(Desired(r, r.target), w), o[w])
  BY <1>1, PrunedOk, OutcomesApproached DEF ShownOk
<1> QED  BY <1>2 DEF Approached

\* A display that stays on the plan in its kind is not taken away.
LEMMA PlannedPersists ==
  ASSUME NEW r, Shaped(r), Targets(r.target), ShownOk(drawn, dead),
         NEW w \in Windows \cap DOMAIN r.target,
         NEW n \in (DOMAIN drawn[w] \ dead[w]) \cap DOMAIN r.target[w].looks,
         SameKind(drawn[w][n], r.target[w].looks[n]),
         NEW o \in Outcomes(Pruned, Missing, Desired(r, r.target))
                   \cup CutShort(Pruned, Missing, Desired(r, r.target))
  PROVE  n \in DOMAIN o[w].shown
<1> DEFINE want == Want(Desired(r, r.target), w)
<1>1. Has(r.target, Disp(n, w))
  BY DEF Has, Disp
<1>2. /\ Wants(want) /\ n \in Wanted(want)
      /\ want.looks[n].content = r.target[w].looks[n].content
  BY <1>1, DesiredLooks DEF Shaped, DesiredIs
<1>3. Approached(Pruned[w], want, o[w])
  BY <1>2, PrunedOk, OutcomesApproached DEF ShownOk
<1> HIDE DEF want
<1>4. n \in DOMAIN Pruned[w] /\ Pruned[w][n] = drawn[w][n]
  BY PrunedOk
<1>5. SameKind(Pruned[w][n], want.looks[n])
  BY <1>2, <1>4 DEF SameKind
<1> QED  BY <1>2, <1>3, <1>4, <1>5 DEF Approached

-----------------------------------------------------------------------------
(* Every step keeps the second invariant, and fails locally.               *)

\* What the parts of FailuresAreLocal say of a tick.
Persists ==
  \A w \in DOMAIN rec'.target \cap DOMAIN rec'.seen, n \in Ids \ closed' :
    LET want == rec'.target[w].looks
    IN  (n \in (DOMAIN drawn[w] \ dead[w]) \cap DOMAIN want /\ SameKind(drawn[w][n], want[n]))
        => n \in DOMAIN drawn'[w]

\* The second part, of a tick: nothing is given up while a window is whole.
GivenUpUnshown ==
  closed' # closed =>
    \A w \in DOMAIN rec'.seen :
      rec'.target[w].order # <<>> =>
        \/ drawn[w] # rec'.target[w].looks
        \/ dead[w] # {}
        \/ \E d \in DOMAIN rec'.exiting : d.win = w

\* The third part, of a tick: timeouts run for what is drawn.
RunIsSeen ==
  (available' /\ rec'.retries = Empty /\ ~Attends(plan)) => ShowsSomething' \/ Overlooks

\* All three.
FailsLocally == Persists /\ GivenUpUnshown /\ RunIsSeen

\* What the reconciler keeps of r stays well shaped while closed grows.
LEMMA ShapedNext ==
  ASSUME NEW r, Shaped(r), rec'.motions = r.motions, rec'.exiting = r.exiting,
         rec'.target = r.target, DOMAIN rec'.retries \subseteq Windows, closed \subseteq closed'
  PROVE  Shaped(rec)'
  BY DEF Shaped, TargetLooks

\* What slides in stays outside while closed grows.
LEMMA OutsideNext ==
  ASSUME NEW motions, OutsideYet(drawn', motions), rec'.motions = motions, closed \subseteq closed'
  PROVE  OutsideYet(drawn, rec.motions)'
  BY DEF OutsideYet

\* A step that draws nothing and leaves the reconciler as it is.
LEMMA DrawsNothing ==
  ASSUME LookInv, UNCHANGED <<drawn, rec>>, closed \subseteq closed', closed' \subseteq Ids,
         text' = [n \in Ids |-> text'[n]], plan' \in Plans(text', closed'),
         ShownOk(drawn, dead)', dead' = [w \in Windows |-> dead'[w]],
         heard' \subseteq {"changed", "gone"}, ripe' \subseteq Timers
  PROVE  LookInv'
<1>1. Shaped(rec)'  BY ShapedNext DEF LookInv, Shaped
<1>2. OutsideYet(drawn, rec.motions)'  BY OutsideNext DEF LookInv
<1> QED  BY <1>1, <1>2 DEF LookInv

\* It holds at the start: nothing is drawn.
LEMMA LooksInitHolds == Init => LookInv
<1> SUFFICES ASSUME Init PROVE LookInv  OBVIOUS
<1>1. PICK style \in Styles :
        rec = [connected |-> FALSE, dirty |-> TRUE, successful |-> {},
               retries |-> Empty, seen |-> Empty, projected |-> {},
               target |-> Empty, motions |-> Empty, exiting |-> Empty,
               style |-> style]
  BY DEF Init
<1>2. /\ rec.motions = Empty /\ rec.exiting = Empty /\ rec.target = Empty
      /\ rec.retries = Empty /\ rec.successful = {}
  BY <1>1
<1>3. DOMAIN Empty = {}  BY DEF Empty
<1>4. Shaped(rec)  BY <1>2, <1>3 DEF Shaped, AreLooks, TargetLooks
<1>5. OutsideYet(drawn, rec.motions)  BY <1>2, <1>3 DEF OutsideYet
<1>6. ShownOk(drawn, dead) /\ dead = [w \in Windows |-> dead[w]]
  BY <1>3 DEF Init, ShownOk, AreLooks
<1> QED  BY <1>2, <1>4, <1>5, <1>6 DEF Init, LookInv, Timers

\* A timer that is still ripe was ripe.
LEMMA StillRipeIsRipe ==
  ASSUME NEW r, NEW failed, NEW moves PROVE StillRipe(r, failed, moves) \subseteq ripe
  BY DEF StillRipe

\* A tick without a connection draws nothing.
LEMMA WaitsLocal == IInv /\ LookInv /\ (Waits \/ LooksInVain) => LookInv' /\ FailsLocally
<1> SUFFICES ASSUME IInv, LookInv, Waits \/ LooksInVain PROVE LookInv' /\ FailsLocally  OBVIOUS
<1>1. /\ rec' = Disconnected(Listened) /\ available' = FALSE
      /\ UNCHANGED <<viewed, drawn, dead, plan, text, closed>>
      /\ heard' \in {{}, heard} /\ ripe' = StillRipe(rec', {}, FALSE)
  BY DEF Waits, LooksInVain
<1>2. /\ rec'.motions = rec.motions /\ rec'.exiting = rec.exiting
      /\ rec'.target = rec.target /\ rec'.successful = {}
      /\ rec'.retries = rec.retries \/ rec'.retries = Empty
  BY <1>1 DEF IInv, IsRec, RecFields, Disconnected, Listened
<1>3. DOMAIN rec'.retries \subseteq Windows
  BY <1>2 DEF LookInv, Shaped, Empty
<1>4. Shaped(rec)' /\ OutsideYet(drawn, rec.motions)'
  BY <1>1, <1>2, <1>3, ShapedNext, OutsideNext DEF LookInv
<1>5. ripe' \subseteq ripe
  BY <1>1, StillRipeIsRipe
<1>6. ShownOk(drawn, dead)'
  BY <1>1 DEF LookInv, ShownOk
<1>7. LookInv'
  BY <1>1, <1>2, <1>4, <1>5, <1>6 DEF LookInv
<1>8. FailsLocally
  BY <1>1 DEF FailsLocally, Persists, GivenUpUnshown, RunIsSeen
<1> QED  BY <1>7, <1>8

\* A tick that finds nobody watching closes everything, and plans for no window.
LEMMA NothingViewedLocal == IInv /\ LookInv /\ NothingViewed => LookInv' /\ FailsLocally
<1> SUFFICES ASSUME IInv, LookInv, NothingViewed PROVE LookInv' /\ FailsLocally  OBVIOUS
<1>1. PICK new \in News :
        LET r == [Looked(new) EXCEPT !.motions = Empty, !.exiting = Empty]
        IN  /\ DOMAIN r.seen = {}
            /\ available' = FALSE /\ heard' = {}
            /\ \E failed : ripe' = StillRipe(rec', failed, TRUE)
            /\ \/ \E o \in Outcomes(Pruned, Missing, Empty) :
                    /\ Drawn(o)
                    /\ rec' = [r EXCEPT !.successful = {}, !.dirty = FALSE,
                                 !.retries = IF Failed(o) = {} THEN Empty
                                             ELSE WithFailures(@, Failed(o))]
               \/ /\ \E o \in CutShort(Pruned, Missing, Empty) : Drawn(o)
                  /\ rec' = Disconnected(r)
               \/ /\ rec' = [r EXCEPT !.successful = {}, !.dirty = FALSE]
                  /\ drawn' = Pruned /\ dead' = Missing
  BY DEF NothingViewed
<1> DEFINE r == [Looked(new) EXCEPT !.motions = Empty, !.exiting = Empty]
<1>2. IsRec(Looked(new)) /\ Shaped(Looked(new))
  BY LookedKeeps, LookedShaped DEF IInv, LookInv
<1>3. /\ IsRec(r) /\ r.motions = Empty /\ r.exiting = Empty
      /\ r.target = Looked(new).target /\ r.retries = Looked(new).retries
  BY <1>2 DEF IsRec, RecFields
<1> HIDE DEF r
<1>4. Shaped(r)
  BY <1>2, <1>3 DEF Shaped, Empty, AreLooks
<1>5. /\ UNCHANGED <<viewed, plan, text, closed>> /\ available' = FALSE /\ heard' = {}
      /\ ripe' \subseteq ripe /\ DOMAIN r.seen = {}
  BY <1>1, StillRipeIsRipe DEF NothingViewed, r
<1>6. /\ rec'.motions = Empty /\ rec'.exiting = Empty /\ rec'.target = r.target
      /\ rec'.successful = {} /\ rec'.seen = r.seen
      /\ DOMAIN rec'.retries \subseteq Windows
  <2>1. ASSUME NEW o, rec' = [r EXCEPT !.successful = {}, !.dirty = FALSE,
                                !.retries = IF Failed(o) = {} THEN Empty
                                            ELSE WithFailures(@, Failed(o))]
        PROVE  <1>6!:
    <3> DEFINE after == IF Failed(o) = {} THEN Empty ELSE WithFailures(r.retries, Failed(o))
    <3>1. DOMAIN after \subseteq Windows
      BY <1>4 DEF Shaped, Empty, WithFailures, Failed
    <3>2. rec' = [r EXCEPT !.successful = {}, !.dirty = FALSE, !.retries = after]
      BY <1>3, <2>1 DEF IsRec, RecFields
    <3> HIDE DEF after
    <3>3. /\ rec'.motions = Empty /\ rec'.exiting = Empty /\ rec'.target = r.target
          /\ rec'.successful = {} /\ rec'.seen = r.seen /\ rec'.retries = after
      BY <1>3, <3>2 DEF IsRec, RecFields
    <3> QED  BY <3>1, <3>3
  <2>2. CASE rec' = Disconnected(r)
    BY <1>3, <1>4, <2>2 DEF IsRec, RecFields, Disconnected, Shaped
  <2>3. CASE rec' = [r EXCEPT !.successful = {}, !.dirty = FALSE]
    BY <1>3, <1>4, <2>3 DEF IsRec, RecFields, Shaped
  <2> QED  BY <1>1, <2>1, <2>2, <2>3 DEF r
<1>7. ShownOk(drawn, dead)' /\ dead' = [w \in Windows |-> dead'[w]]
  <2>1. ASSUME NEW o \in Outcomes(Pruned, Missing, Empty) \cup CutShort(Pruned, Missing, Empty),
               Drawn(o)
        PROVE  <1>7!:
    <3>1. OutsideYet(Pruned, Empty) /\ DOMAIN Empty \subseteq Displays
      BY DEF OutsideYet, Empty
    <3>2. ShownOk(Shown(o), Gone(o))
      BY <3>1, ClosingKeeps, PrunedOk DEF LookInv
    <3>3. drawn' = Shown(o) /\ dead' = Gone(o)
      BY <2>1 DEF Drawn, Shown, Gone
    <3> QED  BY <3>2, <3>3 DEF ShownOk, Gone
  <2>2. CASE drawn' = Pruned /\ dead' = Missing
    <3>1. ShownOk(Pruned, Missing)  BY PrunedOk DEF LookInv
    <3>2. Missing = [w \in Windows |-> Missing[w]]  BY DEF Missing, LookInv
    <3> QED  BY <2>2, <3>1, <3>2 DEF ShownOk
  <2> QED  BY <1>1, <2>1, <2>2
<1>8. Shaped(rec)' /\ OutsideYet(drawn, rec.motions)'
  <2>1. OutsideYet(drawn, rec.motions)'  BY <1>6 DEF OutsideYet, Empty
  <2> QED  BY <1>3, <1>4, <1>5, <1>6, <2>1, ShapedNext
<1>9. LookInv'
  BY <1>5, <1>6, <1>7, <1>8 DEF LookInv
<1>10. FailsLocally
  BY <1>5, <1>6 DEF FailsLocally, Persists, GivenUpUnshown, RunIsSeen
<1> QED  BY <1>9, <1>10

\* What the report leaves of the reconciler.
LEMMA ReportedLeaves ==
  ASSUME NEW r, IsRec(r), Shaped(r), NEW o, NEW desired
  PROVE  LET a == Reported(r, o, desired)
             applied == Applied(o, desired) \cap DOMAIN r.seen
         IN  /\ a.target = r.target /\ a.seen = r.seen
             /\ a.motions = r.motions /\ a.exiting = r.exiting
             /\ DOMAIN a.retries = (DOMAIN r.retries \ applied) \cup Failed(o)
             /\ DOMAIN a.retries \subseteq Windows
             /\ a.successful \subseteq DOMAIN r.seen
             /\ \A w \in a.successful : w \in applied => Wanted(desired[w]) # {}
<1> DEFINE a == Reported(r, o, desired)
           applied == Applied(o, desired) \cap DOMAIN r.seen
           successful == ((r.successful \cap DOMAIN r.seen) \ applied)
                         \cup {w \in applied : Wanted(desired[w]) # {}}
           kept == Restricted(r.retries, Windows \ applied)
           retries == WithFailures(kept, Failed(o))
<1>1. a = [r EXCEPT !.dirty = FALSE, !.successful = successful, !.retries = retries]
  BY DEF Reported
<1>2. /\ DOMAIN kept = DOMAIN r.retries \cap (Windows \ applied)
      /\ Failed(o) \subseteq Windows
  BY DEF Restricted, Failed
<1>3. DOMAIN retries = DOMAIN kept \cup Failed(o)
  BY DEF WithFailures
<1>4. /\ successful \subseteq DOMAIN r.seen
      /\ \A w \in successful : w \in applied => Wanted(desired[w]) # {}
  OBVIOUS
<1> HIDE DEF a, successful, kept, retries, applied
<1>5. /\ a.target = r.target /\ a.seen = r.seen /\ a.motions = r.motions
      /\ a.exiting = r.exiting /\ a.retries = retries /\ a.successful = successful
  BY <1>1 DEF IsRec, RecFields
<1>6. DOMAIN r.retries \subseteq Windows
  BY DEF Shaped
<1> QED  BY <1>2, <1>3, <1>4, <1>5, <1>6 DEF a, applied

\* What a tick plans, for all that follows.
Ready(r) ==
  /\ IsRec(r) /\ r.seen \in Views /\ ExitingIsClosed(r) /\ Targets(r.target)
  /\ Shaped(r) /\ OutsideYet(drawn, r.motions)
  /\ DOMAIN r.target = DOMAIN r.seen /\ TargetTrue(r.target)
  /\ r.successful = rec.successful
  /\ ~r.dirty => ~Looks /\ r.seen = rec.seen

\* What a tick plans is ready to be drawn.
LEMMA PlannedIsReady == ASSUME IInv, LookInv, NEW new PROVE Ready(Planned(new))
  BY PlannedKeeps, PlannedShaped DEF Ready, IInv

\* A window of the target that should show something is one reconcile draws.
LEMMA TargetIsDesired ==
  ASSUME NEW r, Ready(r), NEW w \in DOMAIN r.target
  PROVE  LET desired == Desired(r, r.target)
         IN  /\ w \in Windows /\ w \in DOMAIN desired /\ desired[w] = Want(desired, w)
             /\ DOMAIN r.target[w].looks \subseteq Wanted(desired[w])
             /\ r.target[w].order # <<>> => Wanted(desired[w]) # {}
<1> DEFINE desired == Desired(r, r.target)
<1>1. w \in Windows  BY DEF Ready, Views
<1>2. /\ w \in DOMAIN desired /\ Want(desired, w).order = r.target[w].order
      /\ DOMAIN r.target[w].looks \subseteq Wanted(Want(desired, w))
  BY DesiredLooks DEF Ready, Shaped, DesiredIs
<1>3. desired[w] = Want(desired, w)  BY <1>2 DEF Want
<1>4. r.target[w].order # <<>> => DOMAIN r.target[w].looks # {}
  <2>1. /\ r.target[w].order \in Seq(Ids \ closed)
        /\ DOMAIN r.target[w].looks = ToSet(r.target[w].order)
    BY DEF Ready, Targets
  <2> SUFFICES ASSUME r.target[w].order # <<>> PROVE ToSet(r.target[w].order) # {}
    BY <2>1
  <2>2. 1 \in DOMAIN r.target[w].order
    BY <2>1
  <2> QED  BY <2>2 DEF ToSet
<1> HIDE DEF desired
<1> QED  BY <1>1, <1>2, <1>3, <1>4 DEF desired

\* A tick with nothing to do leaves the looks as they are.
LEMMA IdlesLocal ==
  ASSUME IInv, LookInv, NEW r, Ready(r), Idles(r), viewed' = viewed,
         text' = text, ripe' \subseteq ripe
  PROVE  LookInv' /\ FailsLocally
<1>1. /\ ~r.dirty /\ rec' = r /\ drawn' = Pruned /\ dead' = Missing /\ heard' = {}
      /\ plan' = plan /\ closed' = closed
  BY DEF Idles
<1>2. ~Looks /\ r.seen = rec.seen /\ r.successful = rec.successful
  BY <1>1 DEF Ready
<1>3. drawn' = drawn /\ dead' = dead
  BY <1>1, <1>2 DEF Pruned, Missing
<1>4. Shaped(rec)' /\ OutsideYet(drawn, rec.motions)'
  BY <1>1, <1>3, ShapedNext, OutsideNext DEF Ready, Shaped
<1>5. LookInv'
  BY <1>1, <1>2, <1>3, <1>4 DEF LookInv, ShownOk
<1>6. Persists /\ GivenUpUnshown
  BY <1>1, <1>3 DEF Persists, GivenUpUnshown
<1>7. RunIsSeen
  BY <1>1, <1>2, <1>3 DEF RunIsSeen, Overlooks, ShowsSomething
<1> QED  BY <1>5, <1>6, <1>7 DEF FailsLocally

\* A reconcile keeps the looks, whether it ends or is cut short.
LEMMA DrawnNext ==
  ASSUME IInv, LookInv, NEW r, Ready(r),
         NEW o \in Outcomes(Pruned, Missing, Desired(r, r.target))
                   \cup CutShort(Pruned, Missing, Desired(r, r.target))
  PROVE  ShownOk(Shown(o), Gone(o)) /\ OutsideYet(Shown(o), r.motions)
<1>1. ShownOk(Pruned, Missing) /\ OutsideYet(Pruned, r.motions)
  BY PrunedOk DEF LookInv, Ready, Shaped
<1> QED  BY <1>1, ReconcilingKeeps DEF IInv, LookInv, Ready

\* The first part, for a reconcile that ends or is cut short.
LEMMA DrawnPersists ==
  ASSUME IInv, LookInv, NEW r, Ready(r),
         NEW o \in Outcomes(Pruned, Missing, Desired(r, r.target))
                   \cup CutShort(Pruned, Missing, Desired(r, r.target)),
         Drawn(o), rec'.target = r.target
  PROVE  Persists
<1> SUFFICES ASSUME NEW w \in DOMAIN r.target,
                    NEW n \in (DOMAIN drawn[w] \ dead[w]) \cap DOMAIN r.target[w].looks,
                    SameKind(drawn[w][n], r.target[w].looks[n])
             PROVE  n \in DOMAIN drawn'[w]
  BY DEF Persists
<1>1. w \in Windows  BY DEF Ready, Views
<1>2. n \in DOMAIN o[w].shown
  BY <1>1, PlannedPersists DEF LookInv, Ready
<1> QED  BY <1>1, <1>2 DEF Drawn

\* A tick that loses its connection on the way.
LEMMA LosesLocal ==
  ASSUME IInv, LookInv, NEW r, Ready(r), LosesConnection(r, Desired(r, r.target)),
         viewed' = viewed, text' = text, ripe' \subseteq ripe
  PROVE  LookInv' /\ FailsLocally
<1>1. /\ rec' = Disconnected(r) /\ available' = FALSE /\ heard' = {}
      /\ plan' = plan /\ closed' = closed
  BY DEF LosesConnection
<1>2. PICK o \in CutShort(Pruned, Missing, Desired(r, r.target)) : Drawn(o)
  BY DEF LosesConnection
<1>3. /\ rec'.motions = r.motions /\ rec'.exiting = r.exiting /\ rec'.target = r.target
      /\ rec'.retries = r.retries /\ rec'.successful = {}
  BY <1>1 DEF Ready, IsRec, RecFields, Disconnected
<1>4. drawn' = Shown(o) /\ dead' = Gone(o)
  BY <1>2 DEF Drawn, Shown, Gone
<1>5. ShownOk(Shown(o), Gone(o)) /\ OutsideYet(Shown(o), r.motions)
  BY DrawnNext
<1>6. Shaped(rec)' /\ OutsideYet(drawn, rec.motions)'
  BY <1>1, <1>3, <1>4, <1>5, ShapedNext, OutsideNext DEF Ready, Shaped
<1>7. ShownOk(drawn, dead)' /\ dead' = [w \in Windows |-> dead'[w]]
  BY <1>4, <1>5 DEF ShownOk, Gone
<1>8. LookInv'
  BY <1>1, <1>3, <1>6, <1>7 DEF LookInv
<1>9. Persists
  BY <1>2, <1>3, DrawnPersists
<1> QED  BY <1>1, <1>8, <1>9 DEF FailsLocally, GivenUpUnshown, RunIsSeen

\* A tick whose reconcile reports, and leaves attempts for what failed.
LEMMA ReconcilesLocal ==
  ASSUME IInv, LookInv, NEW r, Ready(r), NEW o \in Outcomes(Pruned, Missing, Desired(r, r.target)),
         Reconciles(r, Desired(r, r.target), o),
         viewed' = viewed, text' = text, ripe' \subseteq ripe
  PROVE  LookInv' /\ FailsLocally
<1> DEFINE desired == Desired(r, r.target)
           applied == Applied(o, desired) \cap DOMAIN r.seen
<1>1. /\ rec' = Reported(r, o, desired) /\ Drawn(o) /\ heard' = {}
      /\ plan' = plan /\ closed' = closed
      /\ available' = (rec'.successful # {})
  BY DEF Reconciles
<1>2. /\ rec'.motions = r.motions /\ rec'.exiting = r.exiting /\ rec'.target = r.target
      /\ rec'.seen = r.seen /\ DOMAIN rec'.retries = (DOMAIN r.retries \ applied) \cup Failed(o)
      /\ DOMAIN rec'.retries \subseteq Windows /\ rec'.successful \subseteq DOMAIN r.seen
      /\ \A w \in rec'.successful : w \in applied => Wanted(desired[w]) # {}
  BY <1>1, ReportedLeaves DEF Ready
<1>3. drawn' = Shown(o) /\ dead' = Gone(o)
  BY <1>1 DEF Drawn, Shown, Gone
<1>4. ShownOk(Shown(o), Gone(o)) /\ OutsideYet(Shown(o), r.motions)
  BY DrawnNext
<1>5. Shaped(rec)' /\ OutsideYet(drawn, rec.motions)'
  BY <1>1, <1>2, <1>3, <1>4, ShapedNext, OutsideNext DEF Ready
<1>6. ShownOk(drawn, dead)' /\ dead' = [w \in Windows |-> dead'[w]]
  BY <1>3, <1>4 DEF ShownOk, Gone
<1>7. LookInv'
  BY <1>1, <1>2, <1>5, <1>6 DEF LookInv
<1>8. Persists
  BY <1>1, <1>2, DrawnPersists
<1>9. ASSUME available', rec'.retries = Empty
      PROVE  ShowsSomething'
  <2>1. Failed(o) = {}
    BY <1>2, <1>9 DEF Empty
  <2>2. PICK w \in rec'.successful : TRUE
    BY <1>1, <1>9
  <2>3. w \in DOMAIN r.seen /\ w \in DOMAIN r.target
    BY <1>2 DEF Ready
  <2>4. /\ w \in Windows /\ w \in DOMAIN desired /\ desired[w] = Want(desired, w)
    BY <2>3, TargetIsDesired
  <2>5. o[w].ok
    BY <2>1, <2>4 DEF Failed
  <2>6. w \in applied
    BY <2>3, <2>4, <2>5 DEF Applied
  <2>7. Wanted(Want(desired, w)) # {}
    BY <1>2, <2>4, <2>6
  <2>8. Wanted(Want(desired, w)) \subseteq DOMAIN o[w].shown
    BY <2>4, <2>5, AppliedShows DEF Ready, LookInv
  <2>9. drawn'[w] = o[w].shown
    BY <2>4, <1>1 DEF Drawn
  <2>10. drawn'[w] # Empty
    <3> HIDE DEF desired
    <3>1. DOMAIN Empty = {}  BY DEF Empty
    <3> QED  BY <2>7, <2>8, <2>9, <3>1
  <2> QED  BY <1>2, <2>3, <2>10 DEF ShowsSomething
<1> HIDE DEF desired, applied
<1> QED  BY <1>1, <1>7, <1>8, <1>9 DEF FailsLocally, GivenUpUnshown, RunIsSeen

\* A tick whose attempts run out: no window was whole.
LEMMA GivesUpLocal ==
  ASSUME IInv, LookInv, NEW r, Ready(r), NEW o \in Outcomes(Pruned, Missing, Desired(r, r.target)),
         GivesUp(r, Desired(r, r.target), o),
         viewed' = viewed, text' = text, ripe' \subseteq ripe
  PROVE  LookInv' /\ FailsLocally
<1> DEFINE desired == Desired(r, r.target)
           applied == Applied(o, desired) \cap DOMAIN r.seen
           a == Reported(r, o, desired)
<1>1. /\ Exhausted(a, desired)
      /\ rec' = [a EXCEPT !.retries = Empty, !.projected = @ \ ToSet(plan)]
      /\ available' = FALSE /\ heard' \subseteq {"gone"}
      /\ closed' = closed \cup ToSet(plan) /\ plan' \in Plans(text, closed')
      /\ \E p \in Outcomes(Shown(o), Gone(o), Empty)
                 \cup CutShort(Shown(o), Gone(o), Empty) : Drawn(p)
  BY DEF GivesUp, Shown, Gone
<1>2. /\ a.motions = r.motions /\ a.exiting = r.exiting /\ a.target = r.target
      /\ a.seen = r.seen /\ DOMAIN a.retries = (DOMAIN r.retries \ applied) \cup Failed(o)
      /\ a.successful \subseteq DOMAIN r.seen /\ IsRec(a)
  BY ReportedLeaves, ReportedKeeps DEF Ready
<1>3. /\ rec'.motions = r.motions /\ rec'.exiting = r.exiting /\ rec'.target = r.target
      /\ rec'.seen = r.seen /\ rec'.retries = Empty /\ rec'.successful \subseteq DOMAIN r.seen
  <2> HIDE DEF a
  <2> QED  BY <1>1, <1>2 DEF IsRec, RecFields
<1>4. PICK p \in Outcomes(Shown(o), Gone(o), Empty)
               \cup CutShort(Shown(o), Gone(o), Empty) : Drawn(p)
  BY <1>1
<1>5. drawn' = Shown(p) /\ dead' = Gone(p)
  BY <1>4 DEF Drawn, Shown, Gone
<1>6. ShownOk(Shown(o), Gone(o)) /\ OutsideYet(Shown(o), r.motions)
  BY DrawnNext
<1>7. ShownOk(Shown(p), Gone(p)) /\ OutsideYet(Shown(p), r.motions)
  BY <1>6, ClosingKeeps DEF Ready, Shaped
<1>8. Shaped(rec)' /\ OutsideYet(drawn, rec.motions)'
  <2>1. closed \subseteq closed'  BY <1>1
  <2>2. DOMAIN rec'.retries \subseteq Windows  BY <1>3 DEF Empty
  <2> QED  BY <1>3, <1>5, <1>7, <2>1, <2>2, ShapedNext, OutsideNext DEF Ready
<1>9. ShownOk(drawn, dead)' /\ dead' = [w \in Windows |-> dead'[w]]
  BY <1>5, <1>7 DEF ShownOk, Gone
<1>10. closed' \subseteq Ids
  BY <1>1, ToSetOfSeq DEF IInv, PlanIsLive, LookInv
<1>11. LookInv'
  BY <1>1, <1>3, <1>8, <1>9, <1>10 DEF LookInv
<1>12. Persists
  <2>1. \A w \in DOMAIN r.target : DOMAIN r.target[w].looks \subseteq ToSet(plan)
    BY DEF Ready, Targets
  <2> QED  BY <1>1, <1>3, <2>1 DEF Persists
<1>13. ASSUME NEW w \in DOMAIN r.target, r.target[w].order # <<>>,
              drawn[w] = r.target[w].looks, dead[w] = {}, \A d \in DOMAIN r.exiting : d.win # w
       PROVE  FALSE
  <2>1. w \in Windows /\ w \in DOMAIN desired /\ Wanted(desired[w]) # {}
    BY <1>13, TargetIsDesired
  <2>2. o[w].ok
    BY <1>13, <2>1, ShownSucceeds DEF Ready, IInv, LookInv
  <2>3. w \in applied /\ w \notin Failed(o)
    BY <2>1, <2>2 DEF Applied, Failed, Ready
  <2>4. w \notin DOMAIN a.retries
    BY <1>2, <2>3
  <2> HIDE DEF a, desired
  <2> QED  BY <1>1, <2>1, <2>4 DEF Exhausted
<1>14. GivenUpUnshown
  BY <1>3, <1>13 DEF GivenUpUnshown, Ready
<1> QED  BY <1>1, <1>11, <1>12, <1>14 DEF FailsLocally, RunIsSeen

\* A tick with windows to draw in.
LEMMA SomeViewedLocal == IInv /\ LookInv /\ SomeViewed => LookInv' /\ FailsLocally
<1> SUFFICES ASSUME IInv, LookInv, SomeViewed PROVE LookInv' /\ FailsLocally  OBVIOUS
<1>1. PICK new \in News :
        LET r       == Planned(new)
            desired == Desired(r, r.target)
        IN  /\ \/ Idles(r)
               \/ LosesConnection(r, desired)
               \/ \E o \in Outcomes(Pruned, Missing, desired) :
                    Reconciles(r, desired, o) \/ GivesUp(r, desired, o)
            /\ \E x, failed : ripe' = StillRipe(x, failed, TRUE)
  BY DEF SomeViewed
<1> DEFINE r == Planned(new)
<1>2. ripe' \subseteq ripe /\ viewed' = viewed /\ text' = text
  BY <1>1, StillRipeIsRipe DEF SomeViewed
<1>3. Ready(r)
  BY PlannedIsReady
<1> HIDE DEF r
<1> QED  BY <1>1, <1>2, <1>3, IdlesLocal, LosesLocal, ReconcilesLocal, GivesUpLocal DEF r

-----------------------------------------------------------------------------
(* The steps between two ticks.                                            *)

\* Every tick.
LEMMA TickLocal == IInv /\ LookInv /\ Tick => LookInv' /\ FailsLocally
  BY WaitsLocal, NothingViewedLocal, SomeViewedLocal DEF Tick

\* A plan stays one when what is on it keeps its presentation and no Toast goes.
LEMMA PlanStays ==
  ASSUME NEW a, NEW b, NEW gone, NEW p \in Plans(a, gone),
         \A m \in ToSet(p) : a[m] \in Modal <=> b[m] \in Modal,
         \/ \E m \in ToSet(p) : a[m] \in Modal
         \/ \A m \in Ids : a[m] \notin Modal => b[m] \notin Modal
  PROVE  p \in Plans(b, gone)
<1> DEFINE toasts(t) == {n \in Ids \ gone : t[n] \notin Modal}
<1>1. CASE p \in {<<n>> : n \in {n \in Ids \ gone : a[n] \in Modal}}
  <2>1. PICK n \in Ids \ gone : p = <<n>> /\ a[n] \in Modal  BY <1>1
  <2>2. n \in ToSet(p)  BY <2>1 DEF ToSet
  <2> QED  BY <2>1, <2>2 DEF Plans
<1>2. CASE p \in {q \in UNION {[1 .. k -> toasts(a)] : k \in 0 .. Cardinality(toasts(a))} :
                    \A i, j \in DOMAIN q : q[i] = q[j] => i = j}
  <2>1. PICK k \in 0 .. Cardinality(toasts(a)) : p \in [1 .. k -> toasts(a)]
    BY <1>2
  <2>2. \A n \in ToSet(p) : a[n] \notin Modal
    BY <2>1 DEF ToSet
  <2>3. toasts(a) \subseteq toasts(b)
    BY <2>2
  <2>4. IsFiniteSet(toasts(a)) /\ IsFiniteSet(toasts(b))
    BY DisplayConstants, FS_Subset
  <2>5. Cardinality(toasts(a)) <= Cardinality(toasts(b))
        /\ Cardinality(toasts(a)) \in Nat /\ Cardinality(toasts(b)) \in Nat
    BY <2>3, <2>4, FS_Subset, FS_CardinalityType
  <2>6. k \in 0 .. Cardinality(toasts(b)) /\ p \in [1 .. k -> toasts(b)]
    <3> HIDE DEF toasts
    <3> QED  BY <2>1, <2>3, <2>5
  <2>7. p \in UNION {[1 .. l -> toasts(b)] : l \in 0 .. Cardinality(toasts(b))}
    <3> HIDE DEF toasts
    <3> QED  BY <2>6
  <2>8. \A i, j \in DOMAIN p : p[i] = p[j] => i = j
    BY <1>2
  <2> QED  BY <2>7, <2>8 DEF Plans
<1> QED  BY <1>1, <1>2 DEF Plans

\* The Scheduler's plan stays one when a Notification is updated.
LEMMA UpdatedPlan ==
  ASSUME LookInv, NEW n \in Ids, NEW c, Update(n, c)
  PROVE  plan' \in Plans(text', closed')
<1>1. /\ n \in Ids \ closed /\ closed' = closed
      /\ text'[n] = c /\ \A m \in Ids \ {n} : text'[m] = text[m]
  BY DEF Update, tmux, LookInv
<1>2. /\ plan \in Plans(text, closed)
      /\ \/ \E m \in Ids : plan = <<m>> /\ text[m] \in Modal
         \/ \A m \in ToSet(plan) : text[m] \notin Modal
      /\ ToSet(plan) \subseteq Ids
  BY PlansAreOnce, PlansAreSeqs, ToSetOfSeq DEF LookInv
<1>3. CASE c \in Modal <=> text[n] \in Modal
  <2>1. plan' = plan  BY <1>3 DEF Update
  <2>2. \A m \in Ids : text[m] \in Modal <=> text'[m] \in Modal  BY <1>1, <1>3
  <2> QED  BY <1>1, <1>2, <2>1, <2>2, PlanStays
<1>4. CASE c \in Modal /\ text[n] \notin Modal
  <2>1. plan' = IF Attends(plan) THEN plan ELSE <<n>>  BY <1>4 DEF Update
  <2>2. CASE Attends(plan)
    <3>1. PICK m \in Ids : plan = <<m>> /\ text[m] \in Modal
      BY <1>2, <2>2 DEF Attends
    <3>2. ToSet(plan) = {m} /\ m # n  BY <1>4, <3>1 DEF ToSet
    <3> QED  BY <1>1, <1>2, <2>1, <2>2, <3>1, <3>2, PlanStays
  <2>3. CASE ~Attends(plan)
    <3>1. plan' = <<n>> /\ text'[n] \in Modal  BY <1>1, <1>4, <2>1, <2>3
    <3> QED  BY <1>1, <3>1 DEF Plans
  <2> QED  BY <2>2, <2>3
<1>5. CASE c \notin Modal /\ text[n] \in Modal
  <2>1. CASE n \in ToSet(plan)
    BY <1>1, <1>5, <2>1 DEF Update
  <2>2. CASE n \notin ToSet(plan)
    <3>1. plan' = plan  BY <1>5, <2>2 DEF Update
    <3>2. \A m \in ToSet(plan) : text[m] \in Modal <=> text'[m] \in Modal
      BY <1>1, <1>2, <2>2
    <3>3. \A m \in Ids : text[m] \notin Modal => text'[m] \notin Modal
      BY <1>1, <1>5
    <3> QED  BY <1>1, <1>2, <3>1, <3>2, <3>3, PlanStays
  <2> QED  BY <2>1, <2>2
<1> QED  BY <1>3, <1>4, <1>5

\* Between two ticks only panes go and Notifications close.
LEMMA ElsewhereLooks == IInv /\ LookInv /\ Elsewhere => LookInv'
<1> SUFFICES ASSUME IInv, LookInv, Elsewhere PROVE LookInv'  OBVIOUS
<1>1. ASSUME UNCHANGED <<drawn, dead, rec>>, closed \subseteq closed', closed' \subseteq Ids,
             text' = [n \in Ids |-> text'[n]], plan' \in Plans(text', closed'),
             heard' \subseteq {"changed", "gone"}, ripe' \subseteq Timers
      PROVE  LookInv'
  <2>1. dead' = [w \in Windows |-> dead'[w]]  BY <1>1 DEF LookInv
  <2>2. ShownOk(drawn, dead)'  BY <1>1 DEF LookInv, ShownOk
  <2> QED  BY <1>1, <2>1, <2>2, DrawsNothing
<1>2. CASE Rearrange
  BY <1>1, <1>2 DEF Rearrange, tmux, LookInv
<1>3. ASSUME NEW n \in Ids, Close(n) PROVE LookInv'
  <2>1. /\ plan' \in Plans(text', closed') /\ closed' = closed \cup {n}
        /\ UNCHANGED <<drawn, dead, heard, rec, ripe, text>>
    BY <1>3 DEF Close, tmux
  <2>2. text' = [m \in Ids |-> text'[m]]  BY <2>1 DEF LookInv
  <2>3. closed' \subseteq Ids /\ heard' \subseteq {"changed", "gone"} /\ ripe' \subseteq Timers
    BY <2>1 DEF LookInv
  <2> QED  BY <1>1, <2>1, <2>2, <2>3
<1>4. ASSUME NEW n \in Ids, NEW c \in Contents, Update(n, c) PROVE LookInv'
  <2>1. /\ n \in Ids \ closed /\ UNCHANGED <<drawn, dead, heard, rec, ripe, closed>>
        /\ text' = [text EXCEPT ![n] = c]
    BY <1>4 DEF Update, tmux
  <2>2. plan' \in Plans(text', closed')
    BY <1>4, <2>1, UpdatedPlan DEF LookInv
  <2>3. text' = [m \in Ids |-> text'[m]]  BY <2>1 DEF LookInv
  <2>4. closed' \subseteq Ids /\ heard' \subseteq {"changed", "gone"} /\ ripe' \subseteq Timers
    BY <2>1 DEF LookInv
  <2> QED  BY <1>1, <2>1, <2>2, <2>3, <2>4
<1>5. ASSUME NEW s \in Styles, Restyle(s) PROVE LookInv'
  <2>1. /\ rec' = [rec EXCEPT !.style = s, !.motions = Empty, !.exiting = Empty, !.dirty = TRUE]
        /\ UNCHANGED <<drawn, dead, heard, plan, text, closed, ripe>>
    BY <1>5 DEF Restyle, tmux, sched
  <2>2. /\ rec'.motions = Empty /\ rec'.exiting = Empty /\ rec'.target = rec.target
        /\ rec'.retries = rec.retries /\ rec'.successful = rec.successful /\ rec'.seen = rec.seen
    BY <2>1 DEF IInv, IsRec, RecFields
  <2>3. Shaped(rec)' /\ OutsideYet(drawn, rec.motions)'
    BY <2>1, <2>2 DEF LookInv, Shaped, AreLooks, TargetLooks, OutsideYet, Empty
  <2> QED  BY <2>1, <2>2, <2>3 DEF LookInv, ShownOk
<1>6. CASE Jump
  <2> DEFINE modal(w) == {n \in DOMAIN drawn[w] : drawn[w][n].content \in Modal}
  <2>1. PICK goes \in BOOLEAN :
          drawn' = [w \in Windows |->
            Restricted(drawn[w], Ids \ (dead[w] \cup IF goes THEN modal(w) ELSE {}))]
    BY <1>6 DEF Jump
  <2> DEFINE left(w) == Ids \ (dead[w] \cup IF goes THEN modal(w) ELSE {})
  <2>2. \A w \in Windows : drawn'[w] = Restricted(drawn[w], left(w))
    BY <2>1
  <2> HIDE DEF left
  <2>3. \A w \in Windows : /\ DOMAIN drawn'[w] \subseteq DOMAIN drawn[w]
                           /\ \A n \in DOMAIN drawn'[w] : drawn'[w][n] = drawn[w][n]
    BY <2>2 DEF Restricted
  <2>4. /\ dead' = [w \in Windows |-> {}] /\ heard' = heard \ {"gone"}
        /\ UNCHANGED <<rec, plan, text, closed, ripe>>
    BY <1>6 DEF Jump, sched
  <2>5. ShownOk(drawn, dead)' /\ dead' = [w \in Windows |-> dead'[w]]
    BY <2>3, <2>4 DEF LookInv, ShownOk, AreLooks
  <2>6. Shaped(rec)'  BY <2>4 DEF LookInv, Shaped, TargetLooks
  <2>7. \A d \in DOMAIN rec.motions : d.win \in Windows
    BY DEF LookInv, Shaped, Displays
  <2>8. OutsideYet(drawn, rec.motions)'
    BY <2>3, <2>4, <2>7 DEF LookInv, OutsideYet
  <2> QED  BY <2>4, <2>5, <2>6, <2>8 DEF LookInv
<1>7. ASSUME NEW w \in Windows, NEW n \in Ids, PaneDies(w, n) PROVE LookInv'
  <2>1. /\ dead' = [dead EXCEPT ![w] = @ \cup {n}] /\ n \in DOMAIN drawn[w]
        /\ UNCHANGED <<drawn, heard, rec, plan, text, closed, ripe>>
    BY <1>7 DEF PaneDies, sched
  <2>2. ShownOk(drawn, dead)' /\ dead' = [v \in Windows |-> dead'[v]]
    BY <2>1 DEF LookInv, ShownOk
  <2> QED  BY <2>1, <2>2, DrawsNothing DEF LookInv
<1>8. CASE ViewsChange
  BY <1>1, <1>8 DEF ViewsChange, sched, LookInv
<1>9. CASE ConnectionBreaks \/ TopologyEvent
  BY <1>1, <1>9 DEF ConnectionBreaks, TopologyEvent, sched, LookInv
<1>10. ASSUME NEW x \in Timers, TimePasses(x) PROVE LookInv'
  BY <1>1, <1>10 DEF TimePasses, tmux, sched, LookInv
<1> QED  BY <1>2, <1>3, <1>4, <1>5, <1>6, <1>7, <1>8, <1>9, <1>10 DEF Elsewhere

\* Both invariants, together.
LEMMA LookInvariance == Spec => [](IInv /\ LookInv)
<1>1. IInv /\ LookInv /\ UNCHANGED vars => LookInv'
  BY DEF LookInv, Shaped, TargetLooks, ShownOk, OutsideYet, vars, tmux, sched
<1>2. IInv /\ LookInv /\ [Next]_vars => LookInv'
  BY <1>1, TickLocal, ElsewhereLooks DEF Next
<1> QED  BY <1>2, Invariance, LooksInitHolds, PTL DEF Spec

\* reconcile, apply_report and reconcile_exhausted: displays that stay on the
\* plan are not taken away by a failure, a retry or a new connection; nothing is
\* given up while a window shows just what it should; and the timeouts of Toasts
\* run only when something of them is drawn, but for what a jump found gone.
THEOREM FailuresStayLocal == Spec => FailuresAreLocal
<1>1. IInv /\ LookInv => TypeOK
  BY DEF IInv, LookInv, ViewsAreViews, Shaped, ShownOk, TypeOK
<1> DEFINE Keep ==
      (drawn' # drawn /\ ~Jump) =>
      \A w \in DOMAIN rec'.target \cap DOMAIN rec'.seen, n \in Ids \ closed' :
        LET want == rec'.target[w].looks
        IN  (n \in (DOMAIN drawn[w] \ dead[w]) \cap DOMAIN want /\ SameKind(drawn[w][n], want[n]))
            => n \in DOMAIN drawn'[w]
           Give ==
      (closed' # closed /\ Tick) =>
        \A w \in DOMAIN rec'.seen :
          rec'.target[w].order # <<>> =>
            \/ drawn[w] # rec'.target[w].looks
            \/ dead[w] # {}
            \/ \E d \in DOMAIN rec'.exiting : d.win = w
           Run ==
      (available' /\ rec'.retries = Empty /\ ~Attends(plan) /\ ~ShowsSomething' /\ Tick)
      => Overlooks
<1>2. IInv /\ LookInv /\ [Next]_vars => [Keep]_vars /\ [Give]_vars /\ [Run]_vars
  <2>0. UNCHANGED vars => [Keep]_vars /\ [Give]_vars /\ [Run]_vars
    OBVIOUS
  <2>1. ASSUME ~Tick, [Next]_vars PROVE [Keep]_vars /\ [Give]_vars /\ [Run]_vars
    <3>1. Give /\ Run  BY <2>1
    <3>2. Elsewhere => drawn' = drawn \/ Jump
      BY DEF Elsewhere, Rearrange, Close, Update, Restyle, ViewsChange, PaneDies,
             ConnectionBreaks, TopologyEvent, TimePasses, tmux
    <3>3. Elsewhere => Keep  BY <3>2
    <3> HIDE DEF Keep, Give, Run
    <3> QED  BY <2>0, <2>1, <3>1, <3>3 DEF Next
  <2>2. ASSUME IInv, LookInv, Tick PROVE Keep /\ Give /\ Run
    <3>1. Persists /\ GivenUpUnshown /\ RunIsSeen
      BY <2>2, TickLocal DEF FailsLocally
    <3>2. Keep  BY <3>1 DEF Persists
    <3>3. Give  BY <3>1 DEF GivenUpUnshown
    <3>4. Run   BY <3>1 DEF RunIsSeen
    <3> QED  BY <3>2, <3>3, <3>4
  <2> HIDE DEF Keep, Give, Run
  <2> QED  BY <2>0, <2>1, <2>2 DEF Next
<1>3. Spec => [][Keep]_vars /\ [][Give]_vars /\ [][Run]_vars
  <2> HIDE DEF Keep, Give, Run
  <2> QED  BY <1>2, LookInvariance, PTL DEF Spec
<1>4. DisplaysPersist <=> [][Keep]_vars  BY PTL DEF DisplaysPersist
<1>5. GivesUpOnlyUnshown <=> [][Give]_vars  BY PTL DEF GivesUpOnlyUnshown
<1>6. RunsSeen <=> [][Run]_vars  BY PTL DEF RunsSeen
<1> QED  BY <1>1, <1>3, <1>4, <1>5, <1>6, LookInvariance, PTL DEF FailuresAreLocal
=============================================================================
