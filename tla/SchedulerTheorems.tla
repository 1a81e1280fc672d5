------------------------- MODULE SchedulerTheorems -------------------------
(***************************************************************************)
(* What each method of LiveScheduler does to a sound state: every helper   *)
(* and every method keeps the lifecycle bookkeeping intact, leaves the     *)
(* clock it was given, and sets no jump pin but the one of begin_jump; and *)
(* what it does to a tidy one: the queue stays in the order it is served   *)
(* in, the screen within its capacity, and each close has its record.      *)
(* Its last part says what each method leaves of every field, as one shape *)
(* that all of them have: the time is prepared, something is edited, and   *)
(* the free places are given away or nobody moves.                         *)
(***************************************************************************)
EXTENDS Scheduler, FiniteSetTheorems, TLAPS

-----------------------------------------------------------------------------
(* What the operations on lines return.                                    *)

\* A part of a finite set has a natural number of elements.
LEMMA CountIsNat ==
  ASSUME NEW U, IsFiniteSet(U), NEW S, S \subseteq U
  PROVE  IsFiniteSet(S) /\ Cardinality(S) \in Nat
BY FS_Subset, FS_CardinalityType

\* Vec::retain keeps the members asked for, and ranks them by naturals.
LEMMA RetainType ==
  ASSUME NEW U, IsFiniteSet(U), NEW l, DOMAIN l \subseteq U, NEW S
  PROVE  Retain(l, S) \in [S \cap DOMAIN l -> Nat]
<1> DEFINE kept == S \cap DOMAIN l
<1>1. \A i \in kept : Cardinality({j \in kept : l[j] <= l[i]}) \in Nat
  BY CountIsNat, {j \in kept : TRUE} \subseteq U
<1> QED BY <1>1 DEF Retain

\* Reversing keeps the members.
LEMMA ReversedType ==
  ASSUME NEW U, IsFiniteSet(U), NEW l, DOMAIN l \subseteq U
  PROVE  Reversed(l) \in [DOMAIN l -> Nat]
<1>1. \A i \in DOMAIN l : Cardinality({j \in DOMAIN l : l[i] <= l[j]}) \in Nat
  <2> SUFFICES ASSUME NEW i \in DOMAIN l
               PROVE Cardinality({j \in DOMAIN l : l[i] <= l[j]}) \in Nat
    OBVIOUS
  <2>1. {j \in DOMAIN l : l[i] <= l[j]} \subseteq U
    OBVIOUS
  <2> QED BY <2>1, CountIsNat
<1> QED BY <1>1 DEF Reversed

\* Sorting keeps the members.
LEMMA SortedType ==
  ASSUME NEW U, IsFiniteSet(U), NEW S, S \subseteq U, NEW ahead
  PROVE  Sorted(S, ahead) \in [S -> Nat]
<1>1. \A i \in S : Cardinality({j \in S : <<j, i>> \in ahead}) \in Nat
  <2> SUFFICES ASSUME NEW i \in S
               PROVE Cardinality({j \in S : <<j, i>> \in ahead}) \in Nat
    OBVIOUS
  <2>1. {j \in S : <<j, i>> \in ahead} \subseteq U
    OBVIOUS
  <2> QED BY <2>1, CountIsNat
<1> QED BY <1>1 DEF Sorted

\* Vec::extend gives the members of both lines.
LEMMA JoinType ==
  ASSUME NEW U, IsFiniteSet(U),
         NEW A, A \subseteq U, NEW l \in [A -> Nat],
         NEW B, NEW m \in [B -> Nat]
  PROVE  Join(l, m) \in [A \cup B -> Nat]
<1>1. Cardinality(A) \in Nat
  BY CountIsNat
<1>2. \A i \in A \cup B :
        (IF i \in A THEN l[i] ELSE Cardinality(A) + m[i]) \in Nat
  BY <1>1
<1> QED BY <1>2 DEF Join

\* Vec::push gives the members and the pushed id.
LEMMA PushType ==
  ASSUME NEW U, IsFiniteSet(U),
         NEW A, A \subseteq U, NEW l \in [A -> Nat], NEW i
  PROVE  Push(l, i) \in [A \cup {i} -> Nat]
<1>1. [j \in {i} |-> 1] \in [{i} -> Nat]
  OBVIOUS
<1> QED BY <1>1, JoinType DEF Push

-----------------------------------------------------------------------------
(* States and helpers.                                                     *)

\* Ids are handed out in order, so a new id is neither live nor closed.
Numbered(s) == \A i \in Live(s) \cup Closed(s) : i < s.nextSequence

Sound(s) == IsState(s) /\ Scheduled(s) /\ KeysIndexed(s) /\ Numbered(s)

\* What no helper touches.
SameFrame(s, r) ==
  /\ r.limits = s.limits
  /\ r.available = s.available
  /\ r.nextSequence = s.nextSequence
  /\ r.nextNonce = s.nextNonce
  /\ r.lastNow = s.lastNow

\* No Notification appears, and those that stay keep content and jump.
Kept(s, r) ==
  /\ Live(r) \subseteq Live(s)
  /\ \A i \in Live(r) : /\ r.entries[i].draft = s.entries[i].draft
                        /\ r.entries[i].nonce = s.entries[i].nonce

LEMMA IdsFinite == IsFiniteSet(Ids) /\ Ids \subseteq Nat /\ None \notin Ids
BY FS_Interval, SchedulerConstants DEF Ids

\* A state whose queues, keys and entries are typed has typed counts.
LEMMA MembersAreIds ==
  ASSUME NEW s, IsState(s)
  PROVE  /\ Live(s) \subseteq Ids /\ Pending(s) \subseteq Ids
         /\ Toasts(s) \subseteq Ids /\ Closed(s) \subseteq Ids
         /\ s.entries \in [Live(s) -> Entry]
         /\ s.pending \in [Pending(s) -> Nat]
         /\ s.toasts \in [Toasts(s) -> Nat]
         /\ s.closed \in [Closed(s) -> Nat]
BY DEF IsState, Partial, Live, Pending, Toasts, Closed

\* close_inner takes the batch, and nothing else, out of the live state.
LEMMA CloseInnerSound ==
  ASSUME NEW s, Sound(s), NEW reason \in Reasons,
         NEW batch, DOMAIN batch \subseteq Live(s), batch \in [DOMAIN batch -> Nat]
  PROVE  /\ Sound(CloseInner(s, batch, reason))
         /\ SameFrame(s, CloseInner(s, batch, reason))
         /\ Kept(s, CloseInner(s, batch, reason))
         /\ Live(CloseInner(s, batch, reason)) = Live(s) \ DOMAIN batch
<1> DEFINE r    == CloseInner(s, batch, reason)
           D    == DOMAIN batch
           all  == Join(s.closed, batch)
           kept == Retain(all, LastOf(all, DOMAIN all, ClosedCapacity(s.limits)))
           C    == IF Cardinality(Closed(s)) > ClosedCapacity(s.limits)
                   THEN all ELSE kept
<1>1. IsState(s) /\ Scheduled(s) /\ KeysIndexed(s) /\ Numbered(s)
  BY DEF Sound
<1>2. /\ Live(s) \subseteq Ids /\ Pending(s) \subseteq Ids
      /\ Toasts(s) \subseteq Ids /\ Closed(s) \subseteq Ids
      /\ s.entries \in [Live(s) -> Entry]
      /\ s.closed \in [Closed(s) -> Nat]
  BY <1>1, MembersAreIds
<1>3. /\ DOMAIN r = Fields
      /\ r.entries = [i \in Live(s) \ D |-> s.entries[i]]
      /\ r.liveKeys = ForgetKeys(s, D)
      /\ r.pending = Retain(s.pending, Pending(s) \ D)
      /\ r.toasts = Retain(s.toasts, Toasts(s) \ D)
      /\ r.attention = IF s.attention \in D THEN None ELSE s.attention
      /\ r.closed = C
      /\ r.closedAs = [i \in DOMAIN C |-> IF i \in D THEN reason
                                          ELSE s.closedAs[i]]
      /\ r.revised = (s.revised \/ D # {})
      /\ r.contentRevised = (s.contentRevised \/ D # {})
      /\ r.panicked = s.panicked
      /\ SameFrame(s, r)
  BY <1>1, Zenon DEF IsState, Fields, CloseInner, SameFrame, Restrict
<1>4. C \in [DOMAIN C -> Nat] /\ DOMAIN C \subseteq Closed(s) \cup D
  <2>1. all \in [Closed(s) \cup D -> Nat]
    BY <1>2, IdsFinite, JoinType
  <2>2. Closed(s) \cup D \subseteq Ids
    BY <1>2
  <2>3. kept \in [LastOf(all, DOMAIN all, ClosedCapacity(s.limits)) \cap DOMAIN all -> Nat]
    BY <2>1, <2>2, IdsFinite, RetainType
  <2> QED BY <2>1, <2>3
<1>5. /\ Live(r) = Live(s) \ D
      /\ Pending(r) = Pending(s) \ D /\ Toasts(r) = Toasts(s) \ D
      /\ r.pending \in [Pending(r) -> Nat] /\ r.toasts \in [Toasts(r) -> Nat]
      /\ Closed(r) \subseteq Closed(s) \cup D
  <2>1. Live(r) = Live(s) \ D
    BY <1>3 DEF Live
  <2>2. /\ Retain(s.pending, Pending(s) \ D) \in [(Pending(s) \ D) \cap Pending(s) -> Nat]
        /\ Retain(s.toasts, Toasts(s) \ D) \in [(Toasts(s) \ D) \cap Toasts(s) -> Nat]
    BY <1>2, IdsFinite, RetainType DEF Pending, Toasts
  <2> HIDE DEF r, C
  <2>3. /\ r.pending \in [Pending(s) \ D -> Nat]
        /\ r.toasts \in [Toasts(s) \ D -> Nat]
    BY <1>3, <2>2
  <2>4. Closed(r) \subseteq Closed(s) \cup D
    BY <1>3, <1>4 DEF Closed
  <2> QED BY <2>1, <2>3, <2>4 DEF Pending, Toasts
<1> HIDE DEF r, C
<1>6. IsState(r)
  <2>1. r.limits \in SchedulerLimits /\ r.nextSequence \in Nat
        /\ r.nextNonce \in Nat /\ r.lastNow \in Nat /\ r.available \in BOOLEAN
    BY <1>1, <1>3 DEF IsState, SameFrame
  <2>2. Partial(r.entries, Ids, Entry)
    BY <1>2, <1>3 DEF Partial
  <2>3. Partial(r.closed, Ids, Nat) /\ r.closedAs \in [DOMAIN r.closed -> Reasons]
    <3>1. \A i \in DOMAIN C : i \notin D => s.closedAs[i] \in Reasons
      BY <1>1, <1>4 DEF IsState, Closed
    <3> QED BY <1>2, <1>3, <1>4, <3>1 DEF Partial
  <2>4. r.liveKeys \in [Keys -> Ids \cup {None}]
    BY <1>1, <1>3 DEF IsState, ForgetKeys
  <2>5. Partial(r.pending, Ids, Nat) /\ Partial(r.toasts, Ids, Nat)
    BY <1>2, <1>5 DEF Partial, Pending, Toasts
  <2>6. r.attention \in Ids \cup {None}
    BY <1>1, <1>3 DEF IsState
  <2>7. r.revised \in BOOLEAN /\ r.contentRevised \in BOOLEAN /\ r.panicked \in BOOLEAN
    BY <1>1, <1>3 DEF IsState
  <2> QED BY <1>3, <2>1, <2>2, <2>3, <2>4, <2>5, <2>6, <2>7 DEF IsState
<1>7. Scheduled(r)
  <2>1. None \notin Ids
    BY IdsFinite
  <2>2. \A i \in Live(r) : r.entries[i] = s.entries[i]
    BY <1>3 DEF Live
  <2>3. {r.attention} \ {None} = ({s.attention} \ {None}) \ D
    BY <1>2, <1>3, <2>1
  <2> QED BY <1>1, <1>2, <1>5, <2>2, <2>3 DEF Scheduled, OfKind
<1>8. KeysIndexed(r)
  <2>1. \A i \in Live(r) : r.entries[i] = s.entries[i] /\ i \in Live(s) /\ i \notin D
    BY <1>3 DEF Live
  <2>2. ASSUME NEW i \in Live(r), r.entries[i].draft.key # None
        PROVE  r.liveKeys[r.entries[i].draft.key] = i
    <3> DEFINE k == s.entries[i].draft.key
    <3>1. k \in Keys /\ s.liveKeys[k] = i
      BY <1>1, <1>2, <2>1, <2>2 DEF KeysIndexed, Entry, Draft
    <3>2. \A j \in D : s.entries[j].draft.key = k => j = i
      BY <1>1, <2>1, <2>2, <3>1 DEF KeysIndexed
    <3>3. ~ \E j \in D : s.entries[j].draft.key = k
      BY <2>1, <3>2
    <3>4. r.liveKeys[k] = s.liveKeys[k]
      BY <1>3, <3>1, <3>3 DEF ForgetKeys
    <3>5. r.entries[i].draft.key = k
      BY <2>1
    <3> QED BY <3>1, <3>4, <3>5
  <2>3. ASSUME NEW k \in Keys, r.liveKeys[k] # None
        PROVE  /\ r.liveKeys[k] \in Live(r)
               /\ r.entries[r.liveKeys[k]].draft.key = k
    <3>1. /\ r.liveKeys[k] = s.liveKeys[k]
          /\ \A i \in D : s.entries[i].draft.key # k
      BY <1>3, <2>3 DEF ForgetKeys
    <3> QED BY <1>1, <1>5, <2>1, <2>3, <3>1 DEF KeysIndexed
  <2> QED BY <2>2, <2>3 DEF KeysIndexed
<1>9. Numbered(r)
  BY <1>1, <1>3, <1>5 DEF Numbered, SameFrame
<1>10. Kept(s, r)
  BY <1>3, <1>5 DEF Kept, Live
<1> QED BY <1>3, <1>5, <1>6, <1>7, <1>8, <1>9, <1>10 DEF r, Sound

\* sort_pending changes the order of `pending` only.
LEMMA SortPendingSound ==
  ASSUME NEW s, Sound(s)
  PROVE  /\ Sound(SortPending(s))
         /\ SameFrame(s, SortPending(s))
         /\ SortPending(s).entries = s.entries
         /\ Live(SortPending(s)) = Live(s)
<1> DEFINE r    == SortPending(s)
           line == Sorted(Pending(s), ServedBefore(s))
<1>1. IsState(s) /\ Scheduled(s) /\ KeysIndexed(s) /\ Numbered(s)
  BY DEF Sound
<1>2. Pending(s) \subseteq Ids
  BY <1>1, MembersAreIds
<1>3. line \in [Pending(s) -> Nat]
  BY <1>2, IdsFinite, SortedType
<1>4. r = [s EXCEPT !.pending = line]
  BY DEF SortPending
<1> HIDE DEF r, line
<1>5. /\ DOMAIN r = Fields /\ r.pending = line
      /\ \A f \in Fields \ {"pending"} : r[f] = s[f]
  BY <1>1, <1>4 DEF IsState, Fields
<1>6. /\ Live(r) = Live(s) /\ Toasts(r) = Toasts(s) /\ Closed(r) = Closed(s)
      /\ r.entries = s.entries /\ r.attention = s.attention
      /\ r.liveKeys = s.liveKeys /\ SameFrame(s, r)
  BY <1>5 DEF Fields, Live, Toasts, Closed, SameFrame
<1>7. Pending(r) = Pending(s)
  BY <1>3, <1>5 DEF Pending
<1>8. IsState(r)
  <2>1. Partial(r.pending, Ids, Nat)
    BY <1>2, <1>3, <1>5 DEF Partial
  <2>2. /\ r.closed = s.closed /\ r.closedAs = s.closedAs /\ r.toasts = s.toasts
        /\ r.revised = s.revised /\ r.contentRevised = s.contentRevised
        /\ r.panicked = s.panicked
    BY <1>5 DEF Fields
  <2> QED BY <1>1, <1>5, <1>6, <2>1, <2>2 DEF IsState, SameFrame
<1>9. Scheduled(r) /\ KeysIndexed(r) /\ Numbered(r)
  BY <1>1, <1>6, <1>7 DEF Scheduled, KeysIndexed, Numbered, OfKind, SameFrame
<1> QED BY <1>6, <1>8, <1>9 DEF Sound, r

\* rebalance, first part: a Notification moves from `pending` to a place of its
\* Presentation.
LEMMA PromoteSound ==
  ASSUME NEW s, Sound(s)
  PROVE  /\ Sound(Promote(s))
         /\ SameFrame(s, Promote(s))
         /\ Promote(s).entries = s.entries
<1> DEFINE r     == Promote(s)
           gate  == NextAttention(s)
           moved == NextToasts(s, gate)
           next  == IF gate = {} THEN s.attention ELSE CHOOSE i \in gate : TRUE
<1>1. IsState(s) /\ Scheduled(s) /\ KeysIndexed(s) /\ Numbered(s)
  BY DEF Sound
<1>2. /\ Live(s) \subseteq Ids /\ Pending(s) \subseteq Ids
      /\ Toasts(s) \subseteq Ids
      /\ s.pending \in [Pending(s) -> Nat] /\ s.toasts \in [Toasts(s) -> Nat]
  BY <1>1, MembersAreIds
<1>3. /\ gate \subseteq Pending(s) \cap OfKind(s, "attention")
      /\ gate # {} => s.attention = None
  BY DEF NextAttention, FirstOf, Pending
<1>4. moved \subseteq Pending(s) \cap OfKind(s, "toast")
  BY DEF NextToasts, FirstOf, Pending
<1>5. /\ DOMAIN r = Fields
      /\ r.attention = next
      /\ r.toasts = Join(s.toasts, Retain(s.pending, moved))
      /\ r.pending = Retain(s.pending, Pending(s) \ ({next} \cup moved))
      /\ \A f \in Fields \ {"attention", "toasts", "pending"} : r[f] = s[f]
  BY <1>1, Zenon DEF IsState, Fields, Promote, Active
<1> HIDE DEF r, gate, moved
<1>6. /\ r.pending \in [Pending(s) \ ({next} \cup moved) -> Nat]
      /\ r.toasts \in [Toasts(s) \cup moved -> Nat]
  <2>1. Retain(s.pending, moved) \in [moved \cap Pending(s) -> Nat]
    BY <1>2, IdsFinite, RetainType DEF Pending
  <2>2. moved \cap Pending(s) = moved
    BY <1>4
  <2>3. Join(s.toasts, Retain(s.pending, moved)) \in [Toasts(s) \cup moved -> Nat]
    BY <1>2, <2>1, <2>2, IdsFinite, JoinType
  <2> DEFINE stay == Pending(s) \ ({next} \cup moved)
  <2>4. Retain(s.pending, stay) \in [stay \cap Pending(s) -> Nat]
    <3> HIDE DEF stay
    <3> QED BY <1>2, IdsFinite, RetainType DEF Pending
  <2>5. stay \cap Pending(s) = stay
    OBVIOUS
  <2>6. Retain(s.pending, stay) \in [stay -> Nat]
    BY <2>4, <2>5
  <2> QED BY <1>5, <2>3, <2>6
<1>7. /\ Live(r) = Live(s) /\ Closed(r) = Closed(s) /\ r.entries = s.entries
      /\ r.liveKeys = s.liveKeys /\ SameFrame(s, r)
  BY <1>5 DEF Fields, Live, Closed, SameFrame
<1>8. /\ Pending(r) = Pending(s) \ ({next} \cup moved)
      /\ Toasts(r) = Toasts(s) \cup moved
  BY <1>6 DEF Pending, Toasts
<1>9. /\ next \in Ids \cup {None}
      /\ gate # {} => next \in gate
      /\ gate = {} => next = s.attention
  BY <1>1, <1>2, <1>3 DEF IsState
<1> HIDE DEF next
<1>10. IsState(r)
  <2>1. Partial(r.pending, Ids, Nat) /\ Partial(r.toasts, Ids, Nat)
    BY <1>2, <1>4, <1>6 DEF Partial
  <2>2. /\ r.closed = s.closed /\ r.closedAs = s.closedAs
        /\ r.revised = s.revised /\ r.contentRevised = s.contentRevised
        /\ r.panicked = s.panicked
    BY <1>5 DEF Fields
  <2> QED BY <1>1, <1>5, <1>7, <1>9, <2>1, <2>2 DEF IsState, SameFrame
<1>11. gate # {} => moved = {}
  BY DEF moved, NextToasts
<1>12. Scheduled(r)
  <2>1. None \notin Ids
    BY IdsFinite
  <2>2. OfKind(r, "toast") = OfKind(s, "toast")
        /\ OfKind(r, "attention") = OfKind(s, "attention")
    BY <1>7 DEF OfKind
  <2>3. OfKind(s, "toast") \cap OfKind(s, "attention") = {}
    BY DEF OfKind
  <2>4. CASE gate # {}
    BY <1>1, <1>2, <1>3, <1>5, <1>7, <1>8, <1>9, <1>11, <2>1, <2>2, <2>3, <2>4
       DEF Scheduled
  <2>5. CASE gate = {}
    BY <1>1, <1>2, <1>4, <1>5, <1>7, <1>8, <1>9, <2>1, <2>2, <2>3, <2>5
       DEF Scheduled
  <2> QED BY <2>4, <2>5
<1>13. KeysIndexed(r) /\ Numbered(r)
  BY <1>1, <1>7 DEF KeysIndexed, Numbered, SameFrame
<1> QED BY <1>7, <1>10, <1>12, <1>13 DEF Sound, r

\* A change of entries that keeps their key and Presentation, of limits, of the
\* clock, of the nonces, of the display or of the revisions moves no one.
LEMMA SoundCarries ==
  ASSUME NEW s, Sound(s), NEW r, DOMAIN r = Fields,
         r.entries \in [Live(s) -> Entry],
         \A i \in Live(s) :
           /\ r.entries[i].draft.key = s.entries[i].draft.key
           /\ r.entries[i].draft.pres = s.entries[i].draft.pres,
         r.closed = s.closed, r.closedAs = s.closedAs, r.liveKeys = s.liveKeys,
         r.pending = s.pending, r.toasts = s.toasts, r.attention = s.attention,
         r.nextSequence = s.nextSequence,
         r.limits \in SchedulerLimits, r.available \in BOOLEAN,
         r.nextNonce \in Nat, r.lastNow \in Nat,
         r.revised \in BOOLEAN, r.contentRevised \in BOOLEAN,
         r.panicked \in BOOLEAN
  PROVE  Sound(r) /\ Live(r) = Live(s)
<1>1. IsState(s) /\ Scheduled(s) /\ KeysIndexed(s) /\ Numbered(s)
  BY DEF Sound
<1>2. /\ Live(r) = Live(s) /\ Pending(r) = Pending(s) /\ Toasts(r) = Toasts(s)
      /\ Closed(r) = Closed(s)
  BY DEF Live, Pending, Toasts, Closed
<1>3. IsState(r)
  BY <1>1 DEF IsState, Partial, Live
<1>4. OfKind(r, "toast") = OfKind(s, "toast")
      /\ OfKind(r, "attention") = OfKind(s, "attention")
  BY <1>2 DEF OfKind
<1>5. Scheduled(r)
  BY <1>1, <1>2, <1>4 DEF Scheduled
<1>6. KeysIndexed(r)
  BY <1>1, <1>2 DEF KeysIndexed
<1>7. Numbered(r)
  BY <1>1, <1>2 DEF Numbered
<1> QED BY <1>2, <1>3, <1>5, <1>6, <1>7 DEF Sound

\* A timer stays a timer when it is started or stopped.
LEMMA SetRunningType ==
  ASSUME NEW t \in Timer, NEW now \in Nat, NEW running \in BOOLEAN
  PROVE  SetRunning(t, now, running) \in Timer
<1>1. CASE t.left = Never \/ (t.since # None) = running
  BY <1>1 DEF SetRunning
<1>2. CASE t.left # Never /\ (t.since # None) # running /\ running
  BY <1>2 DEF SetRunning, Timer
<1>3. CASE t.left # Never /\ (t.since # None) # running /\ ~running
  <2>1. t.left \in Nat /\ t.since \in Nat
    BY <1>3, SchedulerConstants DEF Timer
  <2>2. LeftAfter(t, now) \in Nat
    BY <2>1 DEF LeftAfter
  <2> QED BY <1>3, <2>2 DEF SetRunning, Timer
<1> QED BY <1>1, <1>2, <1>3

\* rebalance, second part: deliveries and timers only.
LEMMA PresentSound ==
  ASSUME NEW s, Sound(s), NEW now \in Nat
  PROVE  /\ Sound(Present(s, now))
         /\ SameFrame(s, Present(s, now))
         /\ Live(Present(s, now)) = Live(s)
         /\ Kept(s, Present(s, now))
<1> DEFINE timer(i) == IF i \in Toasts(s)
                       THEN SetRunning(s.entries[i].timer, now,
                                       ToastTimerShouldRun(s, i)
                                         /\ s.entries[i].nonce = None)
                       ELSE s.entries[i].timer
           after == [i \in Live(s) |->
                       [s.entries[i] EXCEPT !.delivery = Delivery(s, i),
                                            !.timer = timer(i)]]
           r == Present(s, now)
<1>1. IsState(s) /\ s.entries \in [Live(s) -> Entry]
  BY MembersAreIds DEF Sound
<1>2. ASSUME NEW i \in Live(s) 
      PROVE  /\ after[i] \in Entry
             /\ after[i].draft = s.entries[i].draft
             /\ after[i].nonce = s.entries[i].nonce
  <2>1. s.entries[i] \in Entry /\ s.entries[i].timer \in Timer
    BY <1>1 DEF Entry
  <2>2. Delivery(s, i) \in {"pending", "visible"}
    BY <2>1 DEF Delivery, Entry
  <2>3. timer(i) \in Timer
    <3>1. (ToastTimerShouldRun(s, i) /\ s.entries[i].nonce = None) \in BOOLEAN
      OBVIOUS
    <3> QED BY <2>1, <3>1, SetRunningType
  <2> HIDE DEF timer
  <2> QED BY <2>1, <2>2, <2>3 DEF Entry
<1>3. r = [s EXCEPT !.entries = after]
  BY DEF Present
<1> HIDE DEF after, r
<1>4. /\ DOMAIN r = Fields /\ r.entries = after
      /\ \A f \in Fields \ {"entries"} : r[f] = s[f]
  BY <1>1, <1>3 DEF IsState, Fields
<1>5. after \in [Live(s) -> Entry]
  <2>1. DOMAIN after = Live(s) /\ after = [i \in Live(s) |-> after[i]]
    BY DEF after
  <2> QED BY <1>2, <2>1
<1>6. /\ SameFrame(s, r)
      /\ r.closed = s.closed /\ r.closedAs = s.closedAs /\ r.liveKeys = s.liveKeys
      /\ r.pending = s.pending /\ r.toasts = s.toasts /\ r.attention = s.attention
      /\ r.revised = s.revised /\ r.contentRevised = s.contentRevised
      /\ r.panicked = s.panicked
  BY <1>4 DEF Fields, SameFrame
<1>7. Sound(r) /\ Live(r) = Live(s)
  BY <1>1, <1>2, <1>4, <1>5, <1>6, SoundCarries DEF IsState, SameFrame
<1>8. Kept(s, r)
  BY <1>2, <1>4, <1>7 DEF Kept
<1> QED BY <1>6, <1>7, <1>8 DEF r

\* rebalance keeps the state sound.
LEMMA RebalanceSound ==
  ASSUME NEW s, Sound(s), NEW now \in Nat
  PROVE  /\ Sound(Rebalance(s, now))
         /\ SameFrame(s, Rebalance(s, now))
         /\ Live(Rebalance(s, now)) = Live(s)
         /\ Kept(s, Rebalance(s, now))
<1>1. /\ Sound(Promote(s)) /\ SameFrame(s, Promote(s))
      /\ Promote(s).entries = s.entries
  BY PromoteSound
<1>2. Live(Promote(s)) = Live(s)
  BY <1>1 DEF Live
<1> QED BY <1>1, <1>2, PresentSound DEF Rebalance, SameFrame, Kept

\* prepare_time closes the Toasts whose time is up and sets the clock.
LEMMA PrepareTimeSound ==
  ASSUME NEW s, Sound(s), NEW now \in Nat
  PROVE  /\ Sound(PrepareTime(s, now))
         /\ PrepareTime(s, now).lastNow = now
         /\ PrepareTime(s, now).nextSequence = s.nextSequence
         /\ PrepareTime(s, now).nextNonce = s.nextNonce
         /\ Kept(s, PrepareTime(s, now))
<1> DEFINE begun   == [s EXCEPT !.lastNow = now, !.revised = FALSE,
                                !.contentRevised = FALSE, !.panicked = FALSE]
           expired == {i \in Toasts(s) : Expired(s.entries[i].timer, now)}
           batch   == Retain(s.toasts, expired)
           closed  == CloseInner(begun, batch, "TimedOut")
<1>1. IsState(s) /\ Scheduled(s) /\ s.entries \in [Live(s) -> Entry]
      /\ Toasts(s) \subseteq Ids
  BY MembersAreIds DEF Sound
<1>2. /\ DOMAIN begun = Fields /\ begun.lastNow = now
      /\ begun.revised = FALSE /\ begun.contentRevised = FALSE
      /\ begun.panicked = FALSE
      /\ begun.entries = s.entries /\ begun.closed = s.closed
      /\ begun.closedAs = s.closedAs /\ begun.liveKeys = s.liveKeys
      /\ begun.pending = s.pending /\ begun.toasts = s.toasts
      /\ begun.attention = s.attention /\ begun.limits = s.limits
      /\ begun.available = s.available
      /\ begun.nextSequence = s.nextSequence /\ begun.nextNonce = s.nextNonce
  BY <1>1 DEF IsState, Fields
<1> HIDE DEF begun
<1>4. Sound(begun) /\ Live(begun) = Live(s)
  <2>1. /\ begun.limits \in SchedulerLimits /\ begun.available \in BOOLEAN
        /\ begun.nextNonce \in Nat /\ begun.lastNow \in Nat
    BY <1>1, <1>2 DEF IsState
  <2> QED BY <1>1, <1>2, <2>1, SoundCarries
<1>5. Kept(s, begun)
  BY <1>2, <1>4 DEF Kept
<1>6. batch \in [DOMAIN batch -> Nat] /\ DOMAIN batch \subseteq Live(begun)
  <2>1. batch \in [expired \cap Toasts(s) -> Nat]
    BY <1>1, IdsFinite, RetainType DEF Toasts
  <2>2. expired \cap Toasts(s) \subseteq Live(s)
    BY <1>1 DEF Scheduled
  <2> QED BY <1>4, <2>1, <2>2
<1> HIDE DEF batch
<1>7. Sound(closed) /\ SameFrame(begun, closed) /\ Kept(begun, closed)
  BY <1>4, <1>6, CloseInnerSound DEF Reasons
<1>8. PrepareTime(s, now) = Rebalance(closed, now)
  BY DEF PrepareTime, batch, begun
<1> HIDE DEF closed
<1>9. /\ Sound(PrepareTime(s, now)) /\ SameFrame(closed, PrepareTime(s, now))
      /\ Kept(closed, PrepareTime(s, now))
  BY <1>7, <1>8, RebalanceSound DEF Kept
<1>10. Kept(s, PrepareTime(s, now))
  BY <1>5, <1>7, <1>9 DEF Kept
<1> QED BY <1>2, <1>7, <1>9, <1>10 DEF SameFrame

\* enforce_pending_limit closes pending Notifications only.
LEMMA EnforcePendingLimitSound ==
  ASSUME NEW s, Sound(s)
  PROVE  /\ Sound(EnforcePendingLimit(s))
         /\ SameFrame(s, EnforcePendingLimit(s))
         /\ Kept(s, EnforcePendingLimit(s))
<1> DEFINE excess == Cardinality(Pending(s)) - s.limits.maxPending
           losers == Losers(s, excess)
           kept   == Retain(s.pending, losers)
           batch  == Reversed(kept)
           r      == CloseInner(s, batch, "RenderSuppressed")
           panic  == Cardinality(Pending(s) \cap Unpinned(s)) < excess
           e      == EnforcePendingLimit(s)
<1>1. IsState(s) /\ Scheduled(s) /\ Pending(s) \subseteq Ids
  BY MembersAreIds DEF Sound
<1>2. kept \in [losers \cap Pending(s) -> Nat]
  <2> HIDE DEF losers
  <2> QED BY <1>1, IdsFinite, RetainType DEF Pending
<1>3. batch \in [DOMAIN kept -> Nat]
  <2> HIDE DEF kept
  <2> QED BY <1>1, <1>2, IdsFinite, ReversedType
<1>4. DOMAIN batch \subseteq Live(s) /\ batch \in [DOMAIN batch -> Nat]
  BY <1>1, <1>2, <1>3 DEF Scheduled
<1> HIDE DEF batch
<1>5. Sound(r) /\ SameFrame(s, r) /\ Kept(s, r)
  BY <1>4, CloseInnerSound DEF Reasons
<1>6. e = [r EXCEPT !.panicked = panic]
  BY DEF EnforcePendingLimit, batch
<1>7. panic \in BOOLEAN
  OBVIOUS
<1> HIDE DEF r, panic, e
<1>8. /\ IsState(r) /\ DOMAIN e = Fields /\ e.panicked = panic
      /\ \A f \in Fields \ {"panicked"} : e[f] = r[f]
  BY <1>5, <1>6 DEF IsState, Fields, Sound
<1>9. /\ SameFrame(r, e) /\ e.entries = r.entries
      /\ e.closed = r.closed /\ e.closedAs = r.closedAs /\ e.liveKeys = r.liveKeys
      /\ e.pending = r.pending /\ e.toasts = r.toasts /\ e.attention = r.attention
      /\ e.revised = r.revised /\ e.contentRevised = r.contentRevised
  BY <1>8 DEF Fields, SameFrame
<1>10. Sound(e) /\ Live(e) = Live(r)
  BY <1>5, <1>7, <1>8, <1>9, MembersAreIds, SoundCarries DEF IsState, SameFrame
<1> QED BY <1>5, <1>9, <1>10 DEF e, Kept, SameFrame

\* bump_content_revision changes nothing else.
LEMMA BumpSound ==
  ASSUME NEW s, Sound(s)
  PROVE  /\ Sound(BumpContentRevision(s)) /\ SameFrame(s, BumpContentRevision(s))
         /\ Kept(s, BumpContentRevision(s))
         /\ Live(BumpContentRevision(s)) = Live(s)
<1> DEFINE r == BumpContentRevision(s)
<1>1. IsState(s) /\ s.entries \in [Live(s) -> Entry]
  BY MembersAreIds DEF Sound
<1>2. /\ DOMAIN r = Fields /\ r.revised = TRUE /\ r.contentRevised = TRUE
      /\ \A f \in Fields \ {"revised", "contentRevised"} : r[f] = s[f]
  BY <1>1 DEF IsState, Fields, BumpContentRevision
<1> HIDE DEF r
<1>3. /\ SameFrame(s, r) /\ r.entries = s.entries
      /\ r.closed = s.closed /\ r.closedAs = s.closedAs /\ r.liveKeys = s.liveKeys
      /\ r.pending = s.pending /\ r.toasts = s.toasts /\ r.attention = s.attention
      /\ r.panicked = s.panicked
  BY <1>2 DEF Fields, SameFrame
<1>4. Sound(r) /\ Live(r) = Live(s)
  BY <1>1, <1>2, <1>3, SoundCarries DEF IsState, SameFrame
<1> QED BY <1>3, <1>4 DEF r, Kept

\* No helper hands out an id, whatever state it starts from.
LEMMA HelpersKeepSequence ==
  ASSUME NEW s, DOMAIN s = Fields, NEW now
  PROVE  LET r == EnforcePendingLimit(Rebalance(SortPending(s), now))
         IN  /\ DOMAIN r = Fields
             /\ r.nextSequence = s.nextSequence
             /\ BumpContentRevision(r).nextSequence = s.nextSequence
<1> DEFINE Like(r) == DOMAIN r = Fields /\ r.nextSequence = s.nextSequence
<1>1. ASSUME NEW r, Like(r) PROVE Like(SortPending(r))
  BY <1>1 DEF SortPending, Fields
<1>2. ASSUME NEW r, Like(r) PROVE Like(Promote(r))
  BY <1>2 DEF Promote, Fields
<1>3. ASSUME NEW r, Like(r) PROVE Like(Present(r, now))
  BY <1>3 DEF Present, Fields
<1>4. ASSUME NEW r, Like(r) PROVE Like(Rebalance(r, now))
  BY <1>2, <1>3, <1>4 DEF Rebalance
<1>5. ASSUME NEW r, Like(r), NEW batch, NEW reason PROVE Like(CloseInner(r, batch, reason))
  BY <1>5 DEF CloseInner, Fields
<1>6. ASSUME NEW r, Like(r) PROVE Like(EnforcePendingLimit(r))
  <2> DEFINE excess == Cardinality(Pending(r)) - r.limits.maxPending
             c == CloseInner(r, Reversed(Retain(r.pending, Losers(r, excess))),
                             "RenderSuppressed")
             panic == Cardinality(Pending(r) \cap Unpinned(r)) < excess
  <2>1. Like(c)
    BY <1>5, <1>6
  <2>2. EnforcePendingLimit(r) = [c EXCEPT !.panicked = panic]
    BY DEF EnforcePendingLimit
  <2> HIDE DEF c, panic
  <2> QED BY <2>1, <2>2 DEF Fields
<1>7. ASSUME NEW r, Like(r) PROVE Like(BumpContentRevision(r))
  BY <1>7 DEF BumpContentRevision, Fields
<1>8. Like(EnforcePendingLimit(Rebalance(SortPending(s), now)))
  <2>1. Like(SortPending(s))
    BY <1>1
  <2> HIDE DEF Like
  <2> QED BY <2>1, <1>4, <1>6
<1> QED BY <1>7, <1>8

\* submit, first part: the new entry, its key and its place in the queue.
Inserted(s, d) ==
  LET id    == s.nextSequence
      entry == [draft |-> d, delivery |-> "pending",
                timer |-> [left |-> d.timeout, since |-> None],
                nonce |-> None]
  IN  [s EXCEPT !.entries  = [i \in Live(s) \cup {id} |->
                                IF i = id THEN entry ELSE s.entries[i]],
                !.liveKeys = [k \in Keys |->
                                IF k = d.key THEN id ELSE s.liveKeys[k]],
                !.pending  = Push(s.pending, id),
                !.nextSequence = id + 1]

\* submit of a draft whose key names no live Notification: the new id joins the
\* queue under a sequence number that nothing live or closed has.
LEMMA InsertSound ==
  ASSUME NEW s, Sound(s), NEW d \in Draft, NEW now \in Nat,
         d.key # None => s.liveKeys[d.key] = None,
         Insert(s, d, now).nextSequence <= MaxSubmits
  PROVE  /\ Sound(Inserted(s, d))
         /\ Sound(Insert(s, d, now))
         /\ Insert(s, d, now).lastNow = s.lastNow
         /\ Insert(s, d, now).nextNonce = s.nextNonce
         /\ \A i \in Live(Insert(s, d, now)) :
              Insert(s, d, now).entries[i].nonce =
                IF i \in Live(s) THEN s.entries[i].nonce ELSE None
<1> DEFINE id      == s.nextSequence
           entry   == [draft |-> d, delivery |-> "pending",
                       timer |-> [left |-> d.timeout, since |-> None],
                       nonce |-> None]
           entries == [i \in Live(s) \cup {id} |->
                         IF i = id THEN entry ELSE s.entries[i]]
           keys    == [k \in Keys |-> IF k = d.key THEN id ELSE s.liveKeys[k]]
           added   == [s EXCEPT !.entries = entries, !.liveKeys = keys,
                                !.pending = Push(s.pending, id),
                                !.nextSequence = id + 1]
           done    == EnforcePendingLimit(Rebalance(SortPending(added), now))
           r       == Insert(s, d, now)
<1>1. /\ IsState(s) /\ Scheduled(s) /\ KeysIndexed(s) /\ Numbered(s)
      /\ Live(s) \subseteq Ids /\ Pending(s) \subseteq Ids /\ Toasts(s) \subseteq Ids
      /\ Closed(s) \subseteq Ids
      /\ s.entries \in [Live(s) -> Entry] /\ s.pending \in [Pending(s) -> Nat]
  BY MembersAreIds DEF Sound
<1>2. /\ DOMAIN added = Fields /\ added.entries = entries
      /\ added.liveKeys = keys /\ added.pending = Push(s.pending, id)
      /\ added.nextSequence = id + 1
      /\ \A f \in Fields \ {"entries", "liveKeys", "pending", "nextSequence"} :
           added[f] = s[f]
  BY <1>1 DEF IsState, Fields
<1>3. /\ r = IF done.panicked THEN done ELSE BumpContentRevision(done)
      /\ added = Inserted(s, d)
  BY DEF Insert, Inserted
<1> HIDE DEF added, entries, keys, r
<1>4. /\ added.limits = s.limits /\ added.closed = s.closed
      /\ added.closedAs = s.closedAs /\ added.toasts = s.toasts
      /\ added.attention = s.attention /\ added.available = s.available
      /\ added.nextNonce = s.nextNonce /\ added.lastNow = s.lastNow
      /\ added.revised = s.revised /\ added.contentRevised = s.contentRevised
      /\ added.panicked = s.panicked
  BY <1>2 DEF Fields
<1>5. id \in Nat /\ id \in Ids
  <2>1. r.nextSequence = added.nextSequence
    BY <1>2, <1>3, HelpersKeepSequence
  <2> QED BY <1>1, <1>2, <2>1, SchedulerConstants DEF IsState, Ids, r
<1>6. id \notin Live(s) \cup Closed(s)
  BY <1>1, <1>5, IdsFinite DEF Numbered
<1>7. entry \in Entry
  <2>1. d.timeout \in Nat \cup {Never}
    BY SchedulerConstants DEF Draft, Timeouts
  <2> QED BY <2>1 DEF Entry, Timer
<1> HIDE DEF entry
<1>8. /\ Live(added) = Live(s) \cup {id}
      /\ entries \in [Live(s) \cup {id} -> Entry]
      /\ \A i \in Live(s) : added.entries[i] = s.entries[i]
      /\ added.entries[id] = entry
  BY <1>1, <1>2, <1>6, <1>7 DEF Live, entries
<1>9. /\ added.pending \in [Pending(s) \cup {id} -> Nat]
      /\ Pending(added) = Pending(s) \cup {id}
      /\ Toasts(added) = Toasts(s) /\ Closed(added) = Closed(s)
  <2> HIDE DEF id
  <2>1. Push(s.pending, id) \in [Pending(s) \cup {id} -> Nat]
    BY <1>1, IdsFinite, PushType
  <2> QED BY <1>2, <1>4, <2>1 DEF Pending, Toasts, Closed
<1>10. IsState(added)
  <2>1. Partial(added.entries, Ids, Entry)
    BY <1>1, <1>2, <1>5, <1>8 DEF Partial
  <2>2. Partial(added.pending, Ids, Nat)
    BY <1>1, <1>5, <1>9 DEF Partial
  <2>3. keys \in [Keys -> Ids \cup {None}]
    BY <1>1, <1>5 DEF IsState, keys
  <2> QED BY <1>1, <1>2, <1>4, <1>5, <2>1, <2>2, <2>3 DEF IsState
<1>11. entry.draft = d /\ entry.nonce = None
  BY DEF entry
<1>12. Scheduled(added)
  <2>1. /\ OfKind(s, "toast") \subseteq OfKind(added, "toast")
        /\ OfKind(s, "attention") \subseteq OfKind(added, "attention")
    BY <1>8 DEF OfKind
  <2>2. id # s.attention
    BY <1>1, <1>5, <1>6, IdsFinite DEF Scheduled
  <2> QED BY <1>1, <1>4, <1>6, <1>8, <1>9, <2>1, <2>2 DEF Scheduled
<1>13. KeysIndexed(added)
  <2>1. \A k \in Keys : added.liveKeys[k] = IF k = d.key THEN id ELSE s.liveKeys[k]
    BY <1>2 DEF keys
  <2>2. ASSUME NEW i \in Live(added), added.entries[i].draft.key # None
        PROVE  added.liveKeys[added.entries[i].draft.key] = i
    <3>1. CASE i = id
      <4>1. d.key \in Keys
        BY <1>8, <1>11, <2>2, <3>1 DEF Draft
      <4> QED BY <1>8, <1>11, <2>1, <3>1, <4>1
    <3>2. CASE i # id
      <4> DEFINE k == s.entries[i].draft.key
      <4>1. i \in Live(s) /\ added.entries[i] = s.entries[i] /\ k # None
        BY <1>8, <2>2, <3>2
      <4>2. k \in Keys
        BY <1>1, <4>1 DEF Entry, Draft
      <4>3. s.liveKeys[k] = i
        BY <1>1, <4>1 DEF KeysIndexed
      <4>4. i # None /\ k # d.key
        BY <1>1, <4>1, <4>3, IdsFinite
      <4> QED BY <2>1, <4>1, <4>2, <4>3, <4>4
    <3> QED BY <3>1, <3>2
  <2>3. ASSUME NEW k \in Keys, added.liveKeys[k] # None
        PROVE  /\ added.liveKeys[k] \in Live(added)
               /\ added.entries[added.liveKeys[k]].draft.key = k
    BY <1>1, <1>8, <1>11, <2>1, <2>3 DEF KeysIndexed
  <2> QED BY <2>2, <2>3 DEF KeysIndexed
<1>14. Numbered(added)
  <2>1. \A i \in Live(s) \cup Closed(s) : i \in Nat /\ i < id
    BY <1>1, IdsFinite DEF Numbered
  <2>2. added.nextSequence = id + 1
    BY <1>2
  <2> HIDE DEF id
  <2> QED BY <1>5, <1>8, <1>9, <2>1, <2>2 DEF Numbered
<1>15. Sound(added)
  BY <1>10, <1>12, <1>13, <1>14 DEF Sound
<1>16. /\ Sound(SortPending(added)) /\ SameFrame(added, SortPending(added))
       /\ Kept(added, SortPending(added))
  BY <1>15, SortPendingSound DEF Kept
<1>17. /\ Sound(Rebalance(SortPending(added), now))
       /\ SameFrame(added, Rebalance(SortPending(added), now))
       /\ Kept(added, Rebalance(SortPending(added), now))
  BY <1>16, RebalanceSound DEF SameFrame, Kept
<1>18. Sound(done) /\ SameFrame(added, done) /\ Kept(added, done)
  BY <1>17, EnforcePendingLimitSound DEF SameFrame, Kept
<1> HIDE DEF done
<1>19. Sound(r) /\ SameFrame(added, r) /\ Kept(added, r)
  BY <1>3, <1>18, BumpSound DEF SameFrame, Kept
<1>20. \A i \in Live(r) :
         r.entries[i].nonce = IF i \in Live(s) THEN s.entries[i].nonce ELSE None
  BY <1>6, <1>8, <1>11, <1>19 DEF Kept
<1> QED BY <1>3, <1>4, <1>15, <1>19, <1>20 DEF r, SameFrame

\* restart gives a timer.
LEMMA RestartType ==
  ASSUME NEW timeout \in Timeouts, NEW now \in Nat, NEW running \in BOOLEAN
  PROVE  Restart(timeout, now, running) \in Timer
BY SchedulerConstants DEF Restart, Timer, Timeouts

\* New content and a restarted timer for one entry.
Rewritten(s, i, d, t) ==
  [s EXCEPT !.entries[i].draft = d, !.entries[i].timer = t]

\* ... changes nothing else of the entry, its jump included.
LEMMA RewriteEntry ==
  ASSUME NEW s, Sound(s), NEW i \in Live(s), NEW d \in Draft, NEW t \in Timer,
         NEW r, r = Rewritten(s, i, d, t)
  PROVE  /\ DOMAIN r = Fields
         /\ \A f \in Fields \ {"entries"} : r[f] = s[f]
         /\ r.entries \in [Live(s) -> Entry]
         /\ r.entries[i].draft = d
         /\ r.entries[i].nonce = s.entries[i].nonce
         /\ \A j \in Live(s) \ {i} : r.entries[j] = s.entries[j]
<1>1. DOMAIN s = Fields /\ s.entries \in [Live(s) -> Entry]
  BY MembersAreIds DEF Sound, IsState
<1> DEFINE e == [s.entries[i] EXCEPT !.draft = d, !.timer = t]
<1>2. e \in Entry /\ e.draft = d /\ e.nonce = s.entries[i].nonce
  BY <1>1 DEF Entry
<1>3. r = [s EXCEPT !.entries = [s.entries EXCEPT ![i] = e]]
  BY <1>1 DEF Fields, Entry, Rewritten
<1> HIDE DEF e
<1>4. /\ DOMAIN r = Fields
      /\ \A f \in Fields \ {"entries"} : r[f] = s[f]
      /\ r.entries = [s.entries EXCEPT ![i] = e]
  BY <1>1, <1>3 DEF Fields
<1> QED BY <1>1, <1>2, <1>4

\* submit for a live key, first part: the new content, and the queue when the
\* Presentation changes.
Queued(s, i, d, now) ==
  LET changed ==
        Rewritten(s, i, d, Restart(d.timeout, now, ToastTimerShouldRun(s, i)))
  IN  IF d.pres = s.entries[i].draft.pres THEN changed ELSE Requeue(changed, i)

\* submit of new content for a live key: same id, same key, same jump, and a
\* place that fits the new Presentation.
LEMMA ReplaceSound ==
  ASSUME NEW s, Sound(s), NEW i \in Live(s), NEW d \in Draft, NEW now \in Nat,
         d.key = s.entries[i].draft.key
  PROVE  /\ Sound(Queued(s, i, d, now))
         /\ Sound(Replace(s, i, d, now))
         /\ SameFrame(s, Replace(s, i, d, now))
         /\ Live(Replace(s, i, d, now)) \subseteq Live(s)
         /\ \A j \in Live(Replace(s, i, d, now)) :
              Replace(s, i, d, now).entries[j].nonce = s.entries[j].nonce
<1> DEFINE t       == Restart(d.timeout, now, ToastTimerShouldRun(s, i))
           changed == [s EXCEPT !.entries[i].draft = d, !.entries[i].timer = t]
           moved   == Requeue(changed, i)
           queued  == IF d.pres = s.entries[i].draft.pres THEN changed ELSE moved
           r       == Replace(s, i, d, now)
<1>1. /\ IsState(s) /\ Scheduled(s) /\ KeysIndexed(s) /\ Numbered(s)
      /\ Live(s) \subseteq Ids /\ Pending(s) \subseteq Ids /\ Toasts(s) \subseteq Ids
      /\ s.entries \in [Live(s) -> Entry]
  BY MembersAreIds DEF Sound
<1>2. t \in Timer
  BY RestartType DEF Draft, ToastTimerShouldRun
<1>3. /\ r = BumpContentRevision(Rebalance(SortPending(queued), now))
      /\ queued = Queued(s, i, d, now)
  BY DEF Replace, Queued, Rewritten
<1> HIDE DEF t, r
<1>4. /\ DOMAIN changed = Fields
      /\ \A f \in Fields \ {"entries"} : changed[f] = s[f]
      /\ changed.entries \in [Live(s) -> Entry]
      /\ changed.entries[i].draft = d
      /\ changed.entries[i].nonce = s.entries[i].nonce
      /\ \A j \in Live(s) \ {i} : changed.entries[j] = s.entries[j]
  <2>1. changed = Rewritten(s, i, d, t)
    BY DEF Rewritten
  <2> HIDE DEF changed
  <2> QED BY <1>2, <2>1, RewriteEntry
<1> HIDE DEF changed
<1>5. /\ SameFrame(s, changed) /\ Live(changed) = Live(s)
      /\ changed.closed = s.closed /\ changed.closedAs = s.closedAs
      /\ changed.liveKeys = s.liveKeys /\ changed.pending = s.pending
      /\ changed.toasts = s.toasts /\ changed.attention = s.attention
      /\ changed.revised = s.revised /\ changed.contentRevised = s.contentRevised
      /\ changed.panicked = s.panicked
  BY <1>4 DEF Fields, SameFrame, Live
<1>6. ASSUME d.pres # s.entries[i].draft.pres
      PROVE  /\ Sound(moved) /\ SameFrame(s, moved) /\ Live(moved) = Live(s)
             /\ moved.entries = changed.entries
  <2> DEFINE rest  == Pending(s) \ {i}
             stay  == Toasts(s) \ {i}
             line  == Push(Retain(s.pending, rest), i)
             gate  == IF s.attention = i THEN None ELSE s.attention
  <2>1. /\ DOMAIN moved = Fields /\ moved.pending = line
        /\ moved.toasts = Retain(s.toasts, stay) /\ moved.attention = gate
        /\ \A f \in Fields \ {"pending", "toasts", "attention"} : moved[f] = changed[f]
    BY <1>4, <1>5 DEF Requeue, Fields, Pending, Toasts
  <2> HIDE DEF moved
  <2>2. /\ line \in [rest \cup {i} -> Nat]
        /\ Retain(s.toasts, stay) \in [stay -> Nat]
    <3>1. /\ Retain(s.pending, rest) \in [rest \cap Pending(s) -> Nat]
          /\ Retain(s.toasts, stay) \in [stay \cap Toasts(s) -> Nat]
      <4> HIDE DEF rest, stay
      <4> QED BY <1>1, IdsFinite, RetainType DEF Pending, Toasts
    <3>2. rest \cap Pending(s) = rest /\ stay \cap Toasts(s) = stay /\ rest \subseteq Ids
      BY <1>1
    <3> HIDE DEF rest, stay
    <3> QED BY <3>1, <3>2, IdsFinite, PushType
  <2> HIDE DEF line
  <2>3. /\ Pending(moved) = rest \cup {i} /\ Toasts(moved) = stay
        /\ Live(moved) = Live(s) /\ Closed(moved) = Closed(s)
        /\ moved.entries = changed.entries /\ moved.liveKeys = s.liveKeys
        /\ moved.closed = s.closed /\ moved.closedAs = s.closedAs
        /\ moved.revised = s.revised /\ moved.contentRevised = s.contentRevised
        /\ moved.panicked = s.panicked
        /\ SameFrame(s, moved)
    BY <1>5, <2>1, <2>2 DEF Fields, Pending, Toasts, Live, Closed, SameFrame
  <2>4. gate \in Ids \cup {None} /\ i # None /\ None \notin Ids
    BY <1>1, IdsFinite DEF IsState
  <2>5. IsState(moved)
    <3>1. Partial(moved.pending, Ids, Nat) /\ Partial(moved.toasts, Ids, Nat)
      BY <1>1, <2>1, <2>2 DEF Partial
    <3>2. Partial(moved.entries, Ids, Entry)
      BY <1>1, <1>4, <2>3 DEF Partial
    <3> HIDE DEF gate
    <3> QED BY <1>1, <2>1, <2>3, <2>4, <3>1, <3>2 DEF IsState, SameFrame
  <2>6. Scheduled(moved)
    <3>1. \A j \in Live(s) \ {i} : moved.entries[j] = s.entries[j]
      BY <1>4, <2>3
    <3>2. /\ Toasts(moved) \subseteq OfKind(moved, "toast")
          /\ {moved.attention} \ {None} \subseteq OfKind(moved, "attention")
      BY <1>1, <2>1, <2>3, <2>4, <3>1 DEF Scheduled, OfKind
    <3> QED BY <1>1, <2>1, <2>3, <2>4, <3>2 DEF Scheduled
  <2>7. \A j \in Live(s) : moved.entries[j].draft.key = s.entries[j].draft.key
    BY <1>4, <2>3
  <2>8. KeysIndexed(moved)
    BY <1>1, <2>3, <2>7 DEF KeysIndexed
  <2>9. Numbered(moved)
    BY <1>1, <2>3 DEF Numbered, SameFrame
  <2> QED BY <1>4, <1>6, <2>3, <2>5, <2>6, <2>8, <2>9 DEF Sound
<1>7. /\ Sound(queued) /\ SameFrame(s, queued) /\ Live(queued) = Live(s)
      /\ queued.entries = changed.entries
  <2> HIDE DEF moved
  <2>1. CASE d.pres = s.entries[i].draft.pres
    <3>1. queued = changed
      BY <2>1
    <3>2. Sound(changed)
      BY <1>1, <1>4, <1>5, <2>1, SoundCarries DEF IsState, SameFrame
    <3> QED BY <1>5, <3>1, <3>2
  <2>2. CASE d.pres # s.entries[i].draft.pres
    BY <1>6, <2>2
  <2> QED BY <2>1, <2>2
<1> HIDE DEF queued, moved
<1>8. \A j \in Live(s) : queued.entries[j].nonce = s.entries[j].nonce
  BY <1>4, <1>7
<1> QED BY <1>3, <1>7, <1>8, SortPendingSound, RebalanceSound, BumpSound
        DEF SameFrame, Kept, r

-----------------------------------------------------------------------------
(* What a caller may rely on.                                              *)

\* No Notification is pinned that the same jump did not pin before.
NoNewPin(s, r) ==
  \A i \in Live(r) : r.entries[i].nonce # None =>
    i \in Live(s) /\ s.entries[i].nonce = r.entries[i].nonce

\* The intent stands for a pin.
IntentPinned(s, intent) ==
  intent.id \in Live(s) /\ intent.nonce # None
    /\ s.entries[intent.id].nonce = intent.nonce

\* prepare_time, the start of every method.
LEMMA PrepareTimePins ==
  ASSUME NEW s, Sound(s), NEW now \in Nat
  PROVE  /\ Sound(PrepareTime(s, now))
         /\ PrepareTime(s, now).lastNow = now
         /\ PrepareTime(s, now).nextNonce = s.nextNonce
         /\ PrepareTime(s, now).nextSequence = s.nextSequence
         /\ NoNewPin(s, PrepareTime(s, now))
BY PrepareTimeSound DEF Kept, NoNewPin

\* advance.
LEMMA AdvanceSound ==
  ASSUME NEW s, Sound(s), NEW now \in Nat
  PROVE  /\ Sound(Advance(s, now)) /\ Advance(s, now).lastNow = now
         /\ NoNewPin(s, Advance(s, now))
BY PrepareTimePins DEF Advance

\* submit, for a new key or no key, for a live key with the same content, and
\* for a live key with new content.
LEMMA SubmitSound ==
  ASSUME NEW s, Sound(s), NEW d \in Draft, NEW now \in Nat,
         Submit(s, d, now).nextSequence <= MaxSubmits
  PROVE  /\ Sound(Submit(s, d, now)) /\ Submit(s, d, now).lastNow = now
         /\ NoNewPin(s, Submit(s, d, now))
<1> DEFINE p == PrepareTime(s, now)
           i == IF d.key = None THEN None ELSE p.liveKeys[d.key]
           r == Submit(s, d, now)
<1>1. Sound(p) /\ p.lastNow = now /\ NoNewPin(s, p)
  BY PrepareTimePins
<1>2. r = IF i = None THEN Insert(p, d, now)
          ELSE IF p.entries[i].draft = d THEN p ELSE Replace(p, i, d, now)
  BY DEF Submit
<1>3. i # None => i \in Live(p) /\ d.key = p.entries[i].draft.key
  BY <1>1 DEF Sound, KeysIndexed, Draft
<1>4. r.nextSequence <= MaxSubmits
  OBVIOUS
<1> HIDE DEF p, r
<1>5. CASE i = None
  <2>1. r = Insert(p, d, now)
    BY <1>2, <1>5
  <2>2. d.key # None => p.liveKeys[d.key] = None
    BY <1>5
  <2> HIDE DEF i
  <2>3. /\ Sound(r) /\ r.lastNow = p.lastNow
        /\ \A j \in Live(r) : r.entries[j].nonce =
             IF j \in Live(p) THEN p.entries[j].nonce ELSE None
    BY <1>1, <1>4, <2>1, <2>2, InsertSound
  <2> QED BY <1>1, <2>3 DEF NoNewPin, r
<1> HIDE DEF i
<1>6. CASE i # None /\ p.entries[i].draft = d
  BY <1>1, <1>2, <1>6 DEF r
<1>7. CASE i # None /\ p.entries[i].draft # d
  <2>1. r = Replace(p, i, d, now)
    BY <1>2, <1>7
  <2>2. /\ Sound(r) /\ SameFrame(p, r) /\ Live(r) \subseteq Live(p)
        /\ \A j \in Live(r) : r.entries[j].nonce = p.entries[j].nonce
    BY <1>1, <1>3, <1>7, <2>1, ReplaceSound
  <2> QED BY <1>1, <2>2 DEF NoNewPin, SameFrame, r
<1> QED BY <1>5, <1>6, <1>7

\* A submission hands out one id at most.
LEMMA SubmitNumbers ==
  ASSUME NEW s, Sound(s), NEW d \in Draft, NEW now \in Nat
  PROVE  Submit(s, d, now).nextSequence \in {s.nextSequence, s.nextSequence + 1}
<1>1. PICK p : p = PrepareTime(s, now)
  OBVIOUS
<1>2. PICK i : i = IF d.key = None THEN None ELSE p.liveKeys[d.key]
  OBVIOUS
<1>3. Sound(p) /\ p.nextSequence = s.nextSequence
  BY <1>1, PrepareTimePins
<1>4. Submit(s, d, now) = IF i = None THEN Insert(p, d, now)
                          ELSE IF p.entries[i].draft = d THEN p
                          ELSE Replace(p, i, d, now)
  BY <1>1, <1>2 DEF Submit
<1>5. i # None => i \in Live(p) /\ d.key = p.entries[i].draft.key
  BY <1>2, <1>3 DEF Sound, KeysIndexed, Draft
<1>6. Insert(p, d, now).nextSequence = p.nextSequence + 1
  <2>1. PICK added : added = Inserted(p, d)
    OBVIOUS
  <2>2. PICK full : full = EnforcePendingLimit(Rebalance(SortPending(added), now))
    OBVIOUS
  <2>3. DOMAIN added = Fields /\ added.nextSequence = p.nextSequence + 1
    BY <1>3, <2>1 DEF Inserted, Sound, IsState, Fields
  <2>4. /\ full.nextSequence = added.nextSequence
        /\ BumpContentRevision(full).nextSequence = added.nextSequence
    BY <2>2, <2>3, HelpersKeepSequence
  <2>5. Insert(p, d, now) = IF full.panicked THEN full ELSE BumpContentRevision(full)
    BY <2>1, <2>2 DEF Insert, Inserted
  <2> QED BY <2>3, <2>4, <2>5
<1>7. ASSUME i # None
      PROVE  Replace(p, i, d, now).nextSequence = p.nextSequence
  BY <1>3, <1>5, <1>7, ReplaceSound DEF SameFrame
<1> QED BY <1>3, <1>4, <1>6, <1>7

\* Notification::apply_update leaves the key and the Presentation, and cannot
\* give an Attention a timeout.
LEMMA UpdatedIsDraft ==
  ASSUME NEW d \in Draft, NEW u \in Update
  PROVE  /\ Updated(d, u) \in Draft
         /\ Updated(d, u).key = d.key /\ Updated(d, u).pres = d.pres
<1> DEFINE prio    == IF u.prio = None THEN d.prio ELSE u.prio
           text    == IF u.text = None THEN d.text ELSE u.text
           timeout == IF u.timeout = None \/ d.pres # "toast" THEN d.timeout
                      ELSE u.timeout
<1>1. prio \in Nat /\ text \in Texts /\ timeout \in Timeouts
  BY DEF Draft, Update
<1>2. d.pres # "toast" => timeout = d.timeout
  OBVIOUS
<1>3. Updated(d, u) = [d EXCEPT !.prio = prio, !.text = text, !.timeout = timeout]
  BY DEF Updated
<1> HIDE DEF prio, text, timeout
<1>4. Updated(d, u) = [key |-> d.key, prio |-> prio, pres |-> d.pres,
                       text |-> text, timeout |-> timeout, source |-> d.source]
  BY <1>3 DEF Draft
<1> QED BY <1>1, <1>2, <1>4 DEF Draft

\* update and update_by_key.
LEMMA ApplyUpdateSound ==
  ASSUME NEW s, Sound(s), NEW i, NEW u \in Update, NEW now \in Nat
  PROVE  /\ Sound(ApplyUpdate(s, i, u, now))
         /\ ApplyUpdate(s, i, u, now).lastNow = now
         /\ NoNewPin(s, ApplyUpdate(s, i, u, now))
<1> DEFINE p       == PrepareTime(s, now)
           d       == Updated(p.entries[i].draft, u)
           t       == Restart(d.timeout, now, ToastTimerShouldRun(p, i))
           changed == [p EXCEPT !.entries[i].draft = d, !.entries[i].timer = t]
           r       == ApplyUpdate(s, i, u, now)
<1>1. Sound(p) /\ p.lastNow = now /\ NoNewPin(s, p)
  BY PrepareTimePins
<1>2. r = IF i \notin Live(p) \/ d = p.entries[i].draft THEN p
          ELSE BumpContentRevision(SortPending(changed))
  BY DEF ApplyUpdate
<1>3. changed = Rewritten(p, i, d, t)
  BY DEF Rewritten
<1> HIDE DEF p, r
<1>4. CASE i \notin Live(p) \/ d = p.entries[i].draft
  <2> HIDE DEF d, changed
  <2> QED BY <1>1, <1>2, <1>4 DEF r
<1>5. CASE i \in Live(p) /\ d # p.entries[i].draft
  <2>1. p.entries \in [Live(p) -> Entry] /\ IsState(p)
    BY <1>1, MembersAreIds DEF Sound
  <2>2. /\ d \in Draft /\ d.key = p.entries[i].draft.key
        /\ d.pres = p.entries[i].draft.pres
    BY <1>5, <2>1, UpdatedIsDraft DEF Entry
  <2> HIDE DEF d
  <2>3. t \in Timer
    BY <2>2, RestartType DEF Draft, ToastTimerShouldRun
  <2> HIDE DEF t, changed
  <2>4. /\ DOMAIN changed = Fields
        /\ \A f \in Fields \ {"entries"} : changed[f] = p[f]
        /\ changed.entries \in [Live(p) -> Entry]
        /\ changed.entries[i].draft = d
        /\ changed.entries[i].nonce = p.entries[i].nonce
        /\ \A j \in Live(p) \ {i} : changed.entries[j] = p.entries[j]
    BY <1>1, <1>3, <1>5, <2>2, <2>3, RewriteEntry
  <2>5. /\ SameFrame(p, changed) /\ Live(changed) = Live(p)
        /\ changed.closed = p.closed /\ changed.closedAs = p.closedAs
        /\ changed.liveKeys = p.liveKeys /\ changed.pending = p.pending
        /\ changed.toasts = p.toasts /\ changed.attention = p.attention
        /\ changed.revised = p.revised /\ changed.panicked = p.panicked
        /\ changed.contentRevised = p.contentRevised
    BY <2>4 DEF Fields, SameFrame, Live
  <2>6. Sound(changed)
    BY <1>1, <2>1, <2>2, <2>4, <2>5, SoundCarries DEF IsState, SameFrame
  <2>7. \A j \in Live(changed) : changed.entries[j].nonce = p.entries[j].nonce
    BY <2>4, <2>5
  <2>8. r = BumpContentRevision(SortPending(changed))
    BY <1>2, <1>5
  <2>9. /\ Sound(r) /\ SameFrame(changed, r) /\ Live(r) = Live(changed)
        /\ \A j \in Live(r) : r.entries[j].nonce = changed.entries[j].nonce
    BY <2>6, <2>8, SortPendingSound, BumpSound DEF SameFrame, Kept
  <2> QED BY <1>1, <2>5, <2>7, <2>9 DEF SameFrame, NoNewPin, r
<1> QED BY <1>4, <1>5

\* close, behind dismiss, dismiss_by_key, render_failed and commit_jump.
LEMMA CloseSound ==
  ASSUME NEW s, Sound(s), NEW i, NEW reason \in Reasons, NEW now \in Nat
  PROVE  /\ Sound(Close(s, i, reason, now))
         /\ Close(s, i, reason, now).lastNow = now
         /\ NoNewPin(s, Close(s, i, reason, now))
         /\ i \notin Live(Close(s, i, reason, now))
<1> DEFINE p     == PrepareTime(s, now)
           batch == [j \in {i} |-> 1]
           c     == CloseInner(p, batch, reason)
           r     == Close(s, i, reason, now)
<1>1. Sound(p) /\ p.lastNow = now /\ NoNewPin(s, p)
  BY PrepareTimePins
<1>2. r = IF i \notin Live(p) THEN p ELSE Rebalance(c, now)
  BY DEF Close, CloseOne
<1>3. DOMAIN batch = {i} /\ batch \in [DOMAIN batch -> Nat]
  OBVIOUS
<1> HIDE DEF p, r, batch
<1>4. CASE i \notin Live(p)
  BY <1>1, <1>2, <1>4 DEF r
<1>5. CASE i \in Live(p)
  <2>1. /\ Sound(c) /\ SameFrame(p, c) /\ Kept(p, c) /\ Live(c) = Live(p) \ {i}
    BY <1>1, <1>3, <1>5, CloseInnerSound
  <2> HIDE DEF c
  <2>2. /\ Sound(r) /\ SameFrame(c, r) /\ Kept(c, r) /\ Live(r) = Live(c)
    BY <1>2, <1>5, <2>1, RebalanceSound
  <2> QED BY <1>1, <2>1, <2>2 DEF SameFrame, Kept, NoNewPin, r
<1> QED BY <1>4, <1>5

\* shutdown, whatever the order it closes the Notifications in.
LEMMA ShutdownSound ==
  ASSUME NEW s, Sound(s), NEW order, DOMAIN order = Live(s),
         NEW reason \in Reasons, NEW now \in Nat
  PROVE  /\ Sound(Shutdown(s, order, reason, now))
         /\ Shutdown(s, order, reason, now).lastNow = now
         /\ NoNewPin(s, Shutdown(s, order, reason, now))
<1> DEFINE p     == PrepareTime(s, now)
           batch == Retain(order, Live(p))
           r     == Shutdown(s, order, reason, now)
<1>1. Sound(p) /\ p.lastNow = now /\ NoNewPin(s, p)
  BY PrepareTimePins
<1>2. r = CloseInner(p, batch, reason)
  BY DEF Shutdown
<1> HIDE DEF p, r
<1>3. Live(s) \subseteq Ids
  BY MembersAreIds DEF Sound
<1>4. batch \in [Live(p) \cap DOMAIN order -> Nat]
  BY <1>3, IdsFinite, RetainType
<1>5. DOMAIN batch \subseteq Live(p) /\ batch \in [DOMAIN batch -> Nat]
  BY <1>4
<1> HIDE DEF batch
<1>6. Sound(r) /\ SameFrame(p, r) /\ Kept(p, r)
  BY <1>1, <1>2, <1>5, CloseInnerSound
<1> QED BY <1>1, <1>6 DEF SameFrame, Kept, NoNewPin, r

\* set_display_available.
LEMMA SetDisplayAvailableSound ==
  ASSUME NEW s, Sound(s), NEW available \in BOOLEAN, NEW now \in Nat
  PROVE  /\ Sound(SetDisplayAvailable(s, available, now))
         /\ SetDisplayAvailable(s, available, now).lastNow = now
         /\ NoNewPin(s, SetDisplayAvailable(s, available, now))
<1> DEFINE p   == PrepareTime(s, now)
           set == BumpRevision([p EXCEPT !.available = available])
           q   == IF p.available = available THEN p ELSE set
           r   == SetDisplayAvailable(s, available, now)
<1>1. Sound(p) /\ p.lastNow = now /\ NoNewPin(s, p)
  BY PrepareTimePins
<1>2. r = Rebalance(q, now)
  BY DEF SetDisplayAvailable
<1> HIDE DEF p, r
<1>3. IsState(p) /\ p.entries \in [Live(p) -> Entry]
  BY <1>1, MembersAreIds DEF Sound
<1>4. /\ DOMAIN set = Fields /\ set.available = available /\ set.revised = TRUE
      /\ \A f \in Fields \ {"available", "revised"} : set[f] = p[f]
  BY <1>3 DEF BumpRevision, IsState, Fields
<1> HIDE DEF set
<1>5. /\ set.entries = p.entries /\ set.closed = p.closed
      /\ set.closedAs = p.closedAs /\ set.liveKeys = p.liveKeys
      /\ set.pending = p.pending /\ set.toasts = p.toasts
      /\ set.attention = p.attention /\ set.limits = p.limits
      /\ set.nextSequence = p.nextSequence /\ set.nextNonce = p.nextNonce
      /\ set.lastNow = p.lastNow /\ set.panicked = p.panicked
      /\ set.contentRevised = p.contentRevised
  BY <1>4 DEF Fields
<1>6. Sound(set) /\ Live(set) = Live(p)
  BY <1>1, <1>3, <1>4, <1>5, SoundCarries DEF IsState
<1>7. Sound(q) /\ Live(q) = Live(p) /\ q.entries = p.entries /\ q.lastNow = now
  BY <1>1, <1>5, <1>6
<1> HIDE DEF q
<1>8. Sound(r) /\ SameFrame(q, r) /\ Kept(q, r)
  BY <1>2, <1>7, RebalanceSound
<1> QED BY <1>1, <1>7, <1>8 DEF SameFrame, Kept, NoNewPin, r

\* drain_closed.
LEMMA DrainClosedSound ==
  ASSUME NEW s, Sound(s)
  PROVE  /\ Sound(DrainClosed(s)) /\ DrainClosed(s).lastNow = s.lastNow
         /\ NoNewPin(s, DrainClosed(s))
<1> DEFINE r == DrainClosed(s)
<1>1. /\ IsState(s) /\ Scheduled(s) /\ KeysIndexed(s) /\ Numbered(s)
      /\ s.entries \in [Live(s) -> Entry]
  BY MembersAreIds DEF Sound
<1>2. /\ DOMAIN r = Fields /\ r.closed = EmptyLine /\ r.closedAs = EmptyLine
      /\ \A f \in Fields \ {"closed", "closedAs"} : r[f] = s[f]
  BY <1>1 DEF DrainClosed, IsState, Fields
<1> HIDE DEF r
<1>3. /\ r.entries = s.entries /\ r.liveKeys = s.liveKeys
      /\ r.pending = s.pending /\ r.toasts = s.toasts
      /\ r.attention = s.attention /\ r.limits = s.limits
      /\ r.available = s.available
      /\ r.nextSequence = s.nextSequence /\ r.nextNonce = s.nextNonce
      /\ r.lastNow = s.lastNow /\ r.panicked = s.panicked
      /\ r.revised = s.revised /\ r.contentRevised = s.contentRevised
  BY <1>2 DEF Fields
<1>4. /\ Live(r) = Live(s) /\ Pending(r) = Pending(s) /\ Toasts(r) = Toasts(s)
      /\ Closed(r) = {}
  BY <1>2, <1>3 DEF Live, Pending, Toasts, Closed, EmptyLine
<1>5. Partial(r.closed, Ids, Nat) /\ r.closedAs \in [DOMAIN r.closed -> Reasons]
  BY <1>2 DEF Partial, EmptyLine
<1>6. IsState(r)
  BY <1>1, <1>2, <1>3, <1>5 DEF IsState
<1>7. Scheduled(r) /\ KeysIndexed(r) /\ Numbered(r)
  BY <1>1, <1>3, <1>4 DEF Scheduled, KeysIndexed, Numbered, OfKind
<1> QED BY <1>3, <1>4, <1>6, <1>7 DEF Sound, NoNewPin, r

\* Another pin and another timer for one entry, and perhaps another next nonce.
Repinned(p, i, n, t, next) ==
  [p EXCEPT !.nextNonce = next,
            !.entries = [p.entries EXCEPT
                           ![i] = [p.entries[i] EXCEPT
                                     !.nonce = n, !.timer = t]]]

\* ... keep the state sound.
LEMMA PinSound ==
  ASSUME NEW p, Sound(p), NEW i \in Live(p), NEW t \in Timer,
         NEW n \in Nat \cup {None}, NEW next \in Nat,
         NEW r, r = Repinned(p, i, n, t, next)
  PROVE  /\ Sound(r) /\ Live(r) = Live(p) /\ r.lastNow = p.lastNow
         /\ r.entries[i].nonce = n
         /\ \A j \in Live(p) \ {i} : r.entries[j] = p.entries[j]
<1> DEFINE e == [p.entries[i] EXCEPT !.nonce = n, !.timer = t]
<1>1. IsState(p) /\ p.entries \in [Live(p) -> Entry]
  BY MembersAreIds DEF Sound
<1>2. e \in Entry /\ e.draft = p.entries[i].draft /\ e.nonce = n
  BY <1>1 DEF Entry
<1> HIDE DEF e
<1>3. /\ DOMAIN r = Fields /\ r.entries = [p.entries EXCEPT ![i] = e]
      /\ r.nextNonce = next
      /\ \A f \in Fields \ {"nextNonce", "entries"} : r[f] = p[f]
  BY <1>1 DEF IsState, Fields, e, Repinned
<1>4. /\ r.closed = p.closed /\ r.closedAs = p.closedAs
      /\ r.liveKeys = p.liveKeys
      /\ r.pending = p.pending /\ r.toasts = p.toasts
      /\ r.attention = p.attention /\ r.limits = p.limits
      /\ r.available = p.available /\ r.nextSequence = p.nextSequence
      /\ r.lastNow = p.lastNow /\ r.panicked = p.panicked
      /\ r.revised = p.revised /\ r.contentRevised = p.contentRevised
  BY <1>3 DEF Fields
<1>5. /\ r.entries \in [Live(p) -> Entry] /\ r.entries[i] = e
      /\ \A j \in Live(p) \ {i} : r.entries[j] = p.entries[j]
  BY <1>1, <1>2, <1>3
<1>6. /\ r.limits \in SchedulerLimits /\ r.available \in BOOLEAN
      /\ r.nextNonce \in Nat /\ r.lastNow \in Nat
      /\ r.revised \in BOOLEAN /\ r.contentRevised \in BOOLEAN
      /\ r.panicked \in BOOLEAN
  BY <1>1, <1>3, <1>4 DEF IsState
<1>7. \A j \in Live(p) : r.entries[j].draft = p.entries[j].draft
  BY <1>2, <1>5
<1>8. Sound(r) /\ Live(r) = Live(p)
  BY <1>3, <1>4, <1>5, <1>6, <1>7, SoundCarries
<1> QED BY <1>2, <1>4, <1>5, <1>8

\* begin_jump: the new pin carries the nonce of the intent it hands out, and a
\* refused jump takes no nonce.
LEMMA BeginJumpSound ==
  ASSUME NEW s, Sound(s), NEW i, NEW now \in Nat
  PROVE  LET r == BeginJump(s, i, now)
         IN  /\ Sound(r) /\ r.lastNow = now
             /\ \A j \in Live(r) : r.entries[j].nonce # None =>
                  \/ j \in Live(s) /\ s.entries[j].nonce = r.entries[j].nonce
                  \/ /\ j = i /\ r.entries[j].nonce = s.nextNonce
                     /\ r.nextNonce # s.nextNonce
             /\ r.nextNonce # s.nextNonce => i \in Ids
<1> DEFINE p == PrepareTime(s, now)
           t == IF ToastTimerShouldRun(p, i)
                THEN SetRunning(p.entries[i].timer, now, FALSE)
                ELSE p.entries[i].timer
           set == Repinned(p, i, p.nextNonce, t, p.nextNonce + 1)
           r == BeginJump(s, i, now)
<1>1. /\ Sound(p) /\ p.lastNow = now /\ NoNewPin(s, p)
      /\ p.nextNonce = s.nextNonce
  BY PrepareTimePins
<1>2. /\ IsState(p) /\ p.entries \in [Live(p) -> Entry] /\ Live(p) \subseteq Ids
      /\ DOMAIN p = Fields /\ p.nextNonce \in Nat
  BY <1>1, MembersAreIds DEF Sound, IsState
<1> HIDE DEF p
<1>3. CASE ~JumpAllowed(p, i)
  <2>1. r = p
    BY <1>3 DEF BeginJump, p
  <2> HIDE DEF r
  <2> QED BY <1>1, <2>1 DEF NoNewPin, r
<1>4. CASE JumpAllowed(p, i)
  <2>1. i \in Live(p)
    BY <1>4 DEF JumpAllowed
  <2>2. t \in Timer
    BY <1>2, <2>1, SetRunningType DEF Entry
  <2>3. r = set
    BY ZenonT(30), <1>2, <1>4, <2>1 DEF BeginJump, p, Fields, Entry, Repinned
  <2> HIDE DEF r, t
  <2>4. set.nextNonce = s.nextNonce + 1 /\ s.nextNonce \in Nat
    BY <1>1, <1>2 DEF Fields, Repinned
  <2>5. /\ Sound(set) /\ Live(set) = Live(p) /\ set.lastNow = p.lastNow
        /\ set.entries[i].nonce = p.nextNonce
        /\ \A j \in Live(p) \ {i} : set.entries[j] = p.entries[j]
    <3>1. PICK n \in Nat \cup {None} : n = p.nextNonce
      BY <1>2
    <3> DEFINE next == p.nextNonce + 1
    <3> HIDE DEF next
    <3>2. /\ Sound(p) /\ i \in Live(p) /\ t \in Timer
          /\ next \in Nat /\ set = Repinned(p, i, n, t, next)
      BY <1>1, <1>2, <2>1, <2>2, <3>1 DEF next
    <3> HIDE DEF set
    <3>3. /\ Sound(set) /\ Live(set) = Live(p) /\ set.lastNow = p.lastNow
          /\ set.entries[i].nonce = n
          /\ \A j \in Live(p) \ {i} : set.entries[j] = p.entries[j]
      BY <3>2, PinSound
    <3> QED BY <3>1, <3>3
  <2> HIDE DEF set
  <2> QED BY <1>1, <1>2, <2>1, <2>3, <2>4, <2>5 DEF NoNewPin, r
<1> QED BY <1>3, <1>4

\* cancel_jump: the pin the intent stands for is gone, no other is touched.
LEMMA CancelJumpSound ==
  ASSUME NEW s, Sound(s), NEW intent, NEW now \in Nat
  PROVE  LET r == CancelJump(s, intent, now)
         IN  /\ Sound(r) /\ r.lastNow = now
             /\ NoNewPin(s, r) /\ ~IntentPinned(r, intent)
<1> SUFFICES ASSUME NEW i, i = intent.id, NEW n \in Nat \cup {None}, n = None
             PROVE  LET r == CancelJump(s, intent, now)
                    IN  /\ Sound(r) /\ r.lastNow = now
                        /\ NoNewPin(s, r) /\ ~IntentPinned(r, intent)
  OBVIOUS
<1> DEFINE p == PrepareTime(s, now)
           t == IF ToastTimerShouldRun(p, i)
                THEN SetRunning(p.entries[i].timer, now, TRUE)
                ELSE p.entries[i].timer
           set == Repinned(p, i, n, t, p.nextNonce)
           r == CancelJump(s, intent, now)
<1>1. Sound(p) /\ p.lastNow = now /\ NoNewPin(s, p)
  BY PrepareTimePins
<1>2. /\ IsState(p) /\ p.entries \in [Live(p) -> Entry]
      /\ DOMAIN p = Fields /\ p.nextNonce \in Nat
  BY <1>1, MembersAreIds DEF Sound, IsState
<1> HIDE DEF p
<1>3. CASE ~IntentValid(p, intent)
  <2>1. r = p
    BY <1>3 DEF CancelJump, p
  <2> HIDE DEF r
  <2> QED BY <1>1, <1>3, <2>1 DEF IntentValid, IntentPinned, r
<1>4. CASE IntentValid(p, intent)
  <2>1. i \in Live(p)
    BY <1>4 DEF IntentValid
  <2>2. t \in Timer
    BY <1>2, <2>1, SetRunningType DEF Entry
  <2>3. r = set
    BY ZenonT(30), <1>2, <1>4, <2>1 DEF CancelJump, p, Fields, Entry, Repinned
  <2> HIDE DEF r, t
  <2>4. /\ Sound(set) /\ Live(set) = Live(p) /\ set.lastNow = p.lastNow
        /\ set.entries[i].nonce = n
        /\ \A j \in Live(p) \ {i} : set.entries[j] = p.entries[j]
    <3>1. PICK u \in Timer : u = t
      BY <2>2
    <3>2. PICK next \in Nat : next = p.nextNonce
      BY <1>2
    <3>3. PICK q : q = Repinned(p, i, n, u, next)
      OBVIOUS
    <3>4. /\ Sound(q) /\ Live(q) = Live(p) /\ q.lastNow = p.lastNow
          /\ q.entries[i].nonce = n
          /\ \A j \in Live(p) \ {i} : q.entries[j] = p.entries[j]
      BY <1>1, <2>1, <3>3, PinSound
    <3>5. set = q
      BY <3>1, <3>2, <3>3
    <3> HIDE DEF set
    <3> QED BY <3>4, <3>5
  <2> HIDE DEF set
  <2> QED BY <1>1, <2>1, <2>3, <2>4 DEF NoNewPin, IntentPinned, r
<1> QED BY <1>3, <1>4

\* commit_jump: likewise, by closing the Notification.
LEMMA CommitJumpSound ==
  ASSUME NEW s, Sound(s), NEW intent, NEW now \in Nat
  PROVE  LET r == CommitJump(s, intent, now)
         IN  /\ Sound(r) /\ r.lastNow \in {s.lastNow, now}
             /\ NoNewPin(s, r) /\ ~IntentPinned(r, intent)
<1>1. CASE IntentValid(s, intent)
  BY <1>1, CloseSound DEF CommitJump, Reasons, IntentPinned
<1>2. CASE ~IntentValid(s, intent)
  BY <1>2 DEF CommitJump, NoNewPin, IntentValid, IntentPinned
<1> QED BY <1>1, <1>2

\* update_limits, first part: deferred Toasts go back to the queue, stopped.
Resized(p, limits, deferred, now) ==
  [p EXCEPT !.limits  = limits,
            !.toasts  = Retain(p.toasts, Toasts(p) \ deferred),
            !.pending = Join(p.pending, Retain(p.toasts, deferred)),
            !.entries = TimersStopped(p, deferred, now)]

\* ... keeps the state sound.
LEMMA ResizedSound ==
  ASSUME NEW p, Sound(p), NEW limits \in SchedulerLimits, NEW now \in Nat,
         NEW deferred, deferred \subseteq Toasts(p),
         NEW r, r = Resized(p, limits, deferred, now)
  PROVE  /\ Sound(r) /\ Live(r) = Live(p) /\ r.lastNow = p.lastNow
         /\ \A i \in Live(p) : r.entries[i].nonce = p.entries[i].nonce
<1> DEFINE toasts  == Retain(p.toasts, Toasts(p) \ deferred)
           pending == Join(p.pending, Retain(p.toasts, deferred))
           entries == TimersStopped(p, deferred, now)
<1>1. /\ IsState(p) /\ Scheduled(p) /\ KeysIndexed(p) /\ Numbered(p)
      /\ Pending(p) \subseteq Ids /\ Toasts(p) \subseteq Ids
      /\ Live(p) \subseteq Ids
      /\ p.entries \in [Live(p) -> Entry]
      /\ p.pending \in [Pending(p) -> Nat]
  BY MembersAreIds DEF Sound
<1>2. /\ toasts \in [Toasts(p) \ deferred -> Nat]
      /\ pending \in [Pending(p) \cup deferred -> Nat]
  <2>1. /\ toasts \in [(Toasts(p) \ deferred) \cap Toasts(p) -> Nat]
        /\ Retain(p.toasts, deferred) \in [deferred \cap Toasts(p) -> Nat]
    BY <1>1, IdsFinite, RetainType DEF Toasts
  <2> DEFINE back == Retain(p.toasts, deferred)
  <2> HIDE DEF toasts, back
  <2>2. toasts \in [Toasts(p) \ deferred -> Nat] /\ back \in [deferred -> Nat]
    BY <2>1 DEF back
  <2>3. pending = Join(p.pending, back)
    BY DEF back
  <2>4. Join(p.pending, back) \in [Pending(p) \cup deferred -> Nat]
    BY Zenon, <1>1, <2>2, IdsFinite, JoinType
  <2> QED BY <2>2, <2>3, <2>4 DEF back
<1>3. /\ entries \in [Live(p) -> Entry]
      /\ \A i \in Live(p) : /\ entries[i].draft = p.entries[i].draft
                            /\ entries[i].nonce = p.entries[i].nonce
  <2> DEFINE after(i) == [p.entries[i] EXCEPT
                            !.timer = SetRunning(p.entries[i].timer, now, FALSE)]
  <2>1. \A i \in Live(p) : /\ after(i) \in Entry
                           /\ after(i).draft = p.entries[i].draft
                           /\ after(i).nonce = p.entries[i].nonce
    BY <1>1, SetRunningType DEF Entry
  <2>2. entries = [i \in Live(p) |-> IF i \in deferred THEN after(i)
                                     ELSE p.entries[i]]
    BY DEF TimersStopped
  <2> HIDE DEF after, entries
  <2> QED BY <1>1, <2>1, <2>2
<1>4. /\ DOMAIN r = Fields /\ r.limits = limits /\ r.entries = entries
      /\ r.toasts = toasts /\ r.pending = pending
      /\ \A f \in Fields \ {"limits", "entries", "toasts", "pending"} :
           r[f] = p[f]
  BY <1>1 DEF IsState, Fields, Resized
<1> HIDE DEF toasts, pending, entries
<1>5. /\ r.closed = p.closed /\ r.closedAs = p.closedAs
      /\ r.liveKeys = p.liveKeys /\ r.attention = p.attention
      /\ r.available = p.available
      /\ r.nextSequence = p.nextSequence /\ r.nextNonce = p.nextNonce
      /\ r.lastNow = p.lastNow /\ r.panicked = p.panicked
      /\ r.revised = p.revised /\ r.contentRevised = p.contentRevised
  BY <1>4 DEF Fields
<1>6. /\ Live(r) = Live(p) /\ Toasts(r) = Toasts(p) \ deferred
      /\ Pending(r) = Pending(p) \cup deferred /\ Closed(r) = Closed(p)
  BY <1>2, <1>3, <1>4, <1>5 DEF Live, Toasts, Pending, Closed
<1>7. \A i \in Live(p) : /\ r.entries[i].draft = p.entries[i].draft
                         /\ r.entries[i].nonce = p.entries[i].nonce
  BY <1>3, <1>4
<1>8. IsState(r)
  <2>1. /\ Partial(r.entries, Ids, Entry) /\ Partial(r.pending, Ids, Nat)
        /\ Partial(r.toasts, Ids, Nat)
    BY <1>1, <1>2, <1>3, <1>4 DEF Partial
  <2> QED BY <1>1, <1>4, <1>5, <2>1 DEF IsState
<1>9. Scheduled(r)
  <2>1. \A i \in Live(p), kind \in {"toast", "attention"} :
          i \in OfKind(p, kind) <=> i \in OfKind(r, kind)
    BY <1>6, <1>7 DEF OfKind
  <2>2. OfKind(p, "toast") \cap OfKind(p, "attention") = {}
    BY DEF OfKind
  <2> QED BY <1>1, <1>5, <1>6, <2>1, <2>2 DEF Scheduled
<1>10. KeysIndexed(r) /\ Numbered(r)
  BY <1>1, <1>5, <1>6, <1>7 DEF KeysIndexed, Numbered
<1> QED BY <1>5, <1>6, <1>7, <1>8, <1>9, <1>10 DEF Sound

\* ... last part: fewer closed records.
LEMMA TrimSound ==
  ASSUME NEW s, Sound(s), NEW kept,
         NEW r, r = [s EXCEPT !.closed = Retain(s.closed, kept),
                              !.closedAs = Restrict(s.closedAs, kept)],
         kept \subseteq Closed(s)
  PROVE  Sound(r) /\ Live(r) = Live(s) /\ r.entries = s.entries
         /\ r.lastNow = s.lastNow
<1> DEFINE closed   == Retain(s.closed, kept)
           closedAs == Restrict(s.closedAs, kept)
<1>1. /\ IsState(s) /\ Scheduled(s) /\ KeysIndexed(s) /\ Numbered(s)
      /\ Closed(s) \subseteq Ids /\ s.entries \in [Live(s) -> Entry]
  BY MembersAreIds DEF Sound
<1>2. closed \in [kept -> Nat] /\ closedAs \in [kept -> Reasons]
  <2>1. closed \in [kept \cap Closed(s) -> Nat]
    BY <1>1, IdsFinite, RetainType DEF Closed
  <2>2. kept \cap Closed(s) = kept
    OBVIOUS
  <2>3. closedAs = [i \in kept |-> s.closedAs[i]]
    BY DEF Restrict
  <2>4. closedAs \in [kept -> Reasons]
    BY <1>1, <2>3 DEF IsState, Closed
  <2> QED BY <2>1, <2>2, <2>4
<1>3. /\ DOMAIN r = Fields /\ r.closed = closed /\ r.closedAs = closedAs
      /\ \A f \in Fields \ {"closed", "closedAs"} : r[f] = s[f]
  BY <1>1 DEF IsState, Fields
<1> HIDE DEF closed, closedAs
<1>4. /\ r.entries = s.entries /\ r.liveKeys = s.liveKeys
      /\ r.pending = s.pending /\ r.toasts = s.toasts
      /\ r.attention = s.attention /\ r.limits = s.limits
      /\ r.available = s.available
      /\ r.nextSequence = s.nextSequence /\ r.nextNonce = s.nextNonce
      /\ r.lastNow = s.lastNow /\ r.panicked = s.panicked
      /\ r.revised = s.revised /\ r.contentRevised = s.contentRevised
  BY <1>3 DEF Fields
<1>5. /\ Live(r) = Live(s) /\ Pending(r) = Pending(s) /\ Toasts(r) = Toasts(s)
      /\ Closed(r) = kept
  BY <1>2, <1>3, <1>4 DEF Live, Pending, Toasts, Closed
<1>6. Partial(r.closed, Ids, Nat) /\ r.closedAs \in [DOMAIN r.closed -> Reasons]
  BY <1>1, <1>2, <1>3 DEF Partial
<1>7. IsState(r)
  BY <1>1, <1>3, <1>4, <1>6 DEF IsState
<1>8. Scheduled(r) /\ KeysIndexed(r) /\ Numbered(r)
  BY <1>1, <1>4, <1>5 DEF Scheduled, KeysIndexed, Numbered, OfKind
<1> QED BY <1>4, <1>5, <1>7, <1>8 DEF Sound

\* update_limits, as a whole.
LEMMA UpdateLimitsSound ==
  ASSUME NEW s, Sound(s), NEW limits \in SchedulerLimits, NEW now \in Nat
  PROVE  /\ Sound(UpdateLimits(s, limits, now))
         /\ UpdateLimits(s, limits, now).lastNow = now
         /\ NoNewPin(s, UpdateLimits(s, limits, now))
<1> DEFINE p        == PrepareTime(s, now)
           deferred == Deferred(p, limits)
           resized  == Resized(p, limits, deferred, now)
           sorted   == SortPending(resized)
           placed   == Rebalance(sorted, now)
           full     == EnforcePendingLimit(placed)
           kept     == LastOf(full.closed, Closed(full), ClosedCapacity(limits))
           trimmed  == [full EXCEPT !.closed   = Retain(full.closed, kept),
                                    !.closedAs = Restrict(full.closedAs, kept)]
           r        == UpdateLimits(s, limits, now)
<1>1. Sound(p) /\ p.lastNow = now /\ NoNewPin(s, p)
  BY PrepareTimePins
<1>2. r = IF p.limits = limits THEN p
          ELSE IF full.panicked THEN full
          ELSE BumpContentRevision(trimmed)
  BY DEF UpdateLimits, Resized
<1> HIDE DEF p, r
<1>3. deferred \subseteq Toasts(p)
  BY DEF Deferred
<1> HIDE DEF deferred
<1>4. /\ Sound(resized) /\ Live(resized) = Live(p)
      /\ resized.lastNow = p.lastNow
      /\ \A i \in Live(p) : resized.entries[i].nonce = p.entries[i].nonce
  BY <1>1, <1>3, ResizedSound
<1> HIDE DEF resized
<1>5. /\ Sound(sorted) /\ SameFrame(resized, sorted)
      /\ Live(sorted) = Live(resized) /\ sorted.entries = resized.entries
  BY <1>4, SortPendingSound
<1> HIDE DEF sorted
<1>6. Sound(placed) /\ SameFrame(sorted, placed) /\ Kept(sorted, placed)
  BY <1>5, RebalanceSound
<1> HIDE DEF placed
<1>7. Sound(full) /\ SameFrame(placed, full) /\ Kept(placed, full)
  BY <1>6, EnforcePendingLimitSound
<1> HIDE DEF full
<1>8. full.lastNow = now /\ NoNewPin(s, full)
  BY <1>1, <1>4, <1>5, <1>6, <1>7 DEF SameFrame, Kept, NoNewPin
<1>9. /\ Sound(trimmed) /\ Live(trimmed) = Live(full)
      /\ trimmed.entries = full.entries /\ trimmed.lastNow = full.lastNow
  <2>1. kept \subseteq Closed(full)
    BY DEF LastOf
  <2> HIDE DEF kept
  <2> SUFFICES ASSUME NEW x, x = trimmed
               PROVE  /\ Sound(x) /\ Live(x) = Live(full)
                      /\ x.entries = full.entries /\ x.lastNow = full.lastNow
    OBVIOUS
  <2> QED BY <1>7, <2>1, TrimSound
<1> HIDE DEF trimmed
<1>10. /\ Sound(BumpContentRevision(trimmed))
       /\ SameFrame(trimmed, BumpContentRevision(trimmed))
       /\ Kept(trimmed, BumpContentRevision(trimmed))
  BY <1>9, BumpSound
<1> QED BY <1>1, <1>2, <1>7, <1>8, <1>9, <1>10 DEF SameFrame, Kept, NoNewPin, r

-----------------------------------------------------------------------------
(* The order that the operations on lines give.                            *)

\* A larger part of a finite set has no fewer elements, and a strictly larger
\* one has more.
LEMMA PartCounts ==
  ASSUME NEW U, IsFiniteSet(U), NEW B, B \subseteq U, NEW A, A \subseteq B
  PROVE  /\ Cardinality(A) \in Nat /\ Cardinality(B) \in Nat
         /\ Cardinality(A) <= Cardinality(B)
         /\ \A x \in B \ A : Cardinality(A) < Cardinality(B)
<1>1. IsFiniteSet(B) /\ Cardinality(B) \in Nat /\ Cardinality(A) \in Nat
  BY CountIsNat
<1>2. /\ Cardinality(A) <= Cardinality(B)
      /\ Cardinality(A) = Cardinality(B) => A = B
  BY <1>1, FS_Subset
<1>3. ASSUME NEW x \in B \ A
      PROVE  Cardinality(A) < Cardinality(B)
  BY <1>1, <1>2, <1>3
<1> QED BY <1>1, <1>2, <1>3

\* Vec::retain keeps the order.
LEMMA RetainRanks ==
  ASSUME NEW U, IsFiniteSet(U), NEW A, A \subseteq U, NEW l \in [A -> Nat], NEW S
  PROVE  /\ Retain(l, S) \in [S \cap A -> 1 .. Cardinality(S \cap A)]
         /\ \A i, j \in S \cap A : Retain(l, S)[i] < Retain(l, S)[j] <=> l[i] < l[j]
<1> DEFINE kept == S \cap A
           upto(i) == {j \in kept : l[j] <= l[i]}
<1>1. kept \subseteq U /\ \A i \in kept : l[i] \in Nat
  OBVIOUS
<1>2. Retain(l, S) = [i \in kept |-> Cardinality(upto(i))]
  BY DEF Retain
<1>3. ASSUME NEW i \in kept
      PROVE  Cardinality(upto(i)) \in 1 .. Cardinality(kept)
  <2>1. upto(i) \subseteq kept /\ {i} \subseteq upto(i)
    BY <1>1
  <2>2. /\ Cardinality(upto(i)) \in Nat /\ Cardinality(kept) \in Nat
        /\ Cardinality(upto(i)) <= Cardinality(kept)
    BY <1>1, <2>1, PartCounts
  <2>3. Cardinality({i}) <= Cardinality(upto(i))
    BY <1>1, <2>1, PartCounts
  <2>4. Cardinality({i}) = 1
    BY FS_Singleton
  <2> HIDE DEF kept, upto
  <2> QED BY <2>2, <2>3, <2>4
<1>4. ASSUME NEW i \in kept, NEW j \in kept
      PROVE  Cardinality(upto(i)) < Cardinality(upto(j)) <=> l[i] < l[j]
  <2>1. l[i] \in Nat /\ l[j] \in Nat
    OBVIOUS
  <2>2. CASE l[i] < l[j]
    <3>1. upto(i) \subseteq upto(j) /\ j \in upto(j) \ upto(i)
      BY <1>1, <2>2
    <3>2. upto(j) \subseteq U
      BY <1>1
    <3>3. Cardinality(upto(i)) < Cardinality(upto(j))
      <4> HIDE DEF upto, kept
      <4> QED BY <3>1, <3>2, PartCounts
    <3> QED BY <2>2, <3>3
  <2>3. CASE ~(l[i] < l[j])
    <3>1. upto(j) \subseteq upto(i)
      BY <1>1, <2>3
    <3>2. upto(i) \subseteq U
      BY <1>1
    <3>3. /\ Cardinality(upto(j)) <= Cardinality(upto(i))
          /\ Cardinality(upto(j)) \in Nat /\ Cardinality(upto(i)) \in Nat
      <4> HIDE DEF upto, kept
      <4> QED BY <3>1, <3>2, PartCounts
    <3> HIDE DEF upto
    <3> QED BY <2>3, <3>3
  <2> QED BY <2>2, <2>3
<1> HIDE DEF upto
<1> QED BY <1>2, <1>3, <1>4

\* So what is kept of a line is a line.
LEMMA RetainLine ==
  ASSUME NEW U, IsFiniteSet(U), NEW A, A \subseteq U, NEW l, IsLine(l, A), NEW S
  PROVE  /\ IsLine(Retain(l, S), S \cap A)
         /\ \A i, j \in S \cap A : Retain(l, S)[i] < Retain(l, S)[j] <=> l[i] < l[j]
<1>1. Cardinality(A) \in Nat
  BY CountIsNat
<1>2. l \in [A -> Nat] /\ \A i, j \in A : l[i] = l[j] => i = j
  BY <1>1 DEF IsLine
<1>3. PICK r : r = Retain(l, S)
  OBVIOUS
<1>4. /\ r \in [S \cap A -> 1 .. Cardinality(S \cap A)]
      /\ \A i, j \in S \cap A : r[i] < r[j] <=> l[i] < l[j]
  BY <1>2, <1>3, RetainRanks
<1>5. ASSUME NEW i \in S \cap A, NEW j \in S \cap A, r[i] = r[j]
      PROVE  i = j
  <2>1. /\ l[i] \in Nat /\ l[j] \in Nat /\ ~(l[i] < l[j]) /\ ~(l[j] < l[i])
    <3>1. r[i] \in Int /\ r[j] \in Int
      BY <1>4
    <3> QED BY <1>2, <1>4, <1>5, <3>1
  <2> QED BY <1>2, <2>1
<1> QED BY <1>3, <1>4, <1>5 DEF IsLine

\* The same of members that are all in the line.
LEMMA RetainPart ==
  ASSUME NEW U, IsFiniteSet(U), NEW A, A \subseteq U, NEW l \in [A -> Nat],
         NEW S, S \subseteq A
  PROVE  /\ DOMAIN Retain(l, S) = S
         /\ \A i, j \in S : Retain(l, S)[i] < Retain(l, S)[j] <=> l[i] < l[j]
         /\ IsLine(l, A) => IsLine(Retain(l, S), S)
<1>1. PICK T : T = S \cap A
  OBVIOUS
<1>2. /\ Retain(l, S) \in [T -> 1 .. Cardinality(T)]
      /\ \A i, j \in T : Retain(l, S)[i] < Retain(l, S)[j] <=> l[i] < l[j]
  BY <1>1, RetainRanks
<1>3. IsLine(l, A) => IsLine(Retain(l, S), T)
  BY <1>1, RetainLine
<1>4. T = S
  BY <1>1
<1> QED BY <1>2, <1>3, <1>4

\* A line read backwards is a line.
LEMMA ReversedLine ==
  ASSUME NEW U, IsFiniteSet(U), NEW A, A \subseteq U, NEW l, IsLine(l, A)
  PROVE  IsLine(Reversed(l), A)
<1> DEFINE from(i) == {j \in A : l[i] <= l[j]}
<1>1. Cardinality(A) \in Nat
  BY CountIsNat
<1>2. l \in [A -> Nat] /\ \A i, j \in A : l[i] = l[j] => i = j
  BY <1>1 DEF IsLine
<1>3. Reversed(l) = [i \in A |-> Cardinality(from(i))]
  BY <1>2 DEF Reversed
<1>4. ASSUME NEW i \in A
      PROVE  Cardinality(from(i)) \in 1 .. Cardinality(A)
  <2>1. from(i) \subseteq A /\ {i} \subseteq from(i)
    BY <1>2
  <2>2. /\ Cardinality(from(i)) \in Nat
        /\ Cardinality(from(i)) <= Cardinality(A)
    BY <2>1, PartCounts
  <2>3. Cardinality({i}) <= Cardinality(from(i))
    BY <2>1, PartCounts
  <2>4. Cardinality({i}) = 1
    BY FS_Singleton
  <2> HIDE DEF from
  <2> QED BY <1>1, <2>2, <2>3, <2>4
<1>5. ASSUME NEW i \in A, NEW j \in A, l[i] < l[j]
      PROVE  Cardinality(from(j)) < Cardinality(from(i))
  <2>1. from(j) \subseteq from(i) /\ i \in from(i) \ from(j) /\ from(i) \subseteq U
    BY <1>2, <1>5
  <2> HIDE DEF from
  <2> QED BY <2>1, PartCounts
<1>6. ASSUME NEW i \in A, NEW j \in A, Cardinality(from(i)) = Cardinality(from(j))
      PROVE  i = j
  <2>1. Cardinality(from(i)) \in Nat
    BY <1>4
  <2>2. ~(l[i] < l[j]) /\ ~(l[j] < l[i])
    <3> HIDE DEF from
    <3> QED BY <1>5, <1>6, <2>1
  <2> QED BY <1>2, <2>2
<1> HIDE DEF from
<1> QED BY <1>3, <1>4, <1>6 DEF IsLine

\* Vec::sort_by orders the members, whatever they are, by a strict total order.
LEMMA SortedLine ==
  ASSUME NEW U, IsFiniteSet(U), NEW A, A \subseteq U, NEW ahead,
         \A i \in A : <<i, i>> \notin ahead,
         \A i, j \in A : i # j => <<i, j>> \in ahead \/ <<j, i>> \in ahead,
         \A i, j, k \in A :
           <<i, j>> \in ahead /\ <<j, k>> \in ahead => <<i, k>> \in ahead
  PROVE  /\ IsLine(Sorted(A, ahead), A)
         /\ \A i, j \in A :
              Sorted(A, ahead)[i] < Sorted(A, ahead)[j] <=> <<i, j>> \in ahead
<1> DEFINE before(i) == {j \in A : <<j, i>> \in ahead}
<1>1. Sorted(A, ahead) = [i \in A |-> 1 + Cardinality(before(i))]
  BY DEF Sorted
<1>2. ASSUME NEW i \in A
      PROVE  /\ Cardinality(before(i)) \in Nat
             /\ 1 + Cardinality(before(i)) \in 1 .. Cardinality(A)
  <2>1. before(i) \subseteq A /\ i \in A \ before(i)
    OBVIOUS
  <2>2. /\ Cardinality(before(i)) \in Nat /\ Cardinality(A) \in Nat
        /\ Cardinality(before(i)) < Cardinality(A)
    <3> HIDE DEF before
    <3> QED BY <2>1, PartCounts
  <2> HIDE DEF before
  <2> QED BY <2>2
<1>3. ASSUME NEW i \in A, NEW j \in A, <<i, j>> \in ahead
      PROVE  Cardinality(before(i)) < Cardinality(before(j))
  <2>1. before(i) \subseteq before(j) /\ i \in before(j) \ before(i)
        /\ before(j) \subseteq U
    BY <1>3
  <2> HIDE DEF before
  <2> QED BY <2>1, PartCounts
<1>4. ASSUME NEW i \in A, NEW j \in A
      PROVE  /\ Cardinality(before(i)) < Cardinality(before(j)) <=> <<i, j>> \in ahead
             /\ Cardinality(before(i)) = Cardinality(before(j)) => i = j
  <2>1. Cardinality(before(i)) \in Nat /\ Cardinality(before(j)) \in Nat
    BY <1>2
  <2>2. i = j \/ <<i, j>> \in ahead \/ <<j, i>> \in ahead
    OBVIOUS
  <2>3. ~(<<i, j>> \in ahead /\ <<j, i>> \in ahead)
    OBVIOUS
  <2> HIDE DEF before
  <2>4. i = j => ~(Cardinality(before(i)) < Cardinality(before(j)))
                 /\ <<i, j>> \notin ahead
    BY <2>1
  <2> QED BY <1>3, <2>1, <2>2, <2>3, <2>4
<1>5. ASSUME NEW i \in A, NEW j \in A
      PROVE  /\ Sorted(A, ahead)[i] < Sorted(A, ahead)[j] <=> <<i, j>> \in ahead
             /\ Sorted(A, ahead)[i] = Sorted(A, ahead)[j] => i = j
  <2>1. PICK m \in Nat, n \in Nat :
          m = Cardinality(before(i)) /\ n = Cardinality(before(j))
    BY <1>2
  <2>2. Sorted(A, ahead)[i] = 1 + m /\ Sorted(A, ahead)[j] = 1 + n
    BY <1>1, <2>1
  <2>3. (m < n <=> <<i, j>> \in ahead) /\ (m = n => i = j)
    BY <1>4, <2>1
  <2> QED BY <2>2, <2>3
<1> HIDE DEF before
<1>8. Sorted(A, ahead) \in [A -> 1 .. Cardinality(A)]
  BY <1>1, <1>2
<1> QED BY <1>5, <1>8 DEF IsLine

\* Two lines of different ids, one behind the other, are a line.
LEMMA JoinLine ==
  ASSUME NEW U, IsFiniteSet(U), NEW A, A \subseteq U, NEW B, B \subseteq U,
         A \cap B = {}, NEW l, IsLine(l, A), NEW m, IsLine(m, B)
  PROVE  IsLine(Join(l, m), A \cup B)
<1>1. /\ IsFiniteSet(A) /\ IsFiniteSet(B)
      /\ Cardinality(A) \in Nat /\ Cardinality(B) \in Nat
  BY CountIsNat
<1>2. Cardinality(A \cup B) = Cardinality(A) + Cardinality(B)
  BY <1>1, FS_Union, FS_EmptySet
<1>3. /\ l \in [A -> 1 .. Cardinality(A)] /\ \A i, j \in A : l[i] = l[j] => i = j
      /\ m \in [B -> 1 .. Cardinality(B)] /\ \A i, j \in B : m[i] = m[j] => i = j
  BY DEF IsLine
<1>4. Join(l, m) =
        [i \in A \cup B |-> IF i \in A THEN l[i] ELSE Cardinality(A) + m[i]]
  BY <1>3 DEF Join
<1>5. PICK a \in Nat, b \in Nat : a = Cardinality(A) /\ b = Cardinality(B)
  BY <1>1
<1>6. PICK r : r = Join(l, m)
  OBVIOUS
<1>7. /\ \A i \in A : r[i] = l[i] /\ l[i] \in 1 .. a
      /\ \A i \in B : r[i] = a + m[i] /\ m[i] \in 1 .. b
      /\ DOMAIN r = A \cup B /\ r = [i \in A \cup B |-> r[i]]
  BY <1>3, <1>4, <1>5, <1>6
<1>8. \A i \in A \cup B : r[i] \in 1 .. a + b
  BY <1>7
<1>9. ASSUME NEW i \in A \cup B, NEW j \in A \cup B, r[i] = r[j]
      PROVE  i = j
  <2>1. CASE i \in A /\ j \in A
    BY <1>3, <1>7, <1>9, <2>1
  <2>2. CASE i \in B /\ j \in B
    <3>1. m[i] = m[j]
      BY <1>7, <1>9, <2>2
    <3> QED BY <1>3, <2>2, <3>1
  <2>3. CASE i \in A /\ j \in B
    BY <1>7, <1>9, <2>3
  <2>4. CASE i \in B /\ j \in A
    BY <1>7, <1>9, <2>4
  <2> QED BY <2>1, <2>2, <2>3, <2>4
<1>10. r \in [A \cup B -> 1 .. Cardinality(A \cup B)]
  BY <1>2, <1>5, <1>7, <1>8
<1> QED BY <1>6, <1>9, <1>10 DEF IsLine

\* An id that is pushed goes behind the others.
LEMMA PushLine ==
  ASSUME NEW U, IsFiniteSet(U), NEW A, A \subseteq U, NEW l, IsLine(l, A),
         NEW i \in U \ A
  PROVE  IsLine(Push(l, i), A \cup {i})
<1>1. Cardinality({i}) = 1
  BY FS_Singleton
<1>2. IsLine([j \in {i} |-> 1], {i})
  BY <1>1 DEF IsLine
<1> QED BY <1>2, JoinLine DEF Push

\* Of a line at most n are the first n, and nobody is left out of the last n
\* when there are no more than n.
LEMMA FirstOfCount ==
  ASSUME NEW U, IsFiniteSet(U), NEW A, A \subseteq U, NEW l, IsLine(l, A),
         NEW S, NEW n \in Int
  PROVE  /\ FirstOf(l, S, n) \subseteq S \cap A
         /\ n >= 0 => Cardinality(FirstOf(l, S, n)) <= n
<1> DEFINE F == FirstOf(l, S, n)
           r == Retain(l, S)
<1>1. DOMAIN l = A
  BY DEF IsLine
<1>2. F = {i \in S \cap A : r[i] <= n}
  BY <1>1 DEF FirstOf, Retain
<1>3. IsLine(r, S \cap A)
  BY RetainLine
<1>4. CASE n >= 0
  <2> DEFINE f == [i \in F |-> r[i]]
  <2>1. S \cap A \subseteq U /\ Cardinality(S \cap A) \in Nat
    BY CountIsNat
  <2>2. \A i \in F : r[i] \in 1 .. n
    <3> HIDE DEF r, F
    <3> QED BY <1>2, <1>3, <2>1 DEF IsLine
  <2>3. f \in Injection(F, 1 .. n)
    <3> HIDE DEF r, F
    <3> QED BY <1>2, <1>3, <2>2 DEF IsLine, Injection, IsInjective
  <2>4. IsFiniteSet(1 .. n) /\ Cardinality(1 .. n) = n
    BY <1>4, FS_Interval
  <2>5. Cardinality(F) <= n
    <3> HIDE DEF f, F
    <3> QED BY <2>3, <2>4, FS_Injection
  <2> QED BY <1>2, <2>5
<1> QED BY <1>2, <1>4

\* When they are no more than n, all are among the last n.
LEMMA LastOfAll ==
  ASSUME NEW U, IsFiniteSet(U), NEW A, A \subseteq U, NEW l, DOMAIN l = A,
         NEW n \in Nat, Cardinality(A) <= n
  PROVE  LastOf(l, A, n) = A
<1>1. ASSUME NEW i \in A
      PROVE  Cardinality({j \in A \cap DOMAIN l : l[i] <= l[j]}) <= n
  <2>1. {j \in A \cap DOMAIN l : l[i] <= l[j]} \subseteq A
    OBVIOUS
  <2> DEFINE P == {j \in A \cap DOMAIN l : l[i] <= l[j]}
  <2> HIDE DEF P
  <2>2. P \subseteq A
    BY <2>1 DEF P
  <2>3. Cardinality(P) <= Cardinality(A) /\ Cardinality(P) \in Nat
        /\ Cardinality(A) \in Nat
    BY <2>2, PartCounts
  <2> QED BY <2>3 DEF P
<1> QED BY <1>1 DEF LastOf

-----------------------------------------------------------------------------
(* The order of the queues, and the records of what was closed.            *)

\* Each of the three collections is a Vec of distinct ids.
Lined(s) ==
  /\ IsLine(s.pending, Pending(s))
  /\ IsLine(s.toasts, Toasts(s))
  /\ IsLine(s.closed, Closed(s))

\* `pending` is in the order it is served in.
InServingOrder(s) ==
  \A i, j \in Pending(s) :
    s.pending[i] < s.pending[j] <=> <<i, j>> \in ServedBefore(s)

\* The visible capacity holds.
WithinScreen(s) == Cardinality(Toasts(s)) <= s.limits.maxVisible

Tidy(s) == Lined(s) /\ WithinScreen(s) /\ InServingOrder(s)

\* `closed` has room for the records of the Notifications in S.
HasRoom(s, S) == Cardinality(S) <= ClosedCapacity(s.limits)

\* The records there should be in r: those of s, and of what is not live any
\* more, `new` being the Notifications that joined.
Records(s, new, r) == Closed(s) \cup ((Live(s) \cup new) \ Live(r))

\* They are in `closed`, when there is room for them.
RecordsWith(s, new, r) ==
  HasRoom(s, Records(s, new, r)) => Closed(r) = Records(s, new, r)
RecordsKept(s, r) == RecordsWith(s, {}, r)

\* The pending ones of a later state, in the same order and with the same
\* content, are in the order they are served in.
LEMMA ServingCarries ==
  ASSUME NEW s, Sound(s), NEW r, Sound(r), InServingOrder(s),
         Pending(r) \subseteq Pending(s),
         \A i \in Pending(r) : r.entries[i].draft = s.entries[i].draft,
         \A i, j \in Pending(r) :
           r.pending[i] < r.pending[j] <=> s.pending[i] < s.pending[j]
  PROVE  InServingOrder(r)
<1>1. Pending(r) \subseteq Live(r) /\ Pending(r) \subseteq Live(s)
  BY DEF Sound, Scheduled
<1>2. ASSUME NEW i \in Pending(r), NEW j \in Pending(r)
      PROVE  <<i, j>> \in ServedBefore(r) <=> <<i, j>> \in ServedBefore(s)
  <2>1. /\ i \in Live(r) /\ j \in Live(r) /\ i \in Live(s) /\ j \in Live(s)
        /\ r.entries[i].draft = s.entries[i].draft
        /\ r.entries[j].draft = s.entries[j].draft
    BY <1>1
  <2> QED BY <2>1 DEF ServedBefore
<1> QED BY <1>2 DEF InServingOrder

\* A part of `pending`, in a later state, has the order that it had.
LEMMA PendingPart ==
  ASSUME NEW s, IsState(s), NEW S, S \subseteq Pending(s),
         NEW r, r.pending = Retain(s.pending, S)
  PROVE  /\ Pending(r) = S
         /\ \A i, j \in S : r.pending[i] < r.pending[j] <=> s.pending[i] < s.pending[j]
         /\ IsLine(s.pending, Pending(s)) => IsLine(r.pending, S)
<1>1. Pending(s) \subseteq Ids /\ s.pending \in [Pending(s) -> Nat]
  BY MembersAreIds
<1>2. IsFiniteSet(Ids)
  BY IdsFinite
<1> PICK l : l = s.pending
  OBVIOUS
<1> PICK P : P = Pending(s)
  OBVIOUS
<1>3. P \subseteq Ids /\ l \in [P -> Nat] /\ S \subseteq P
  BY <1>1
<1>4. DOMAIN Retain(l, S) = S
  BY <1>2, <1>3, RetainPart
<1>5. \A i, j \in S : Retain(l, S)[i] < Retain(l, S)[j] <=> l[i] < l[j]
  BY <1>2, <1>3, RetainPart
<1>6. IsLine(l, P) => IsLine(Retain(l, S), S)
  BY <1>2, <1>3, RetainPart
<1> QED BY <1>4, <1>5, <1>6 DEF Pending

\* The same of `active_toasts`.
LEMMA ToastsPart ==
  ASSUME NEW s, IsState(s), NEW S, S \subseteq Toasts(s),
         NEW r, r.toasts = Retain(s.toasts, S)
  PROVE  /\ Toasts(r) = S
         /\ IsLine(s.toasts, Toasts(s)) => IsLine(r.toasts, S)
<1>1. Toasts(s) \subseteq Ids /\ s.toasts \in [Toasts(s) -> Nat]
  BY MembersAreIds
<1>2. IsFiniteSet(Ids)
  BY IdsFinite
<1> PICK l : l = s.toasts
  OBVIOUS
<1> PICK P : P = Toasts(s)
  OBVIOUS
<1>3. P \subseteq Ids /\ l \in [P -> Nat] /\ S \subseteq P
  BY <1>1
<1>4. DOMAIN Retain(l, S) = S
  BY <1>2, <1>3, RetainPart
<1>5. IsLine(l, P) => IsLine(Retain(l, S), S)
  BY <1>2, <1>3, RetainPart
<1> QED BY <1>4, <1>5 DEF Toasts

\* The fields that close_inner leaves.
LEMMA CloseInnerFields ==
  ASSUME NEW s, IsState(s), NEW reason, NEW batch
  PROVE  LET r   == CloseInner(s, batch, reason)
             all == Join(s.closed, batch)
         IN  /\ r.pending = Retain(s.pending, Pending(s) \ DOMAIN batch)
             /\ r.toasts = Retain(s.toasts, Toasts(s) \ DOMAIN batch)
             /\ r.closed = IF Cardinality(Closed(s)) > ClosedCapacity(s.limits)
                           THEN all
                           ELSE Retain(all, LastOf(all, DOMAIN all,
                                                   ClosedCapacity(s.limits)))
             /\ r.limits = s.limits
BY Zenon DEF IsState, Fields, CloseInner

\* Room for the records of two calls is room for those of each.
LEMMA RecordsChain ==
  ASSUME NEW s, Sound(s), NEW r, NEW t, NEW new, new \subseteq Ids,
         RecordsWith(s, {}, r), RecordsWith(r, new, t), r.limits = s.limits,
         Live(r) \subseteq Live(s), (Live(s) \ Live(r)) \cap Live(t) = {}
  PROVE  RecordsWith(s, new, t)
<1> SUFFICES ASSUME HasRoom(s, Records(s, new, t))
             PROVE  Closed(t) = Records(s, new, t)
  BY DEF RecordsWith
<1>1. Live(s) \subseteq Ids /\ Closed(s) \subseteq Ids /\ IsFiniteSet(Ids)
      /\ s.limits \in SchedulerLimits
  BY MembersAreIds, IdsFinite DEF Sound, IsState
<1>2. /\ Records(s, {}, r) \subseteq Records(s, new, t)
      /\ Records(s, new, t) \subseteq Ids
  BY <1>1 DEF Records
<1>3. /\ Cardinality(Records(s, {}, r)) \in Nat
      /\ Cardinality(Records(s, new, t)) \in Nat
      /\ Cardinality(Records(s, {}, r)) <= Cardinality(Records(s, new, t))
  BY <1>1, <1>2, PartCounts
<1>4. ClosedCapacity(s.limits) \in Nat
  BY <1>1 DEF SchedulerLimits, ClosedCapacity
<1>5. Closed(r) = Records(s, {}, r)
  BY <1>3, <1>4 DEF HasRoom, RecordsWith
<1>6. Records(r, new, t) = Records(s, new, t)
  BY <1>5 DEF Records
<1> QED BY <1>6 DEF HasRoom, RecordsWith

\* close_inner keeps the order, and drops no record while there is room.
LEMMA CloseInnerTidy ==
  ASSUME NEW s, Sound(s), NEW reason \in Reasons,
         NEW batch, DOMAIN batch \subseteq Live(s), IsLine(batch, DOMAIN batch)
  PROVE  LET r == CloseInner(s, batch, reason)
         IN  /\ Lined(s) => Lined(r)
             /\ WithinScreen(s) => WithinScreen(r)
             /\ InServingOrder(s) => InServingOrder(r)
             /\ Pending(r) = Pending(s) \ DOMAIN batch
             /\ Toasts(r) = Toasts(s) \ DOMAIN batch
             /\ Lined(s) => RecordsKept(s, r)
<1> DEFINE all == Join(s.closed, batch)
           D   == DOMAIN batch
<1>1. PICK r : r = CloseInner(s, batch, reason)
  OBVIOUS
<1>2. IsState(s) /\ Scheduled(s)
  BY DEF Sound
<1>3. /\ Live(s) \subseteq Ids /\ Pending(s) \subseteq Ids
      /\ Toasts(s) \subseteq Ids /\ Closed(s) \subseteq Ids
      /\ s.pending \in [Pending(s) -> Nat] /\ s.toasts \in [Toasts(s) -> Nat]
      /\ s.closed \in [Closed(s) -> Nat]
  BY <1>2, MembersAreIds
<1>4. IsFiniteSet(Ids) /\ D \subseteq Ids /\ batch \in [D -> Nat]
  <2>1. D \subseteq Ids
    BY <1>3
  <2>2. Cardinality(D) \in Nat
    BY <2>1, IdsFinite, CountIsNat
  <2> QED BY <2>1, <2>2, IdsFinite DEF IsLine
<1>5. /\ Sound(r) /\ Kept(s, r) /\ Live(r) = Live(s) \ D
  BY <1>1, <1>4, CloseInnerSound
<1>6. /\ r.pending = Retain(s.pending, Pending(s) \ D)
      /\ r.toasts = Retain(s.toasts, Toasts(s) \ D)
      /\ r.closed = IF Cardinality(Closed(s)) > ClosedCapacity(s.limits)
                    THEN all
                    ELSE Retain(all, LastOf(all, DOMAIN all,
                                            ClosedCapacity(s.limits)))
      /\ r.limits = s.limits
  BY <1>1, <1>2, CloseInnerFields
<1>7. PICK stay, shown : stay = Pending(s) \ D /\ shown = Toasts(s) \ D
  OBVIOUS
<1>8. /\ Pending(r) = stay /\ stay \subseteq Pending(s)
      /\ \A i, j \in stay : r.pending[i] < r.pending[j] <=> s.pending[i] < s.pending[j]
      /\ IsLine(s.pending, Pending(s)) => IsLine(r.pending, stay)
  BY <1>2, <1>6, <1>7, PendingPart
<1>9. /\ Toasts(r) = shown /\ shown \subseteq Toasts(s)
      /\ IsLine(s.toasts, Toasts(s)) => IsLine(r.toasts, shown)
  BY <1>2, <1>6, <1>7, ToastsPart
<1>10. Closed(s) \cap D = {}
  BY <1>2 DEF Scheduled
<1>11. DOMAIN all = Closed(s) \cup D
  BY <1>3 DEF Join
<1>12. ASSUME Lined(s)
       PROVE  Lined(r)
  <2>1. IsLine(r.pending, Pending(r)) /\ IsLine(r.toasts, Toasts(r))
    BY <1>8, <1>9, <1>12 DEF Lined
  <2>2. IsLine(all, Closed(s) \cup D)
    BY <1>3, <1>4, <1>10, <1>12, JoinLine DEF Lined
  <2>3. Closed(s) \cup D \subseteq Ids
    BY <1>3, <1>4
  <2> HIDE DEF all
  <2>4. \A S : IsLine(Retain(all, S), S \cap (Closed(s) \cup D))
    BY <1>4, <2>2, <2>3, RetainLine
  <2>5. \E S : IsLine(r.closed, S)
    BY <1>6, <2>2, <2>4
  <2>6. IsLine(r.closed, Closed(r))
    BY <2>5 DEF IsLine, Closed
  <2> QED BY <2>1, <2>6 DEF Lined
<1>13. ASSUME WithinScreen(s)
       PROVE  WithinScreen(r)
  <2>1. /\ Cardinality(Toasts(r)) <= Cardinality(Toasts(s))
        /\ Cardinality(Toasts(r)) \in Nat /\ Cardinality(Toasts(s)) \in Nat
    BY <1>3, <1>4, <1>9, PartCounts
  <2>2. s.limits.maxVisible \in Nat
    BY <1>2 DEF IsState, SchedulerLimits
  <2> QED BY <1>6, <1>13, <2>1, <2>2 DEF WithinScreen
<1>14. ASSUME InServingOrder(s)
       PROVE  InServingOrder(r)
  <2>1. \A i \in Pending(r) : r.entries[i].draft = s.entries[i].draft
    BY <1>5 DEF Sound, Scheduled, Kept
  <2> QED BY <1>5, <1>8, <1>14, <2>1, ServingCarries
<1>15. RecordsKept(s, r)
  <2>0. Records(s, {}, r) = Closed(s) \cup D
    BY <1>4, <1>5 DEF Records
  <2> SUFFICES ASSUME HasRoom(s, Closed(s) \cup D)
               PROVE  Closed(r) = Closed(s) \cup D
    BY <2>0 DEF RecordsKept, RecordsWith
  <2>1. /\ Cardinality(Closed(s)) \in Nat /\ Cardinality(Closed(s) \cup D) \in Nat
        /\ Cardinality(Closed(s)) <= Cardinality(Closed(s) \cup D)
    <3>1. Closed(s) \cup D \subseteq Ids /\ Closed(s) \subseteq Closed(s) \cup D
      BY <1>3, <1>4
    <3> QED BY <1>4, <3>1, PartCounts
  <2>2. ClosedCapacity(s.limits) \in Nat
    BY <1>2 DEF IsState, SchedulerLimits, ClosedCapacity
  <2>3. Cardinality(Closed(s) \cup D) <= ClosedCapacity(s.limits)
    BY DEF HasRoom
  <2>4. r.closed = Retain(all, LastOf(all, DOMAIN all, ClosedCapacity(s.limits)))
    BY <1>6, <2>1, <2>2, <2>3
  <2>5. Closed(s) \cup D \subseteq Ids
    BY <1>3, <1>4
  <2> HIDE DEF all
  <2>6. LastOf(all, DOMAIN all, ClosedCapacity(s.limits)) = DOMAIN all
    BY <1>4, <1>11, <2>2, <2>3, <2>5, LastOfAll
  <2>7. DOMAIN Retain(all, DOMAIN all) = DOMAIN all
    BY DEF Retain
  <2> QED BY <1>11, <2>4, <2>6, <2>7 DEF Closed
<1> HIDE DEF all
<1> QED BY <1>1, <1>7, <1>8, <1>9, <1>12, <1>13, <1>14, <1>15

\* Ranks differ: of two pending Notifications one is served before the other.
LEMMA ServingIsStrict ==
  ASSUME NEW s, IsState(s)
  PROVE  /\ \A i \in Live(s) : <<i, i>> \notin ServedBefore(s)
         /\ \A i, j \in Live(s) :
              i # j => <<i, j>> \in ServedBefore(s) \/ <<j, i>> \in ServedBefore(s)
         /\ \A i, j, k \in Live(s) :
              <<i, j>> \in ServedBefore(s) /\ <<j, k>> \in ServedBefore(s)
                => <<i, k>> \in ServedBefore(s)
<1>1. \A i \in Live(s) : i \in Nat /\ s.entries[i].draft.prio \in Nat
  BY MembersAreIds, IdsFinite DEF Entry, Draft
<1>2. \A i, j \in Live(s) :
        <<i, j>> \in ServedBefore(s) <=>
          LET p == s.entries[i].draft.prio
              q == s.entries[j].draft.prio
          IN  p > q \/ (p = q /\ i < j)
  BY DEF ServedBefore
<1> QED BY <1>1, <1>2

\* sort_pending puts the queue in order.
LEMMA SortPendingTidy ==
  ASSUME NEW s, Sound(s), Lined(s)
  PROVE  LET r == SortPending(s)
         IN  /\ Lined(r) /\ InServingOrder(r)
             /\ WithinScreen(s) => WithinScreen(r)
             /\ Pending(r) = Pending(s) /\ Toasts(r) = Toasts(s)
             /\ Closed(r) = Closed(s)
<1>1. PICK r : r = SortPending(s)
  OBVIOUS
<1>2. PICK line : line = Sorted(Pending(s), ServedBefore(s))
  OBVIOUS
<1>3. IsState(s) /\ Pending(s) \subseteq Live(s) /\ Pending(s) \subseteq Ids
  BY MembersAreIds DEF Sound, Scheduled
<1>4. /\ IsLine(line, Pending(s))
      /\ \A i, j \in Pending(s) : line[i] < line[j] <=> <<i, j>> \in ServedBefore(s)
  <2>1. /\ \A i \in Pending(s) : <<i, i>> \notin ServedBefore(s)
        /\ \A i, j \in Pending(s) :
             i # j => <<i, j>> \in ServedBefore(s) \/ <<j, i>> \in ServedBefore(s)
        /\ \A i, j, k \in Pending(s) :
             <<i, j>> \in ServedBefore(s) /\ <<j, k>> \in ServedBefore(s)
               => <<i, k>> \in ServedBefore(s)
    BY <1>3, ServingIsStrict
  <2> QED BY <1>2, <1>3, <2>1, IdsFinite, SortedLine
<1>5. /\ r.pending = line /\ r.toasts = s.toasts /\ r.closed = s.closed
      /\ r.entries = s.entries /\ r.limits = s.limits
  BY <1>1, <1>2, <1>3 DEF SortPending, IsState, Fields
<1>6. Pending(r) = Pending(s)
  BY <1>4, <1>5 DEF Pending, IsLine
<1>7. Toasts(r) = Toasts(s) /\ Closed(r) = Closed(s) /\ Live(r) = Live(s)
  BY <1>5 DEF Toasts, Closed, Live
<1>8. ServedBefore(r) = ServedBefore(s)
  BY <1>5, <1>7 DEF ServedBefore
<1>9. Lined(r) /\ InServingOrder(r) /\ (WithinScreen(s) => WithinScreen(r))
  BY <1>4, <1>5, <1>6, <1>7, <1>8 DEF Lined, InServingOrder, WithinScreen
<1> QED BY <1>1, <1>6, <1>7, <1>9

\* What a helper does to a tidy state.
Tended(s, r) == Tidy(s) => Tidy(r) /\ RecordsKept(s, r)

\* Two of them in a row.
LEMMA TendedChains ==
  ASSUME NEW s, Sound(s), NEW r, NEW t, Tended(s, r), Tended(r, t),
         r.limits = s.limits, Live(r) \subseteq Live(s), Live(t) \subseteq Live(r)
  PROVE  Tended(s, t)
<1>1. ASSUME Tidy(s) PROVE Tidy(t) /\ RecordsKept(r, t) /\ RecordsKept(s, r)
  BY <1>1 DEF Tended
<1>2. ASSUME RecordsKept(s, r), RecordsKept(r, t) PROVE RecordsKept(s, t)
  BY <1>2, RecordsChain DEF RecordsKept
<1> QED BY <1>1, <1>2 DEF Tended

\* A change of nothing but the clock, the display, the revisions, and of the
\* entries what is not their content.
LEMMA TendedCarries ==
  ASSUME NEW s, Sound(s), NEW r, Sound(r), Live(r) = Live(s),
         \A i \in Live(s) : r.entries[i].draft = s.entries[i].draft,
         r.pending = s.pending, r.toasts = s.toasts, r.closed = s.closed,
         r.limits = s.limits
  PROVE  Tended(s, r)
<1>1. /\ Pending(r) = Pending(s) /\ Toasts(r) = Toasts(s) /\ Closed(r) = Closed(s)
  BY DEF Pending, Toasts, Closed
<1>2. Lined(s) => Lined(r)
  BY <1>1 DEF Lined
<1>3. WithinScreen(s) => WithinScreen(r)
  BY <1>1 DEF WithinScreen
<1>4. InServingOrder(s) => InServingOrder(r)
  <2>1. \A i, j \in Pending(r) : r.pending[i] < r.pending[j] <=> s.pending[i] < s.pending[j]
    OBVIOUS
  <2>2. \A i \in Pending(r) : r.entries[i].draft = s.entries[i].draft
    BY <1>1 DEF Sound, Scheduled
  <2> QED BY <1>1, <2>1, <2>2, ServingCarries
<1>5. RecordsKept(s, r)
  BY <1>1 DEF RecordsKept, RecordsWith, Records
<1> QED BY <1>2, <1>3, <1>4, <1>5 DEF Tended, Tidy

\* The fields that the first part of rebalance leaves.
LEMMA PromoteFields ==
  ASSUME NEW s, IsState(s)
  PROVE  LET r     == Promote(s)
             gate  == NextAttention(s)
             moved == NextToasts(s, gate)
             next  == IF gate = {} THEN s.attention ELSE CHOOSE i \in gate : TRUE
         IN  /\ r.attention = next
             /\ r.toasts = Join(s.toasts, Retain(s.pending, moved))
             /\ r.pending = Retain(s.pending, Pending(s) \ ({next} \cup moved))
             /\ r.closed = s.closed /\ r.limits = s.limits /\ r.entries = s.entries
BY Zenon DEF IsState, Fields, Promote, Active

\* rebalance, first part: no more Toasts than there are places.
LEMMA PromoteTended ==
  ASSUME NEW s, Sound(s)
  PROVE  Tended(s, Promote(s)) /\ Live(Promote(s)) = Live(s)
<1> DEFINE gate == NextAttention(s)
<1>1. PICK r : r = Promote(s)
  OBVIOUS
<1>2. PICK moved : moved = NextToasts(s, gate)
  OBVIOUS
<1>3. PICK next : next = IF gate = {} THEN s.attention ELSE CHOOSE i \in gate : TRUE
  OBVIOUS
<1>4. /\ IsState(s) /\ Scheduled(s) /\ Sound(r)
      /\ Pending(s) \subseteq Ids /\ Toasts(s) \subseteq Ids
      /\ s.pending \in [Pending(s) -> Nat] /\ s.toasts \in [Toasts(s) -> Nat]
  BY <1>1, PromoteSound, MembersAreIds DEF Sound
<1>5. /\ r.toasts = Join(s.toasts, Retain(s.pending, moved))
      /\ r.pending = Retain(s.pending, Pending(s) \ ({next} \cup moved))
      /\ r.closed = s.closed /\ r.limits = s.limits /\ r.entries = s.entries
  BY <1>1, <1>2, <1>3, <1>4, PromoteFields
<1>6. /\ Live(r) = Live(s) /\ Closed(r) = Closed(s) /\ Kept(s, r)
  BY <1>5 DEF Live, Closed, Kept
<1>7. moved \subseteq Pending(s)
  BY <1>2 DEF NextToasts, FirstOf, Pending
<1>8. PICK stay : stay = Pending(s) \ ({next} \cup moved)
  OBVIOUS
<1>9. /\ Pending(r) = stay /\ stay \subseteq Pending(s)
      /\ \A i, j \in stay : r.pending[i] < r.pending[j] <=> s.pending[i] < s.pending[j]
      /\ IsLine(s.pending, Pending(s)) => IsLine(r.pending, stay)
  <2>1. stay \subseteq Pending(s) /\ r.pending = Retain(s.pending, stay)
    BY <1>5, <1>8
  <2> QED BY <1>4, <2>1, PendingPart
<1>10. PICK line : line = Retain(s.pending, moved)
  OBVIOUS
<1>11. DOMAIN line = moved /\ (Lined(s) => IsLine(line, moved))
  BY <1>4, <1>7, <1>10, IdsFinite, RetainPart DEF Lined
<1>12. Toasts(r) = Toasts(s) \cup moved
  BY <1>5, <1>10, <1>11 DEF Toasts, Join
<1>13. ASSUME Lined(s)
       PROVE  Lined(r)
  <2>1. Toasts(s) \cap moved = {} /\ moved \subseteq Ids
    BY <1>4, <1>7 DEF Scheduled
  <2>2. IsLine(s.toasts, Toasts(s)) /\ IsLine(line, moved)
    BY <1>11, <1>13 DEF Lined
  <2>3. IsLine(Join(s.toasts, line), Toasts(s) \cup moved)
    BY <1>4, <2>1, <2>2, IdsFinite, JoinLine
  <2> QED BY <1>5, <1>6, <1>9, <1>10, <1>12, <1>13, <2>3 DEF Lined
<1>14. ASSUME Lined(s), WithinScreen(s)
       PROVE  WithinScreen(r)
  <2> DEFINE room == s.limits.maxVisible - Cardinality(Toasts(s))
  <2>1. /\ s.limits.maxVisible \in Nat /\ Cardinality(Toasts(s)) \in Nat
        /\ IsFiniteSet(Toasts(s)) /\ IsFiniteSet(moved) /\ Cardinality(moved) \in Nat
    <3>1. moved \subseteq Ids
      BY <1>4, <1>7
    <3>2. s.limits.maxVisible \in Nat
      BY <1>4 DEF IsState, SchedulerLimits
    <3> QED BY <1>4, <3>1, <3>2, IdsFinite, CountIsNat
  <2>2. room \in Int /\ room >= 0
    BY <1>14, <2>1 DEF WithinScreen
  <2>3. Cardinality(moved) <= room
    <3>1. CASE moved = {}
      <4>1. Cardinality(moved) = 0
        BY <3>1, FS_EmptySet
      <4> QED BY <2>2, <4>1
    <3>2. CASE moved # {}
      <4>1. moved = FirstOf(s.pending, OfKind(s, "toast"), room)
        BY <1>2, <3>2 DEF NextToasts
      <4>2. IsLine(s.pending, Pending(s))
        BY <1>14 DEF Lined
      <4> HIDE DEF room
      <4> QED BY <1>4, <2>2, <4>1, <4>2, IdsFinite, FirstOfCount
    <3> QED BY <3>1, <3>2
  <2>4. Cardinality(Toasts(s) \cap moved) = 0
    <3>1. Toasts(s) \cap moved = {}
      BY <1>4, <1>7 DEF Scheduled
    <3> QED BY <3>1, FS_EmptySet
  <2>5. Cardinality(Toasts(s) \cup moved) =
          Cardinality(Toasts(s)) + Cardinality(moved) - Cardinality(Toasts(s) \cap moved)
    BY <2>1, FS_Union
  <2>6. Cardinality(Toasts(r)) = Cardinality(Toasts(s)) + Cardinality(moved)
    BY <1>12, <2>1, <2>4, <2>5
  <2>7. Cardinality(Toasts(r)) <= s.limits.maxVisible
    BY <2>1, <2>3, <2>6
  <2> QED BY <1>5, <2>7 DEF WithinScreen
<1>15. ASSUME InServingOrder(s)
       PROVE  InServingOrder(r)
  <2>1. \A i \in Pending(r) : r.entries[i].draft = s.entries[i].draft
    BY <1>5
  <2> QED BY <1>4, <1>6, <1>9, <1>15, <2>1, ServingCarries
<1>16. RecordsKept(s, r)
  BY <1>6 DEF RecordsKept, RecordsWith, Records
<1> QED BY <1>1, <1>6, <1>13, <1>14, <1>15, <1>16 DEF Tended, Tidy

\* rebalance, second part.
LEMMA PresentTended ==
  ASSUME NEW s, Sound(s), NEW now \in Nat
  PROVE  Tended(s, Present(s, now))
<1>1. PICK r : r = Present(s, now)
  OBVIOUS
<1>2. IsState(s) /\ Sound(r) /\ Kept(s, r) /\ Live(r) = Live(s) /\ SameFrame(s, r)
  BY <1>1, PresentSound DEF Sound
<1>3. r.pending = s.pending /\ r.toasts = s.toasts /\ r.closed = s.closed
  BY <1>1, <1>2 DEF Present, IsState, Fields
<1>4. \A i \in Live(s) : r.entries[i].draft = s.entries[i].draft
  BY <1>2 DEF Kept
<1> QED BY <1>1, <1>2, <1>3, <1>4, TendedCarries DEF SameFrame

\* rebalance as a whole.
LEMMA RebalanceTended ==
  ASSUME NEW s, Sound(s), NEW now \in Nat
  PROVE  Tended(s, Rebalance(s, now))
<1>1. PICK p : p = Promote(s)
  OBVIOUS
<1>2. Sound(p) /\ SameFrame(s, p) /\ Tended(s, p) /\ Live(p) = Live(s)
  BY <1>1, PromoteSound, PromoteTended
<1>3. Tended(p, Present(p, now)) /\ Live(Present(p, now)) = Live(p)
  BY <1>2, PresentTended, PresentSound
<1>4. Rebalance(s, now) = Present(p, now)
  BY <1>1 DEF Rebalance
<1> QED BY <1>2, <1>3, <1>4, TendedChains DEF SameFrame

\* close_inner.
LEMMA CloseInnerTended ==
  ASSUME NEW s, Sound(s), NEW reason \in Reasons,
         NEW batch, DOMAIN batch \subseteq Live(s), IsLine(batch, DOMAIN batch)
  PROVE  Tended(s, CloseInner(s, batch, reason))
BY CloseInnerTidy DEF Tended, Tidy

\* prepare_time.
LEMMA PrepareTimeTended ==
  ASSUME NEW s, Sound(s), NEW now \in Nat
  PROVE  /\ Tended(s, PrepareTime(s, now))
         /\ PrepareTime(s, now).limits = s.limits
<1> SUFFICES ASSUME Tidy(s)
             PROVE  /\ Tidy(PrepareTime(s, now)) /\ RecordsKept(s, PrepareTime(s, now))
                    /\ PrepareTime(s, now).limits = s.limits
  <2>1. PrepareTime(s, now).limits = s.limits
    <3> DEFINE begun == [s EXCEPT !.lastNow = now, !.revised = FALSE,
                                  !.contentRevised = FALSE, !.panicked = FALSE]
               expired == {i \in Toasts(s) : Expired(s.entries[i].timer, now)}
               closed  == CloseInner(begun, Retain(s.toasts, expired), "TimedOut")
    <3>1. DOMAIN begun = Fields /\ begun.limits = s.limits
      BY DEF Sound, IsState, Fields
    <3>2. PrepareTime(s, now) = Present(Promote(closed), now)
      BY DEF PrepareTime, Rebalance
    <3> HIDE DEF begun
    <3>3. DOMAIN closed = Fields /\ closed.limits = s.limits
      BY <3>1, Zenon DEF CloseInner, Fields
    <3> HIDE DEF closed
    <3>4. DOMAIN Promote(closed) = Fields /\ Promote(closed).limits = s.limits
      BY <3>3, Zenon DEF Promote, Fields
    <3> QED BY <3>2, <3>4 DEF Present, Fields
  <2> QED BY <2>1 DEF Tended
<1> DEFINE expired == {i \in Toasts(s) : Expired(s.entries[i].timer, now)}
<1>1. PICK begun : begun = [s EXCEPT !.lastNow = now, !.revised = FALSE,
                                     !.contentRevised = FALSE, !.panicked = FALSE]
  OBVIOUS
<1>2. PICK batch : batch = Retain(s.toasts, expired)
  OBVIOUS
<1>3. PICK closed : closed = CloseInner(begun, batch, "TimedOut")
  OBVIOUS
<1>4. /\ IsState(s) /\ Scheduled(s) /\ s.entries \in [Live(s) -> Entry]
      /\ Toasts(s) \subseteq Ids /\ s.toasts \in [Toasts(s) -> Nat]
  BY MembersAreIds DEF Sound
<1>5. /\ DOMAIN begun = Fields /\ begun.lastNow = now
      /\ begun.revised = FALSE /\ begun.contentRevised = FALSE
      /\ begun.panicked = FALSE
      /\ begun.entries = s.entries /\ begun.closed = s.closed
      /\ begun.closedAs = s.closedAs /\ begun.liveKeys = s.liveKeys
      /\ begun.pending = s.pending /\ begun.toasts = s.toasts
      /\ begun.attention = s.attention /\ begun.limits = s.limits
      /\ begun.available = s.available
      /\ begun.nextSequence = s.nextSequence /\ begun.nextNonce = s.nextNonce
  BY <1>1, <1>4 DEF IsState, Fields
<1>6. Sound(begun) /\ Live(begun) = Live(s)
  <2>1. /\ begun.limits \in SchedulerLimits /\ begun.available \in BOOLEAN
        /\ begun.nextNonce \in Nat /\ begun.lastNow \in Nat
    BY <1>4, <1>5 DEF IsState
  <2> QED BY <1>4, <1>5, <2>1, SoundCarries
<1>7. Tended(s, begun)
  BY <1>5, <1>6, TendedCarries
<1>8. DOMAIN batch \subseteq Live(begun) /\ IsLine(batch, DOMAIN batch)
  <2>1. expired \subseteq Toasts(s)
    OBVIOUS
  <2> HIDE DEF expired
  <2>2. DOMAIN batch = expired /\ IsLine(batch, expired)
    BY <1>2, <1>4, <2>1, IdsFinite, RetainPart DEF Tidy, Lined
  <2>3. Toasts(s) \subseteq Live(s)
    BY <1>4 DEF Scheduled
  <2> QED BY <1>6, <2>1, <2>2, <2>3
<1>9. Sound(closed) /\ SameFrame(begun, closed) /\ Tended(begun, closed)
      /\ Live(closed) \subseteq Live(begun)
  <2>1. batch \in [DOMAIN batch -> Nat]
    <3>1. DOMAIN batch \subseteq Ids
      BY <1>4, <1>6, <1>8, MembersAreIds
    <3>2. Cardinality(DOMAIN batch) \in Nat
      BY <3>1, IdsFinite, CountIsNat
    <3> QED BY <1>8, <3>2 DEF IsLine
  <2> QED BY <1>3, <1>6, <1>8, <2>1, CloseInnerSound, CloseInnerTended DEF Reasons, Kept
<1>10. PICK r : r = Rebalance(closed, now)
  OBVIOUS
<1>11. /\ Tended(closed, r) /\ Live(r) = Live(closed) /\ r.limits = closed.limits
  BY <1>9, <1>10, RebalanceTended, RebalanceSound DEF SameFrame
<1>12. PrepareTime(s, now) = r
  BY <1>1, <1>2, <1>3, <1>10 DEF PrepareTime
<1>13. Tended(s, closed)
  BY <1>5, <1>6, <1>7, <1>9, TendedChains
<1>14. Tended(s, r)
  BY <1>5, <1>6, <1>9, <1>11, <1>13, TendedChains DEF SameFrame
<1> QED BY <1>5, <1>9, <1>11, <1>12, <1>14 DEF Tended, SameFrame

\* enforce_pending_limit.
LEMMA EnforceTended ==
  ASSUME NEW s, Sound(s)
  PROVE  Tended(s, EnforcePendingLimit(s))
<1> SUFFICES ASSUME Tidy(s)
             PROVE  Tended(s, EnforcePendingLimit(s))
  BY DEF Tended
<1> DEFINE excess == Cardinality(Pending(s)) - s.limits.maxPending
<1>1. PICK losers : losers = Losers(s, excess)
  OBVIOUS
<1>2. PICK batch : batch = Reversed(Retain(s.pending, losers))
  OBVIOUS
<1>3. PICK c : c = CloseInner(s, batch, "RenderSuppressed")
  OBVIOUS
<1>4. PICK e : e = EnforcePendingLimit(s)
  OBVIOUS
<1>5. /\ IsState(s) /\ Scheduled(s) /\ Pending(s) \subseteq Ids
      /\ s.pending \in [Pending(s) -> Nat] /\ Live(s) \subseteq Ids
  BY MembersAreIds DEF Sound
<1>6. losers \subseteq Pending(s)
  BY <1>1 DEF Losers, LastOf, Pending
<1>7. DOMAIN batch = losers /\ IsLine(batch, losers)
  <2>1. IsLine(Retain(s.pending, losers), losers)
    BY <1>5, <1>6, IdsFinite, RetainPart DEF Tidy, Lined
  <2>2. losers \subseteq Ids
    BY <1>5, <1>6
  <2>3. IsLine(batch, losers)
    BY <1>2, <2>1, <2>2, IdsFinite, ReversedLine
  <2> QED BY <2>3 DEF IsLine
<1>8. DOMAIN batch \subseteq Live(s) /\ IsLine(batch, DOMAIN batch)
  BY <1>5, <1>6, <1>7 DEF Scheduled
<1>9. batch \in [DOMAIN batch -> Nat]
  <2>1. Cardinality(DOMAIN batch) \in Nat
    <3>1. DOMAIN batch \subseteq Ids
      BY <1>5, <1>8
    <3> QED BY <3>1, IdsFinite, CountIsNat
  <2> QED BY <1>8, <2>1 DEF IsLine
<1>10. Sound(c) /\ SameFrame(s, c) /\ Tended(s, c) /\ Live(c) \subseteq Live(s)
  BY <1>3, <1>8, <1>9, CloseInnerSound, CloseInnerTended DEF Reasons, Kept
<1>11. e = [c EXCEPT !.panicked = Cardinality(Pending(s) \cap Unpinned(s)) < excess]
  BY <1>1, <1>2, <1>3, <1>4 DEF EnforcePendingLimit
<1>12. Sound(e) /\ SameFrame(s, e)
  BY <1>4, EnforcePendingLimitSound
<1>13. /\ e.entries = c.entries /\ e.pending = c.pending /\ e.toasts = c.toasts
       /\ e.closed = c.closed /\ e.limits = c.limits
  <2>1. DOMAIN c = Fields
    BY <1>10 DEF Sound, IsState
  <2> QED BY <1>11, <2>1 DEF Fields
<1>14. Live(e) = Live(c)
  BY <1>13 DEF Live
<1>15. Tended(c, e)
  BY <1>10, <1>12, <1>13, <1>14, TendedCarries
<1> QED BY <1>4, <1>10, <1>14, <1>15, TendedChains DEF SameFrame

\* bump_content_revision.
LEMMA BumpTended ==
  ASSUME NEW s, Sound(s)
  PROVE  Tended(s, BumpContentRevision(s))
<1>1. PICK r : r = BumpContentRevision(s)
  OBVIOUS
<1>2. IsState(s) /\ Sound(r) /\ Kept(s, r) /\ Live(r) = Live(s) /\ SameFrame(s, r)
  BY <1>1, BumpSound DEF Sound
<1>3. r.pending = s.pending /\ r.toasts = s.toasts /\ r.closed = s.closed
  BY <1>1, <1>2 DEF BumpContentRevision, IsState, Fields
<1>4. \A i \in Live(s) : r.entries[i].draft = s.entries[i].draft
  BY <1>2 DEF Kept
<1> QED BY <1>1, <1>2, <1>3, <1>4, TendedCarries DEF SameFrame

\* What sort_pending and the steps behind it make of a state whose queue has
\* newcomers or new priorities.
Settled(s, r) ==
  Lined(s) /\ WithinScreen(s) => Tidy(r) /\ RecordsKept(s, r)

\* Two of them in a row.
LEMMA SettledChains ==
  ASSUME NEW s, Sound(s), NEW r, NEW t, Settled(s, r), Tended(r, t),
         r.limits = s.limits, Live(r) \subseteq Live(s), Live(t) \subseteq Live(r)
  PROVE  Settled(s, t)
<1>1. ASSUME RecordsKept(s, r), RecordsKept(r, t) PROVE RecordsKept(s, t)
  BY <1>1, RecordsChain DEF RecordsKept
<1> QED BY <1>1 DEF Settled, Tended

\* sort_pending, and then rebalance, enforce_pending_limit and the revisions.
LEMMA SortSettles ==
  ASSUME NEW s, Sound(s), NEW now \in Nat
  PROVE  LET sorted == SortPending(s)
             placed == Rebalance(sorted, now)
             full   == EnforcePendingLimit(placed)
         IN  \A r \in {sorted, placed, full, BumpContentRevision(sorted),
                       BumpContentRevision(placed), BumpContentRevision(full)} :
               Sound(r) /\ SameFrame(s, r) /\ Kept(s, r) /\ Settled(s, r)
<1> DEFINE Good(r) == Sound(r) /\ SameFrame(s, r) /\ Kept(s, r) /\ Settled(s, r)
<1>1. PICK sorted : sorted = SortPending(s)
  OBVIOUS
<1>2. PICK placed : placed = Rebalance(sorted, now)
  OBVIOUS
<1>3. PICK full : full = EnforcePendingLimit(placed)
  OBVIOUS
<1>4. Good(sorted)
  <2>1. Sound(sorted) /\ SameFrame(s, sorted) /\ Kept(s, sorted) /\ Live(sorted) = Live(s)
    BY <1>1, SortPendingSound DEF Kept
  <2>2. Settled(s, sorted)
    BY <1>1, <2>1, SortPendingTidy DEF Settled, Tidy, RecordsKept, RecordsWith, Records
  <2> QED BY <2>1, <2>2
<1>5. ASSUME NEW r, Good(r), NEW t, Sound(t), SameFrame(r, t), Kept(r, t), Tended(r, t)
      PROVE  Good(t)
  <2>1. SameFrame(s, t) /\ Kept(s, t)
    BY <1>5 DEF SameFrame, Kept
  <2>2. Settled(s, t)
    BY <1>5, SettledChains DEF SameFrame, Kept
  <2> QED BY <1>5, <2>1, <2>2
<1>6. Good(placed)
  BY <1>2, <1>4, <1>5, RebalanceSound, RebalanceTended
<1>7. Good(full)
  BY <1>3, <1>5, <1>6, EnforcePendingLimitSound, EnforceTended
<1>8. ASSUME NEW r, Good(r)
      PROVE  Good(BumpContentRevision(r))
  BY <1>5, <1>8, BumpSound, BumpTended
<1> HIDE DEF Good
<1>9. \A r \in {sorted, placed, full, BumpContentRevision(sorted),
                BumpContentRevision(placed), BumpContentRevision(full)} : Good(r)
  BY <1>4, <1>6, <1>7, <1>8
<1> QED BY <1>1, <1>2, <1>3, <1>9 DEF Good

\* What a method does to a tidy state.
LeavesTidy(s, new, r) == Tidy(s) => Tidy(r) /\ RecordsWith(s, new, r)

\* A method starts with prepare_time.
LEMMA LeavesChains ==
  ASSUME NEW s, Sound(s), NEW p, NEW r, NEW new, new \subseteq Ids,
         Tended(s, p), LeavesTidy(p, new, r),
         p.limits = s.limits, Live(p) \subseteq Live(s),
         (Live(s) \ Live(p)) \cap Live(r) = {}
  PROVE  LeavesTidy(s, new, r)
<1>1. ASSUME RecordsKept(s, p), RecordsWith(p, new, r) PROVE RecordsWith(s, new, r)
  BY <1>1, RecordsChain DEF RecordsKept
<1> QED BY <1>1 DEF LeavesTidy, Tended

\* The fields of a state in which submit has put a new Notification.
LEMMA InsertedFields ==
  ASSUME NEW s, IsState(s), NEW d
  PROVE  LET r == Inserted(s, d)
         IN  /\ r.pending = Push(s.pending, s.nextSequence)
             /\ r.toasts = s.toasts /\ r.closed = s.closed /\ r.limits = s.limits
             /\ r.nextSequence = s.nextSequence + 1
             /\ DOMAIN r.entries = Live(s) \cup {s.nextSequence}
             /\ \A i \in Live(s) : i # s.nextSequence => r.entries[i] = s.entries[i]
<1>1. DOMAIN s = Fields
  BY DEF IsState
<1>2. PICK id : id = s.nextSequence
  OBVIOUS
<1>3. PICK entry : entry = [draft |-> d, delivery |-> "pending",
                            timer |-> [left |-> d.timeout, since |-> None],
                            nonce |-> None]
  OBVIOUS
<1>4. PICK entries : entries = [i \in Live(s) \cup {id} |->
                                  IF i = id THEN entry ELSE s.entries[i]]
  OBVIOUS
<1>5. PICK keys : keys = [k \in Keys |-> IF k = d.key THEN id ELSE s.liveKeys[k]]
  OBVIOUS
<1>6. Inserted(s, d) = [s EXCEPT !.entries = entries, !.liveKeys = keys,
                                 !.pending = Push(s.pending, id),
                                 !.nextSequence = id + 1]
  BY <1>2, <1>3, <1>4, <1>5 DEF Inserted
<1>7. PICK r : r = Inserted(s, d)
  OBVIOUS
<1>8. /\ r.pending = Push(s.pending, id) /\ r.toasts = s.toasts
      /\ r.closed = s.closed /\ r.limits = s.limits /\ r.entries = entries
      /\ r.nextSequence = id + 1
  BY Zenon, <1>1, <1>6, <1>7 DEF Fields
<1>9. DOMAIN entries = Live(s) \cup {id} /\ \A i \in Live(s) : i # id => entries[i] = s.entries[i]
  BY <1>4
<1> QED BY <1>2, <1>7, <1>8, <1>9

\* submit of a new Notification.
LEMMA InsertLeaves ==
  ASSUME NEW s, Sound(s), NEW d \in Draft, NEW now \in Nat,
         d.key # None => s.liveKeys[d.key] = None,
         Insert(s, d, now).nextSequence <= MaxSubmits
  PROVE  /\ LeavesTidy(s, {s.nextSequence}, Insert(s, d, now))
         /\ Insert(s, d, now).nextSequence = s.nextSequence + 1
         /\ Insert(s, d, now).limits = s.limits
         /\ Live(Insert(s, d, now)) \subseteq Live(s) \cup {s.nextSequence}
         /\ \A i \in Live(Insert(s, d, now)) \cap Live(s) :
              Insert(s, d, now).entries[i].draft = s.entries[i].draft
<1>1. PICK added : added = Inserted(s, d)
  OBVIOUS
<1>2. PICK full : full = EnforcePendingLimit(Rebalance(SortPending(added), now))
  OBVIOUS
<1>3. PICK r : r = Insert(s, d, now)
  OBVIOUS
<1>4. PICK id : id = s.nextSequence
  OBVIOUS
<1>5. r = IF full.panicked THEN full ELSE BumpContentRevision(full)
  BY <1>1, <1>2, <1>3 DEF Insert, Inserted
<1>6. Sound(added)
  BY <1>1, InsertSound
<1>7. /\ added.pending = Push(s.pending, id) /\ added.toasts = s.toasts
      /\ added.closed = s.closed /\ added.limits = s.limits
      /\ added.nextSequence = id + 1
      /\ DOMAIN added.entries = Live(s) \cup {id}
      /\ \A i \in Live(s) : i # id => added.entries[i] = s.entries[i]
  <2>1. IsState(s)
    BY DEF Sound
  <2> QED BY <1>1, <1>4, <2>1, InsertedFields
<1>8. Sound(r) /\ SameFrame(added, r) /\ Kept(added, r) /\ Settled(added, r)
  BY <1>2, <1>5, <1>6, SortSettles
<1>9. Live(added) = Live(s) \cup {id} /\ Toasts(added) = Toasts(s) /\ Closed(added) = Closed(s)
  BY <1>7 DEF Live, Toasts, Closed
<1>10. /\ id \in Ids /\ id \notin Live(s) /\ Pending(s) \subseteq Live(s)
       /\ Pending(s) \subseteq Ids
  <2>1. id \in Ids
    BY <1>6, <1>9, MembersAreIds DEF Sound
  <2>2. \A i \in Live(s) : i \in Nat /\ i < id
    BY <1>4, IdsFinite, MembersAreIds DEF Sound, Numbered
  <2>3. Pending(s) \subseteq Live(s) /\ Pending(s) \subseteq Ids
    BY MembersAreIds DEF Sound, Scheduled
  <2> QED BY <2>1, <2>2, <2>3, IdsFinite
<1>11. ASSUME Tidy(s)
       PROVE  Lined(added) /\ WithinScreen(added)
  <2>1. IsLine(s.pending, Pending(s)) /\ IsLine(s.toasts, Toasts(s)) /\ IsLine(s.closed, Closed(s))
    BY <1>11 DEF Tidy, Lined
  <2>2. IsLine(added.pending, Pending(s) \cup {id})
    BY <1>7, <1>10, <2>1, IdsFinite, PushLine
  <2>3. Pending(added) = Pending(s) \cup {id}
    BY <2>2 DEF IsLine, Pending
  <2> QED BY <1>7, <1>9, <1>11, <2>1, <2>2, <2>3 DEF Tidy, Lined, WithinScreen
<1>12. LeavesTidy(s, {id}, r)
  <2>1. Records(added, {}, r) = Records(s, {id}, r) /\ added.limits = s.limits
    BY <1>7, <1>9 DEF Records
  <2>2. RecordsKept(added, r) => RecordsWith(s, {id}, r)
    BY <2>1 DEF RecordsKept, RecordsWith, HasRoom
  <2> QED BY <1>8, <1>11, <2>2 DEF LeavesTidy, Settled
<1>13. Live(r) \subseteq Live(s) \cup {id}
  BY <1>8, <1>9 DEF Kept
<1>14. \A i \in Live(r) \cap Live(s) : r.entries[i].draft = s.entries[i].draft
  BY <1>7, <1>8, <1>10 DEF Kept
<1>15. r.nextSequence = id + 1 /\ r.limits = s.limits
  BY <1>7, <1>8 DEF SameFrame
<1> QED BY <1>3, <1>4, <1>12, <1>13, <1>14, <1>15

\* The fields of a state in which a Notification went back to the queue.
LEMMA RequeueFields ==
  ASSUME NEW s, DOMAIN s = Fields, NEW i
  PROVE  LET r == Requeue(s, i)
         IN  /\ r.pending = Push(Retain(s.pending, Pending(s) \ {i}), i)
             /\ r.toasts = Retain(s.toasts, Toasts(s) \ {i})
             /\ r.closed = s.closed /\ r.limits = s.limits
             /\ r.entries = s.entries
BY Zenon DEF Requeue, Fields

\* New content and, when the Presentation changes, a place in the queue.
LEMMA QueuedLined ==
  ASSUME NEW s, Sound(s), NEW i \in Live(s), NEW d \in Draft, NEW now \in Nat
  PROVE  LET q == Queued(s, i, d, now)
         IN  /\ Lined(s) /\ WithinScreen(s) => Lined(q) /\ WithinScreen(q)
             /\ Live(q) = Live(s) /\ Closed(q) = Closed(s) /\ q.limits = s.limits
             /\ \A j \in Live(s) \ {i} : q.entries[j] = s.entries[j]
             /\ q.entries[i].draft = d
<1>1. PICK t \in Timer : t = Restart(d.timeout, now, ToastTimerShouldRun(s, i))
  BY RestartType DEF Draft, ToastTimerShouldRun
<1>2. PICK changed : changed = Rewritten(s, i, d, t)
  OBVIOUS
<1>3. PICK q : q = Queued(s, i, d, now)
  OBVIOUS
<1>4. q = IF d.pres = s.entries[i].draft.pres THEN changed ELSE Requeue(changed, i)
  BY <1>1, <1>2, <1>3 DEF Queued
<1>5. /\ DOMAIN changed = Fields
      /\ \A f \in Fields \ {"entries"} : changed[f] = s[f]
      /\ changed.entries \in [Live(s) -> Entry] /\ changed.entries[i].draft = d
      /\ \A j \in Live(s) \ {i} : changed.entries[j] = s.entries[j]
  BY <1>2, RewriteEntry
<1>6. /\ changed.pending = s.pending /\ changed.toasts = s.toasts
      /\ changed.closed = s.closed /\ changed.limits = s.limits
      /\ Live(changed) = Live(s) /\ Pending(changed) = Pending(s)
      /\ Toasts(changed) = Toasts(s) /\ Closed(changed) = Closed(s)
  BY <1>5 DEF Fields, Live, Pending, Toasts, Closed
<1>7. CASE d.pres = s.entries[i].draft.pres
  <2>1. q = changed
    BY <1>4, <1>7
  <2> QED BY <1>3, <1>5, <1>6, <2>1 DEF Lined, WithinScreen
<1>8. CASE d.pres # s.entries[i].draft.pres
  <2>1. PICK rest, stay : rest = Pending(s) \ {i} /\ stay = Toasts(s) \ {i}
    OBVIOUS
  <2>2. PICK line : line = Retain(s.pending, rest)
    OBVIOUS
  <2>3. /\ q.pending = Push(line, i) /\ q.toasts = Retain(s.toasts, stay)
        /\ q.closed = s.closed /\ q.limits = s.limits /\ q.entries = changed.entries
    BY <1>4, <1>5, <1>6, <1>8, <2>1, <2>2, RequeueFields
  <2>4. Live(q) = Live(s) /\ Closed(q) = Closed(s)
    BY <1>6, <2>3 DEF Live, Closed
  <2>5. /\ IsState(s) /\ Pending(s) \subseteq Ids /\ Toasts(s) \subseteq Ids
        /\ s.pending \in [Pending(s) -> Nat] /\ i \in Ids
    BY MembersAreIds DEF Sound
  <2>6. ASSUME Lined(s), WithinScreen(s)
        PROVE  Lined(q) /\ WithinScreen(q)
    <3>1. IsLine(s.pending, Pending(s)) /\ IsLine(s.toasts, Toasts(s)) /\ IsLine(s.closed, Closed(s))
      BY <2>6 DEF Lined
    <3>2. IsLine(line, rest)
      BY <2>1, <2>2, <2>5, <3>1, IdsFinite, RetainPart
    <3>3. IsLine(q.pending, rest \cup {i})
      <4>1. rest \subseteq Ids /\ i \in Ids \ rest
        BY <2>1, <2>5
      <4>2. IsLine(Push(line, i), rest \cup {i})
        BY <3>2, <4>1, IdsFinite, PushLine
      <4> QED BY <2>3, <4>2
    <3>4. Toasts(q) = stay /\ IsLine(q.toasts, stay)
      <4>1. stay \subseteq Toasts(s)
        BY <2>1
      <4> QED BY <2>3, <2>5, <3>1, <4>1, ToastsPart
    <3>5. Pending(q) = rest \cup {i}
      BY <3>3 DEF IsLine, Pending
    <3>6. WithinScreen(q)
      <4>1. /\ Cardinality(stay) <= Cardinality(Toasts(s))
            /\ Cardinality(stay) \in Nat /\ Cardinality(Toasts(s)) \in Nat
        BY <2>1, <2>5, IdsFinite, PartCounts
      <4>2. s.limits.maxVisible \in Nat
        BY <2>5 DEF IsState, SchedulerLimits
      <4> QED BY <2>3, <2>6, <3>4, <4>1, <4>2 DEF WithinScreen
    <3> QED BY <2>3, <2>4, <3>1, <3>3, <3>4, <3>5, <3>6 DEF Lined
  <2> QED BY <1>3, <1>5, <2>3, <2>4, <2>6
<1> QED BY <1>7, <1>8

\* submit of new content for a live key.
LEMMA ReplaceLeaves ==
  ASSUME NEW s, Sound(s), NEW i \in Live(s), NEW d \in Draft, NEW now \in Nat,
         d.key = s.entries[i].draft.key
  PROVE  /\ LeavesTidy(s, {}, Replace(s, i, d, now))
         /\ \A j \in Live(Replace(s, i, d, now)) :
              Replace(s, i, d, now).entries[j].draft =
                IF j = i THEN d ELSE s.entries[j].draft
<1>1. PICK q : q = Queued(s, i, d, now)
  OBVIOUS
<1>2. PICK r : r = Replace(s, i, d, now)
  OBVIOUS
<1>3. r = BumpContentRevision(Rebalance(SortPending(q), now))
  BY <1>1, <1>2 DEF Replace, Queued, Rewritten
<1>4. Sound(q)
  BY <1>1, ReplaceSound
<1>5. /\ Lined(s) /\ WithinScreen(s) => Lined(q) /\ WithinScreen(q)
      /\ Live(q) = Live(s) /\ Closed(q) = Closed(s) /\ q.limits = s.limits
      /\ \A j \in Live(s) \ {i} : q.entries[j] = s.entries[j]
      /\ q.entries[i].draft = d
  BY <1>1, QueuedLined
<1>6. SameFrame(q, r) /\ Kept(q, r) /\ Settled(q, r)
  BY <1>3, <1>4, SortSettles
<1>7. LeavesTidy(s, {}, r)
  <2>1. Records(q, {}, r) = Records(s, {}, r) /\ q.limits = s.limits
    BY <1>5 DEF Records
  <2>2. RecordsKept(q, r) => RecordsWith(s, {}, r)
    BY <2>1 DEF RecordsKept, RecordsWith, HasRoom
  <2> QED BY <1>5, <1>6, <2>2 DEF LeavesTidy, Tidy, Settled
<1>8. \A j \in Live(r) : r.entries[j].draft = IF j = i THEN d ELSE s.entries[j].draft
  BY <1>5, <1>6 DEF Kept
<1> QED BY <1>2, <1>7, <1>8

\* The Notification that a submission adds, if it adds one.
Joined(s, r) == IF r.nextSequence = s.nextSequence THEN {} ELSE {s.nextSequence}

\* The Notification that a submission is about.
Addressed(p, d) ==
  IF d.key = None \/ p.liveKeys[d.key] = None THEN p.nextSequence
  ELSE p.liveKeys[d.key]

\* prepare_time, as the start of a method.
LEMMA PreparedLeaves ==
  ASSUME NEW s, Sound(s), NEW now \in Nat
  PROVE  LET p == PrepareTime(s, now)
         IN  /\ Sound(p) /\ Kept(s, p) /\ Tended(s, p) /\ LeavesTidy(s, {}, p)
             /\ p.limits = s.limits /\ p.nextSequence = s.nextSequence
<1>1. PICK p : p = PrepareTime(s, now)
  OBVIOUS
<1>2. Sound(p) /\ Kept(s, p) /\ p.nextSequence = s.nextSequence
  BY <1>1, PrepareTimeSound
<1>3. Tended(s, p) /\ p.limits = s.limits
  BY <1>1, PrepareTimeTended
<1>4. LeavesTidy(s, {}, p)
  BY <1>3 DEF LeavesTidy, Tended, RecordsKept
<1> QED BY <1>1, <1>2, <1>3, <1>4

\* submit.
LEMMA SubmitLeaves ==
  ASSUME NEW s, Sound(s), NEW d \in Draft, NEW now \in Nat,
         Submit(s, d, now).nextSequence <= MaxSubmits
  PROVE  LET r == Submit(s, d, now)
         IN  /\ LeavesTidy(s, Joined(s, r), r)
             /\ r.limits = s.limits
             /\ r.nextSequence \in {s.nextSequence, s.nextSequence + 1}
             /\ Live(r) \subseteq Live(s) \cup Joined(s, r)
             /\ \A j \in Live(r) :
                  \/ j = Addressed(PrepareTime(s, now), d)
                  \/ j \in Live(s) /\ r.entries[j].draft = s.entries[j].draft
<1>1. PICK p : p = PrepareTime(s, now)
  OBVIOUS
<1>2. PICK i : i = IF d.key = None THEN None ELSE p.liveKeys[d.key]
  OBVIOUS
<1>3. PICK r : r = Submit(s, d, now)
  OBVIOUS
<1>4. /\ Sound(p) /\ Kept(s, p) /\ Tended(s, p) /\ LeavesTidy(s, {}, p)
      /\ p.limits = s.limits /\ p.nextSequence = s.nextSequence
  BY <1>1, PreparedLeaves
<1>5. r = IF i = None THEN Insert(p, d, now)
          ELSE IF p.entries[i].draft = d THEN p ELSE Replace(p, i, d, now)
  BY <1>1, <1>2, <1>3 DEF Submit
<1>6. i # None => i \in Live(p) /\ d.key = p.entries[i].draft.key
  BY <1>2, <1>4 DEF Sound, KeysIndexed, Draft
<1>7. /\ r.nextSequence <= MaxSubmits /\ Live(p) \subseteq Live(s)
      /\ p.nextSequence \in Nat
      /\ \A j \in Live(s) : j \in Nat /\ j < s.nextSequence
  BY <1>3, <1>4, MembersAreIds, IdsFinite DEF Kept, Sound, IsState, Numbered
<1>8. PICK target : target = Addressed(p, d)
  OBVIOUS
<1>9. /\ i = None => target = s.nextSequence
      /\ i # None => target = i
  BY <1>2, <1>4, <1>8 DEF Addressed
<1>10. CASE i = None
  <2>1. r = Insert(p, d, now) /\ (d.key # None => p.liveKeys[d.key] = None)
    BY <1>2, <1>5, <1>10
  <2>2. /\ LeavesTidy(p, {p.nextSequence}, r) /\ r.nextSequence = p.nextSequence + 1
        /\ r.limits = p.limits /\ Live(r) \subseteq Live(p) \cup {p.nextSequence}
        /\ \A j \in Live(r) \cap Live(p) : r.entries[j].draft = p.entries[j].draft
    BY <1>4, <1>7, <2>1, InsertLeaves
  <2>3. PICK id : id = s.nextSequence
    OBVIOUS
  <2>4. id \in Nat /\ r.nextSequence = id + 1
    BY <1>4, <1>7, <2>2, <2>3
  <2>5. Joined(s, r) = {id}
    BY <2>3, <2>4 DEF Joined
  <2>6. (Live(s) \ Live(p)) \cap Live(r) = {}
    BY <1>4, <1>7, <2>2
  <2>7. LeavesTidy(p, {id}, r) /\ Live(r) \subseteq Live(p) \cup {id}
    BY <1>4, <2>2, <2>3
  <2>8. LeavesTidy(s, {id}, r)
    <3>1. id \in Ids
      BY <1>7, <2>4, SchedulerConstants DEF Ids
    <3> QED BY <1>4, <1>7, <2>6, <2>7, <3>1, LeavesChains
  <2>9. \A j \in Live(r) :
          \/ j = target
          \/ j \in Live(s) /\ r.entries[j].draft = s.entries[j].draft
    BY <1>4, <1>7, <1>10, <1>9, <2>2 DEF Kept
  <2> QED BY <1>1, <1>3, <1>4, <1>7, <1>8, <2>2, <2>3, <2>4, <2>5, <2>7, <2>8, <2>9
<1>11. CASE i # None /\ p.entries[i].draft = d
  <2>1. r = p
    BY <1>5, <1>11
  <2>2. \A j \in Live(r) : j \in Live(s) /\ r.entries[j].draft = s.entries[j].draft
    BY <1>4, <2>1 DEF Kept
  <2> QED BY <1>1, <1>3, <1>4, <1>7, <1>8, <2>1, <2>2 DEF Joined
<1>12. CASE i # None /\ p.entries[i].draft # d
  <2>1. r = Replace(p, i, d, now)
    BY <1>5, <1>12
  <2>2. /\ SameFrame(p, r) /\ Live(r) \subseteq Live(p) /\ LeavesTidy(p, {}, r)
    BY <1>4, <1>6, <1>12, <2>1, ReplaceSound, ReplaceLeaves
  <2>3. (Live(s) \ Live(p)) \cap Live(r) = {}
    BY <2>2
  <2>4. LeavesTidy(s, {}, r)
    BY <1>4, <1>7, <2>2, <2>3, LeavesChains
  <2>5. \A j \in Live(r) :
          \/ j = target
          \/ j \in Live(s) /\ r.entries[j].draft = s.entries[j].draft
    <3>1. \A j \in Live(r) : r.entries[j].draft = IF j = i THEN d ELSE p.entries[j].draft
      BY <1>4, <1>6, <1>12, <2>1, ReplaceLeaves
    <3> QED BY <1>4, <1>12, <1>9, <2>2, <3>1 DEF Kept
  <2> QED BY <1>1, <1>3, <1>4, <1>7, <1>8, <2>2, <2>4, <2>5 DEF Joined, SameFrame
<1> QED BY <1>10, <1>11, <1>12

\* A method that adds no Notification.
Tends(s, r) ==
  /\ LeavesTidy(s, {}, r) /\ r.limits = s.limits
  /\ r.nextSequence = s.nextSequence /\ Live(r) \subseteq Live(s)

\* ... is prepare_time and what it does then.
LEMMA PreparedTends ==
  ASSUME NEW s, Sound(s), NEW now \in Nat, NEW p, p = PrepareTime(s, now),
         NEW r, LeavesTidy(p, {}, r), r.limits = p.limits,
         r.nextSequence = p.nextSequence, Live(r) \subseteq Live(p)
  PROVE  Tends(s, r)
<1>1. /\ Kept(s, p) /\ Tended(s, p) /\ p.limits = s.limits
      /\ p.nextSequence = s.nextSequence
  BY PreparedLeaves
<1>2. Live(p) \subseteq Live(s) /\ (Live(s) \ Live(p)) \cap Live(r) = {}
  BY <1>1 DEF Kept
<1> QED BY <1>1, <1>2, LeavesChains DEF Tends

\* advance.
LEMMA AdvanceTends ==
  ASSUME NEW s, Sound(s), NEW now \in Nat
  PROVE  Tends(s, Advance(s, now))
BY PreparedLeaves DEF Advance, Tends, Kept

\* update and update_by_key.
LEMMA ApplyUpdateTends ==
  ASSUME NEW s, Sound(s), NEW i, NEW u \in Update, NEW now \in Nat
  PROVE  /\ Tends(s, ApplyUpdate(s, i, u, now))
         /\ \A j \in Live(ApplyUpdate(s, i, u, now)) \ {i} :
              ApplyUpdate(s, i, u, now).entries[j].draft = s.entries[j].draft
<1>1. PICK p : p = PrepareTime(s, now)
  OBVIOUS
<1>2. PICK r : r = ApplyUpdate(s, i, u, now)
  OBVIOUS
<1>3. PICK d : d = Updated(p.entries[i].draft, u)
  OBVIOUS
<1>4. /\ Sound(p) /\ Kept(s, p) /\ LeavesTidy(s, {}, p) /\ p.limits = s.limits
      /\ p.nextSequence = s.nextSequence
  BY <1>1, PreparedLeaves
<1>5. CASE i \notin Live(p) \/ d = p.entries[i].draft
  <2>1. r = p
    BY <1>1, <1>2, <1>3, <1>5 DEF ApplyUpdate
  <2> QED BY <1>2, <1>4, <2>1 DEF Tends, Kept
<1>6. CASE i \in Live(p) /\ d # p.entries[i].draft
  <2>1. p.entries \in [Live(p) -> Entry] /\ IsState(p)
    BY <1>4, MembersAreIds DEF Sound
  <2>2. /\ d \in Draft /\ d.key = p.entries[i].draft.key
        /\ d.pres = p.entries[i].draft.pres
    BY <1>3, <1>6, <2>1, UpdatedIsDraft DEF Entry
  <2>3. PICK t \in Timer : t = Restart(d.timeout, now, ToastTimerShouldRun(p, i))
    BY <2>2, RestartType DEF Draft, ToastTimerShouldRun
  <2>4. PICK c : c = Rewritten(p, i, d, t)
    OBVIOUS
  <2>5. r = BumpContentRevision(SortPending(c))
    BY <1>1, <1>2, <1>3, <1>6, <2>3, <2>4 DEF ApplyUpdate, Rewritten
  <2>6. /\ DOMAIN c = Fields
        /\ \A f \in Fields \ {"entries"} : c[f] = p[f]
        /\ c.entries \in [Live(p) -> Entry]
        /\ c.entries[i].draft = d
        /\ \A j \in Live(p) \ {i} : c.entries[j] = p.entries[j]
    BY <1>4, <1>6, <2>2, <2>4, RewriteEntry
  <2>7. /\ SameFrame(p, c) /\ Live(c) = Live(p)
        /\ c.closed = p.closed /\ c.closedAs = p.closedAs
        /\ c.liveKeys = p.liveKeys /\ c.pending = p.pending
        /\ c.toasts = p.toasts /\ c.attention = p.attention
        /\ c.revised = p.revised /\ c.panicked = p.panicked
        /\ c.contentRevised = p.contentRevised
    BY <2>6 DEF Fields, SameFrame, Live
  <2>8. Sound(c)
    BY <1>4, <2>1, <2>2, <2>6, <2>7, SoundCarries DEF IsState, SameFrame
  <2>9. Pending(c) = Pending(p) /\ Toasts(c) = Toasts(p) /\ Closed(c) = Closed(p)
    BY <2>7 DEF Pending, Toasts, Closed
  <2>10. Lined(p) /\ WithinScreen(p) => Lined(c) /\ WithinScreen(c)
    BY <2>7, <2>9 DEF Lined, WithinScreen, SameFrame
  <2>11. SameFrame(c, r) /\ Kept(c, r) /\ Settled(c, r)
    BY <2>5, <2>8, SortSettles
  <2>12. LeavesTidy(p, {}, r)
    <3>1. Records(c, {}, r) = Records(p, {}, r) /\ c.limits = p.limits
      BY <2>7, <2>9 DEF Records, SameFrame
    <3>2. RecordsKept(c, r) => RecordsWith(p, {}, r)
      BY <3>1 DEF RecordsKept, RecordsWith, HasRoom
    <3> QED BY <2>10, <2>11, <3>2 DEF LeavesTidy, Tidy, Settled
  <2>13. r.limits = p.limits /\ r.nextSequence = p.nextSequence /\ Live(r) \subseteq Live(p)
    BY <2>7, <2>11 DEF SameFrame, Kept
  <2>14. Tends(s, r)
    BY <1>1, <2>12, <2>13, PreparedTends
  <2>15. \A j \in Live(r) \ {i} : r.entries[j].draft = s.entries[j].draft
    BY <1>4, <2>6, <2>7, <2>11 DEF Kept
  <2> QED BY <1>2, <2>14, <2>15
<1> QED BY <1>5, <1>6

\* A line of one.
LEMMA SingleLine ==
  ASSUME NEW i
  PROVE  IsLine([j \in {i} |-> 1], {i}) /\ [j \in {i} |-> 1] \in [{i} -> Nat]
<1>1. Cardinality({i}) = 1
  BY FS_Singleton
<1> QED BY <1>1 DEF IsLine

\* close.
LEMMA CloseTends ==
  ASSUME NEW s, Sound(s), NEW i, NEW reason \in Reasons, NEW now \in Nat
  PROVE  /\ Tends(s, Close(s, i, reason, now))
         /\ Kept(s, Close(s, i, reason, now))
<1>1. PICK p : p = PrepareTime(s, now)
  OBVIOUS
<1>2. PICK batch : batch = [j \in {i} |-> 1]
  OBVIOUS
<1>3. PICK c : c = CloseInner(p, batch, reason)
  OBVIOUS
<1>4. PICK r : r = Close(s, i, reason, now)
  OBVIOUS
<1>5. r = IF i \notin Live(p) THEN p ELSE Rebalance(c, now)
  BY <1>1, <1>2, <1>3, <1>4 DEF Close, CloseOne
<1>6. /\ Sound(p) /\ Kept(s, p) /\ LeavesTidy(s, {}, p) /\ p.limits = s.limits
      /\ p.nextSequence = s.nextSequence
  BY <1>1, PreparedLeaves
<1>7. CASE i \notin Live(p)
  BY <1>4, <1>5, <1>6, <1>7 DEF Tends, Kept
<1>8. CASE i \in Live(p)
  <2>1. /\ DOMAIN batch = {i} /\ IsLine(batch, {i}) /\ batch \in [{i} -> Nat]
    BY <1>2, SingleLine
  <2>2. DOMAIN batch \subseteq Live(p)
    BY <1>8, <2>1
  <2>3. /\ Sound(c) /\ SameFrame(p, c) /\ Kept(p, c) /\ Tended(p, c)
    BY <1>3, <1>6, <2>1, <2>2, CloseInnerSound, CloseInnerTended
  <2>4. r = Rebalance(c, now)
    BY <1>5, <1>8
  <2>5. SameFrame(c, r) /\ Kept(c, r) /\ Tended(c, r)
    BY <2>3, <2>4, RebalanceSound, RebalanceTended
  <2>6. Tended(p, r) /\ Kept(p, r) /\ SameFrame(p, r)
    BY <1>6, <2>3, <2>5, TendedChains DEF SameFrame, Kept
  <2>7. LeavesTidy(p, {}, r)
    BY <2>6 DEF LeavesTidy, Tended, RecordsKept
  <2>8. Tends(s, r)
    BY <1>1, <2>6, <2>7, PreparedTends DEF SameFrame, Kept
  <2> QED BY <1>4, <1>6, <2>6, <2>8 DEF Kept
<1> QED BY <1>7, <1>8

\* shutdown.
LEMMA ShutdownTends ==
  ASSUME NEW s, Sound(s), NEW order, IsLine(order, Live(s)),
         NEW reason \in Reasons, NEW now \in Nat
  PROVE  /\ Tends(s, Shutdown(s, order, reason, now))
         /\ Live(Shutdown(s, order, reason, now)) = {}
<1>1. PICK p : p = PrepareTime(s, now)
  OBVIOUS
<1>2. PICK batch : batch = Retain(order, Live(p))
  OBVIOUS
<1>3. PICK r : r = Shutdown(s, order, reason, now)
  OBVIOUS
<1>4. r = CloseInner(p, batch, reason)
  BY <1>1, <1>2, <1>3 DEF Shutdown
<1>5. /\ Sound(p) /\ Kept(s, p) /\ Live(p) \subseteq Live(s) /\ Live(s) \subseteq Ids
  BY <1>1, PreparedLeaves, MembersAreIds DEF Kept, Sound
<1>6. IsLine(batch, Live(p))
  <2>1. IsLine(batch, Live(p) \cap Live(s))
    BY <1>2, <1>5, IdsFinite, RetainLine
  <2>2. Live(p) \cap Live(s) = Live(p)
    BY <1>5
  <2> QED BY <2>1, <2>2
<1>7. DOMAIN batch = Live(p) /\ batch \in [DOMAIN batch -> Nat]
  <2>1. Cardinality(Live(p)) \in Nat
    BY <1>5, IdsFinite, CountIsNat
  <2> QED BY <1>6, <2>1 DEF IsLine
<1>8. /\ SameFrame(p, r) /\ Tended(p, r) /\ Live(r) = Live(p) \ DOMAIN batch
  BY <1>4, <1>5, <1>6, <1>7, CloseInnerSound, CloseInnerTended
<1>9. Live(r) = {}
  BY <1>7, <1>8
<1>10. LeavesTidy(p, {}, r)
  BY <1>8 DEF LeavesTidy, Tended, RecordsKept
<1>11. Tends(s, r)
  BY <1>1, <1>8, <1>9, <1>10, PreparedTends DEF SameFrame
<1> QED BY <1>3, <1>9, <1>11

\* set_display_available.
LEMMA SetDisplayAvailableTends ==
  ASSUME NEW s, Sound(s), NEW available \in BOOLEAN, NEW now \in Nat
  PROVE  /\ Tends(s, SetDisplayAvailable(s, available, now))
         /\ Kept(s, SetDisplayAvailable(s, available, now))
<1>1. PICK p : p = PrepareTime(s, now)
  OBVIOUS
<1>2. PICK set : set = BumpRevision([p EXCEPT !.available = available])
  OBVIOUS
<1>3. PICK q : q = IF p.available = available THEN p ELSE set
  OBVIOUS
<1>4. PICK r : r = SetDisplayAvailable(s, available, now)
  OBVIOUS
<1>5. r = Rebalance(q, now)
  BY <1>1, <1>2, <1>3, <1>4 DEF SetDisplayAvailable
<1>6. Sound(p) /\ Kept(s, p)
  BY <1>1, PreparedLeaves
<1>7. IsState(p) /\ p.entries \in [Live(p) -> Entry]
  BY <1>6, MembersAreIds DEF Sound
<1>8. /\ DOMAIN set = Fields /\ set.available = available /\ set.revised = TRUE
      /\ set.entries = p.entries /\ set.closed = p.closed
      /\ set.closedAs = p.closedAs /\ set.liveKeys = p.liveKeys
      /\ set.pending = p.pending /\ set.toasts = p.toasts
      /\ set.attention = p.attention /\ set.limits = p.limits
      /\ set.nextSequence = p.nextSequence /\ set.nextNonce = p.nextNonce
      /\ set.lastNow = p.lastNow /\ set.panicked = p.panicked
      /\ set.contentRevised = p.contentRevised
  BY <1>2, <1>7 DEF BumpRevision, IsState, Fields
<1>9. Sound(set) /\ Live(set) = Live(p)
  BY <1>6, <1>7, <1>8, SoundCarries DEF IsState
<1>10. Tended(p, set)
  BY <1>6, <1>8, <1>9, TendedCarries
<1>11. /\ Sound(q) /\ Tended(p, q) /\ Live(q) = Live(p) /\ q.limits = p.limits
       /\ q.nextSequence = p.nextSequence
  BY <1>3, <1>6, <1>8, <1>9, <1>10 DEF Tended, RecordsKept, RecordsWith, Records
<1>12. SameFrame(q, r) /\ Live(r) = Live(q) /\ Kept(q, r) /\ Tended(q, r)
  BY <1>5, <1>11, RebalanceSound, RebalanceTended
<1>13. Tended(p, r)
  BY <1>6, <1>11, <1>12, TendedChains
<1>14. LeavesTidy(p, {}, r)
  BY <1>13 DEF LeavesTidy, Tended, RecordsKept
<1>15. Kept(s, r)
  <2>1. q.entries = p.entries
    BY <1>3, <1>8
  <2> QED BY <1>6, <1>11, <1>12, <2>1 DEF Kept
<1>16. Tends(s, r)
  BY <1>1, <1>11, <1>12, <1>14, PreparedTends DEF SameFrame
<1> QED BY <1>4, <1>15, <1>16

\* A pin leaves the queues as they are.
LEMMA RepinnedTended ==
  ASSUME NEW p, Sound(p), NEW i \in Live(p), NEW t \in Timer,
         NEW n \in Nat \cup {None}, NEW next \in Nat
  PROVE  LET r == Repinned(p, i, n, t, next)
         IN  /\ Tended(p, r) /\ Live(r) = Live(p) /\ r.limits = p.limits
             /\ r.nextSequence = p.nextSequence
             /\ \A j \in Live(p) : r.entries[j].draft = p.entries[j].draft
<1>1. PICK r : r = Repinned(p, i, n, t, next)
  OBVIOUS
<1>2. PICK e : e = [p.entries[i] EXCEPT !.nonce = n, !.timer = t]
  OBVIOUS
<1>3. DOMAIN p = Fields /\ p.entries \in [Live(p) -> Entry]
  BY MembersAreIds DEF Sound, IsState
<1>4. e.draft = p.entries[i].draft
  BY <1>2, <1>3 DEF Entry
<1>5. /\ r.entries = [p.entries EXCEPT ![i] = e] /\ r.limits = p.limits
      /\ r.pending = p.pending /\ r.toasts = p.toasts /\ r.closed = p.closed
      /\ r.nextSequence = p.nextSequence
  BY <1>1, <1>2, <1>3 DEF Repinned, Fields
<1>6. \A j \in Live(p) : r.entries[j].draft = p.entries[j].draft
  BY <1>3, <1>4, <1>5
<1>7. Sound(r) /\ Live(r) = Live(p)
  BY <1>1, PinSound
<1>8. Tended(p, r)
  BY <1>5, <1>6, <1>7, TendedCarries
<1> QED BY <1>1, <1>5, <1>6, <1>7, <1>8

\* begin_jump and cancel_jump: prepare_time and, perhaps, another pin.
LEMMA PinnedTends ==
  ASSUME NEW s, Sound(s), NEW now \in Nat, NEW p, p = PrepareTime(s, now),
         NEW r,
         \/ r = p
         \/ \E i \in Live(p), t \in Timer, n \in Nat \cup {None}, next \in Nat :
              r = Repinned(p, i, n, t, next)
  PROVE  /\ Tends(s, r)
         /\ \A j \in Live(r) : r.entries[j].draft = s.entries[j].draft
<1>1. /\ Sound(p) /\ Kept(s, p) /\ LeavesTidy(s, {}, p) /\ p.limits = s.limits
      /\ p.nextSequence = s.nextSequence
  BY PreparedLeaves
<1>2. CASE r = p
  BY <1>1, <1>2 DEF Tends, Kept
<1>3. CASE \E i \in Live(p), t \in Timer, n \in Nat \cup {None}, next \in Nat :
             r = Repinned(p, i, n, t, next)
  <2>1. /\ Tended(p, r) /\ Live(r) = Live(p) /\ r.limits = p.limits
        /\ r.nextSequence = p.nextSequence
        /\ \A j \in Live(p) : r.entries[j].draft = p.entries[j].draft
    BY <1>1, <1>3, RepinnedTended
  <2>2. LeavesTidy(p, {}, r)
    BY <2>1 DEF LeavesTidy, Tended, RecordsKept
  <2>3. Tends(s, r)
    BY <2>1, <2>2, PreparedTends
  <2> QED BY <1>1, <2>1, <2>3 DEF Kept
<1> QED BY <1>2, <1>3

\* The states that begin_jump and cancel_jump leave.
LEMMA BeginJumpPins ==
  ASSUME NEW s, Sound(s), NEW i, NEW now \in Nat, NEW p, p = PrepareTime(s, now),
         NEW r, r = BeginJump(s, i, now)
  PROVE  \/ r = p
         \/ \E j \in Live(p), t \in Timer, n \in Nat \cup {None}, next \in Nat :
              r = Repinned(p, j, n, t, next)
<1>1. Sound(p)
  BY PrepareTimePins
<1>2. /\ p.entries \in [Live(p) -> Entry] /\ DOMAIN p = Fields /\ p.nextNonce \in Nat
  BY <1>1, MembersAreIds DEF Sound, IsState
<1>3. CASE ~JumpAllowed(p, i)
  BY <1>3 DEF BeginJump
<1>4. CASE JumpAllowed(p, i)
  <2>1. i \in Live(p)
    BY <1>4 DEF JumpAllowed
  <2> DEFINE t == IF ToastTimerShouldRun(p, i)
                  THEN SetRunning(p.entries[i].timer, now, FALSE)
                  ELSE p.entries[i].timer
  <2>2. t \in Timer
    BY <1>2, <2>1, SetRunningType DEF Entry
  <2>3. r = Repinned(p, i, p.nextNonce, t, p.nextNonce + 1)
    BY ZenonT(30), <1>2, <1>4, <2>1 DEF BeginJump, Fields, Entry, Repinned
  <2> HIDE DEF t
  <2>4. p.nextNonce \in Nat \cup {None} /\ p.nextNonce + 1 \in Nat
    BY <1>2
  <2> QED BY <2>1, <2>2, <2>3, <2>4
<1> QED BY <1>3, <1>4

LEMMA CancelJumpPins ==
  ASSUME NEW s, Sound(s), NEW intent, NEW now \in Nat,
         NEW p, p = PrepareTime(s, now), NEW r, r = CancelJump(s, intent, now)
  PROVE  \/ r = p
         \/ \E j \in Live(p), t \in Timer, n \in Nat \cup {None}, next \in Nat :
              r = Repinned(p, j, n, t, next)
<1>1. Sound(p)
  BY PrepareTimePins
<1>2. /\ p.entries \in [Live(p) -> Entry] /\ DOMAIN p = Fields /\ p.nextNonce \in Nat
  BY <1>1, MembersAreIds DEF Sound, IsState
<1>3. CASE ~IntentValid(p, intent)
  BY <1>3 DEF CancelJump
<1>4. CASE IntentValid(p, intent)
  <2>1. PICK i \in Live(p) : i = intent.id
    BY <1>4 DEF IntentValid
  <2> DEFINE t == IF ToastTimerShouldRun(p, i)
                  THEN SetRunning(p.entries[i].timer, now, TRUE)
                  ELSE p.entries[i].timer
  <2>2. t \in Timer
    BY <1>2, <2>1, SetRunningType DEF Entry
  <2>3. r = Repinned(p, i, None, t, p.nextNonce)
    BY ZenonT(30), <1>2, <1>4, <2>1 DEF CancelJump, Fields, Entry, Repinned
  <2> HIDE DEF t
  <2> QED BY <1>2, <2>1, <2>2, <2>3
<1> QED BY <1>3, <1>4

\* begin_jump, cancel_jump and commit_jump.
LEMMA BeginJumpTends ==
  ASSUME NEW s, Sound(s), NEW i, NEW now \in Nat, NEW r, r = BeginJump(s, i, now)
  PROVE  /\ Tends(s, r)
         /\ \A j \in Live(r) : r.entries[j].draft = s.entries[j].draft
<1>1. PICK p : p = PrepareTime(s, now)
  OBVIOUS
<1> QED BY <1>1, BeginJumpPins, PinnedTends

LEMMA CancelJumpTends ==
  ASSUME NEW s, Sound(s), NEW intent, NEW now \in Nat, NEW r, r = CancelJump(s, intent, now)
  PROVE  /\ Tends(s, r)
         /\ \A j \in Live(r) : r.entries[j].draft = s.entries[j].draft
<1>1. PICK p : p = PrepareTime(s, now)
  OBVIOUS
<1> QED BY <1>1, CancelJumpPins, PinnedTends

LEMMA CommitJumpTends ==
  ASSUME NEW s, Sound(s), NEW intent, NEW now \in Nat
  PROVE  Tends(s, CommitJump(s, intent, now)) /\ Kept(s, CommitJump(s, intent, now))
<1>1. CASE IntentValid(s, intent)
  BY <1>1, CloseTends DEF CommitJump, Reasons
<1>2. CASE ~IntentValid(s, intent)
  <2>1. Live(s) \ Live(s) = {}
    OBVIOUS
  <2> QED BY <1>2, <2>1 DEF CommitJump, Tends, LeavesTidy, RecordsWith, Records, Kept
<1> QED BY <1>1, <1>2

\* drain_closed.
LEMMA DrainClosedTidy ==
  ASSUME NEW s, Sound(s)
  PROVE  LET r == DrainClosed(s)
         IN  /\ Tidy(s) => Tidy(r)
             /\ Closed(r) = {} /\ r.entries = s.entries /\ r.limits = s.limits
             /\ r.nextSequence = s.nextSequence
<1>1. PICK r : r = DrainClosed(s)
  OBVIOUS
<1>2. DOMAIN s = Fields
  BY DEF Sound, IsState
<1>3. /\ r.closed = EmptyLine /\ r.entries = s.entries /\ r.limits = s.limits
      /\ r.nextSequence = s.nextSequence
      /\ r.pending = s.pending /\ r.toasts = s.toasts
  BY <1>1, <1>2 DEF DrainClosed, Fields
<1>4. /\ Live(r) = Live(s) /\ Pending(r) = Pending(s) /\ Toasts(r) = Toasts(s)
      /\ Closed(r) = {}
  BY <1>3 DEF Live, Pending, Toasts, Closed, EmptyLine
<1>5. IsLine(r.closed, {})
  BY <1>3 DEF IsLine, EmptyLine
<1>6. ServedBefore(r) = ServedBefore(s)
  BY <1>3, <1>4 DEF ServedBefore
<1> QED BY <1>1, <1>3, <1>4, <1>5, <1>6
        DEF Tidy, Lined, WithinScreen, InServingOrder

\* The deferred Toasts are those beyond the new capacity.
LEMMA ResizedLined ==
  ASSUME NEW p, Sound(p), NEW limits \in SchedulerLimits, NEW now \in Nat,
         NEW deferred, deferred = Deferred(p, limits),
         NEW r, r = Resized(p, limits, deferred, now), Lined(p)
  PROVE  Lined(r) /\ WithinScreen(r)
<1>1. /\ IsState(p) /\ Scheduled(p) /\ Pending(p) \subseteq Ids /\ Toasts(p) \subseteq Ids
      /\ p.toasts \in [Toasts(p) -> Nat]
  BY MembersAreIds DEF Sound
<1>2. /\ IsLine(p.pending, Pending(p)) /\ IsLine(p.toasts, Toasts(p))
      /\ IsLine(p.closed, Closed(p))
  BY DEF Lined
<1>3. PICK room \in Nat : room = limits.maxVisible
  BY DEF SchedulerLimits
<1>4. PICK stay : stay = FirstOf(p.toasts, Toasts(p), room)
  OBVIOUS
<1>5. stay \subseteq Toasts(p) /\ Cardinality(stay) <= room
  <2>1. PICK T, l : T = Toasts(p) /\ l = p.toasts
    OBVIOUS
  <2>2. T \subseteq Ids /\ IsLine(l, T) /\ room \in Int /\ room >= 0
    BY <1>1, <1>2, <2>1
  <2>3. FirstOf(l, T, room) \subseteq T \cap T
    BY <2>2, IdsFinite, FirstOfCount
  <2>4. Cardinality(FirstOf(l, T, room)) <= room
    BY <2>2, IdsFinite, FirstOfCount
  <2> QED BY <1>4, <2>1, <2>3, <2>4
<1>6. deferred = Toasts(p) \ stay /\ Toasts(p) \ deferred = stay
  BY <1>3, <1>4, <1>5 DEF Deferred
<1>7. PICK line : line = Retain(p.toasts, deferred)
  OBVIOUS
<1>8. /\ r.limits = limits /\ r.closed = p.closed
      /\ r.toasts = Retain(p.toasts, stay) /\ r.pending = Join(p.pending, line)
  <2>1. /\ r.limits = limits /\ r.closed = p.closed
        /\ r.toasts = Retain(p.toasts, Toasts(p) \ deferred)
        /\ r.pending = Join(p.pending, Retain(p.toasts, deferred))
    BY Zenon, <1>1 DEF IsState, Fields, Resized
  <2> QED BY <1>6, <1>7, <2>1
<1>9. Toasts(r) = stay /\ IsLine(r.toasts, stay)
  BY <1>1, <1>2, <1>5, <1>8, ToastsPart
<1>10. deferred \subseteq Toasts(p) /\ deferred \subseteq Ids /\ Pending(p) \cap deferred = {}
  BY <1>1, <1>6 DEF Scheduled
<1>11. IsLine(line, deferred)
  BY <1>1, <1>2, <1>7, <1>10, IdsFinite, RetainPart
<1>12. IsLine(r.pending, Pending(p) \cup deferred)
  <2>1. IsLine(Join(p.pending, line), Pending(p) \cup deferred)
    BY <1>1, <1>2, <1>10, <1>11, IdsFinite, JoinLine
  <2> QED BY <1>8, <2>1
<1>13. Pending(r) = Pending(p) \cup deferred
  BY <1>12 DEF Pending, IsLine
<1>14. Closed(r) = Closed(p)
  BY <1>8 DEF Closed
<1> QED BY <1>2, <1>3, <1>5, <1>8, <1>9, <1>12, <1>13, <1>14 DEF Lined, WithinScreen

\* update_limits, last part.
Trimmed(s, kept) ==
  [s EXCEPT !.closed   = Retain(s.closed, kept),
            !.closedAs = Restrict(s.closedAs, kept)]

\* Fewer records are a line as well.
LEMMA TrimTidy ==
  ASSUME NEW s, Sound(s), Tidy(s), NEW n \in Nat,
         NEW kept, kept = LastOf(s.closed, Closed(s), n),
         NEW r, r = Trimmed(s, kept)
  PROVE  Tidy(r) /\ Closed(r) \subseteq Closed(s)
<1>1. /\ IsState(s) /\ DOMAIN s = Fields /\ Closed(s) \subseteq Ids
      /\ s.closed \in [Closed(s) -> Nat] /\ DOMAIN s.closed = Closed(s)
  BY MembersAreIds DEF Sound, IsState, Closed
<1>2. kept \subseteq Closed(s)
  BY DEF LastOf
<1>3. PICK line : line = Retain(s.closed, kept)
  OBVIOUS
<1>4. DOMAIN line = kept /\ IsLine(line, kept)
  BY <1>1, <1>2, <1>3, IdsFinite, RetainPart DEF Tidy, Lined
<1>5. /\ r.closed = line /\ r.entries = s.entries /\ r.limits = s.limits
      /\ r.pending = s.pending /\ r.toasts = s.toasts
  <2>1. r = [s EXCEPT !.closed   = Retain(s.closed, kept),
                      !.closedAs = Restrict(s.closedAs, kept)]
    BY DEF Trimmed
  <2> QED BY ZenonT(30), <1>1, <1>3, <2>1 DEF Fields
<1>6. /\ Live(r) = Live(s) /\ Pending(r) = Pending(s) /\ Toasts(r) = Toasts(s)
      /\ Closed(r) = kept
  BY <1>4, <1>5 DEF Live, Pending, Toasts, Closed
<1>7. ServedBefore(r) = ServedBefore(s)
  BY <1>5, <1>6 DEF ServedBefore
<1>8. Tidy(r)
  BY <1>4, <1>5, <1>6, <1>7 DEF Tidy, Lined, WithinScreen, InServingOrder
<1> QED BY <1>2, <1>6, <1>8

\* update_limits.
LEMMA UpdateLimitsTidy ==
  ASSUME NEW s, Sound(s), Tidy(s), NEW limits \in SchedulerLimits, NEW now \in Nat
  PROVE  LET r == UpdateLimits(s, limits, now)
         IN  /\ Tidy(r) /\ Kept(s, r) /\ r.nextSequence = s.nextSequence
             /\ r.limits \in {s.limits, limits}
             /\ r.limits = s.limits => RecordsKept(s, r)
             /\ Live(s) \cup Closed(s) = {} => Closed(r) = {}
<1>1. PICK p : p = PrepareTime(s, now)
  OBVIOUS
<1>2. PICK deferred : deferred = Deferred(p, limits)
  OBVIOUS
<1>3. PICK resized : resized = Resized(p, limits, deferred, now)
  OBVIOUS
<1>4. PICK full : full = EnforcePendingLimit(Rebalance(SortPending(resized), now))
  OBVIOUS
<1>5. PICK kept : kept = LastOf(full.closed, Closed(full), ClosedCapacity(limits))
  OBVIOUS
<1>6. PICK cut : cut = Trimmed(full, kept)
  OBVIOUS
<1>7. PICK r : r = UpdateLimits(s, limits, now)
  OBVIOUS
<1>8. r = IF p.limits = limits THEN p
          ELSE IF full.panicked THEN full ELSE BumpContentRevision(cut)
  BY <1>1, <1>2, <1>3, <1>4, <1>5, <1>6, <1>7 DEF UpdateLimits, Resized, Trimmed
<1>9. /\ Sound(p) /\ Kept(s, p) /\ Tended(s, p) /\ p.limits = s.limits
      /\ p.nextSequence = s.nextSequence /\ Tidy(p)
      /\ RecordsKept(s, p)
  BY <1>1, PreparedLeaves DEF Tended
<1>12. ASSUME NEW a, NEW b, Sound(a), Kept(a, b), RecordsKept(a, b),
              Live(a) \cup Closed(a) = {}
       PROVE  Live(b) \cup Closed(b) = {}
  <2>1. Records(a, {}, b) = {} /\ Live(b) = {}
    BY <1>12 DEF Kept, Records
  <2>2. Cardinality({}) = 0 /\ ClosedCapacity(a.limits) \in Nat
    BY <1>12, FS_EmptySet DEF Sound, IsState, SchedulerLimits, ClosedCapacity
  <2> QED BY <1>12, <2>1, <2>2 DEF RecordsKept, RecordsWith, HasRoom
<1>10. CASE p.limits = limits
  <2>1. r = p
    BY <1>8, <1>10
  <2> QED BY <1>7, <1>9, <1>12, <2>1
<1>11. CASE p.limits # limits
  <2>1. deferred \subseteq Toasts(p)
    BY <1>2 DEF Deferred
  <2>2. /\ Sound(resized) /\ Live(resized) = Live(p)
        /\ \A i \in Live(p) : resized.entries[i].nonce = p.entries[i].nonce
    BY <1>3, <1>9, <2>1, ResizedSound
  <2>3. \A i \in Live(p) : resized.entries[i].draft = p.entries[i].draft
    <3>1. DOMAIN p = Fields /\ p.entries \in [Live(p) -> Entry]
      BY <1>9, MembersAreIds DEF Sound, IsState
    <3>2. resized.entries = TimersStopped(p, deferred, now)
      BY Zenon, <1>3, <3>1 DEF Resized, Fields
    <3> QED BY <3>1, <3>2 DEF TimersStopped, Entry
  <2>4. /\ resized.limits = limits /\ resized.closed = p.closed
        /\ resized.nextSequence = p.nextSequence
    <3>1. DOMAIN p = Fields
      BY <1>9 DEF Sound, IsState
    <3> QED BY Zenon, <1>3, <3>1 DEF Resized, Fields
  <2>5. Lined(resized) /\ WithinScreen(resized)
    BY <1>2, <1>3, <1>9, ResizedLined DEF Tidy
  <2>6. /\ Sound(full) /\ SameFrame(resized, full) /\ Kept(resized, full)
        /\ Settled(resized, full)
    BY <1>4, <2>2, SortSettles
  <2>7. Tidy(full) /\ RecordsKept(resized, full)
    BY <2>5, <2>6 DEF Settled
  <2>8. ClosedCapacity(limits) \in Nat
    BY DEF ClosedCapacity, SchedulerLimits
  <2>9. Tidy(cut) /\ Closed(cut) \subseteq Closed(full)
    BY <1>5, <1>6, <2>6, <2>7, <2>8, TrimTidy
  <2>10. Sound(cut) /\ Live(cut) = Live(full) /\ cut.entries = full.entries
    <3>1. kept \subseteq Closed(full)
      BY <1>5 DEF LastOf
    <3> QED BY <1>6, <2>6, <3>1, TrimSound DEF Trimmed
  <2>11. cut.limits = full.limits /\ cut.nextSequence = full.nextSequence
    BY <1>6, <2>6 DEF Trimmed, Sound, IsState, Fields
  <2>12. PICK bumped : bumped = BumpContentRevision(cut)
    OBVIOUS
  <2>13. /\ Tidy(bumped) /\ Kept(cut, bumped) /\ Live(bumped) = Live(cut)
         /\ SameFrame(cut, bumped) /\ Closed(bumped) = Closed(cut)
    <3>1. bumped.closed = cut.closed
      BY <2>10, <2>12 DEF BumpContentRevision, Sound, IsState, Fields
    <3> QED BY <2>9, <2>10, <2>12, <3>1, BumpSound, BumpTended DEF Tended, Closed
  <2>14. /\ Tidy(r) /\ Live(r) = Live(full) /\ r.limits = limits
         /\ r.nextSequence = full.nextSequence
         /\ \A i \in Live(full) : /\ r.entries[i].draft = full.entries[i].draft
                                  /\ r.entries[i].nonce = full.entries[i].nonce
         /\ Closed(r) \subseteq Closed(full)
    <3>1. r = full \/ r = bumped
      BY <1>8, <1>11, <2>12
    <3>2. full.limits = limits
      BY <2>4, <2>6 DEF SameFrame
    <3>3. /\ Live(bumped) = Live(full) /\ bumped.limits = limits
          /\ bumped.nextSequence = full.nextSequence
      BY <2>10, <2>11, <2>13, <3>2 DEF SameFrame
    <3>4. \A i \in Live(full) : /\ bumped.entries[i].draft = full.entries[i].draft
                                /\ bumped.entries[i].nonce = full.entries[i].nonce
      BY <2>10, <2>13 DEF Kept
    <3>5. Closed(bumped) \subseteq Closed(full)
      BY <2>9, <2>13
    <3> QED BY <2>7, <2>13, <3>1, <3>2, <3>3, <3>4, <3>5
  <2>15. Kept(s, r) /\ r.nextSequence = s.nextSequence
    BY <1>9, <2>2, <2>3, <2>4, <2>6, <2>14 DEF Kept, SameFrame
  <2>16. ASSUME Live(s) \cup Closed(s) = {}
         PROVE  Closed(r) = {}
    <3>1. Live(p) \cup Closed(p) = {}
      BY <1>9, <1>12, <2>16
    <3>2. Live(resized) \cup Closed(resized) = {}
      BY <2>2, <2>4, <3>1 DEF Closed
    <3>3. Live(full) \cup Closed(full) = {}
      BY <1>12, <2>2, <2>6, <2>7, <3>2
    <3> QED BY <2>14, <3>3
  <2> QED BY <1>7, <1>9, <1>11, <2>14, <2>15, <2>16
<1> QED BY <1>10, <1>11

\* A new scheduler is sound.
LEMMA NewSchedulerSound ==
  ASSUME NEW limits \in SchedulerLimits
  PROVE  Sound(NewScheduler(limits, 0)) /\ Live(NewScheduler(limits, 0)) = {}
<1> DEFINE s == NewScheduler(limits, 0)
<1>1. DOMAIN s = Fields
  BY DEF NewScheduler, Fields
<1>2. /\ s.limits = limits /\ s.entries = EmptyLine /\ s.closed = EmptyLine
      /\ s.closedAs = EmptyLine /\ s.pending = EmptyLine /\ s.toasts = EmptyLine
      /\ s.liveKeys = [k \in Keys |-> None] /\ s.attention = None
      /\ s.available = FALSE /\ s.revised = FALSE /\ s.contentRevised = FALSE
      /\ s.panicked = FALSE /\ s.nextSequence = 0 /\ s.nextNonce = 0
      /\ s.lastNow = 0
  BY DEF NewScheduler
<1> HIDE DEF s
<1>3. /\ Live(s) = {} /\ Pending(s) = {} /\ Toasts(s) = {} /\ Closed(s) = {}
  BY <1>2 DEF Live, Pending, Toasts, Closed, EmptyLine
<1>4. /\ Partial(s.entries, Ids, Entry) /\ Partial(s.closed, Ids, Nat)
      /\ Partial(s.pending, Ids, Nat) /\ Partial(s.toasts, Ids, Nat)
      /\ s.closedAs \in [DOMAIN s.closed -> Reasons]
  BY <1>2 DEF Partial, EmptyLine
<1>5. IsState(s)
  <2>1. s.liveKeys \in [Keys -> Ids \cup {None}] /\ s.attention \in Ids \cup {None}
    BY <1>2
  <2>2. s.available \in BOOLEAN /\ s.revised \in BOOLEAN
        /\ s.contentRevised \in BOOLEAN /\ s.panicked \in BOOLEAN
    BY <1>2
  <2>3. s.nextSequence \in Nat /\ s.nextNonce \in Nat /\ s.lastNow \in Nat
    BY <1>2
  <2>4. s.limits \in SchedulerLimits
    BY <1>2
  <2> QED BY <1>1, <1>4, <2>1, <2>2, <2>3, <2>4 DEF IsState
<1>6. Scheduled(s) /\ KeysIndexed(s) /\ Numbered(s)
  BY <1>2, <1>3 DEF Scheduled, KeysIndexed, Numbered, OfKind
<1> QED BY <1>3, <1>5, <1>6 DEF Sound, s

\* A new scheduler is tidy.
LEMMA NewSchedulerTidy ==
  ASSUME NEW limits \in SchedulerLimits, NEW now
  PROVE  Tidy(NewScheduler(limits, now)) /\ NewScheduler(limits, now).limits = limits
<1>1. PICK s : s = NewScheduler(limits, now)
  OBVIOUS
<1>2. /\ s.limits = limits /\ s.pending = EmptyLine /\ s.toasts = EmptyLine
      /\ s.closed = EmptyLine
  BY <1>1 DEF NewScheduler
<1>3. Pending(s) = {} /\ Toasts(s) = {} /\ Closed(s) = {} /\ IsLine(EmptyLine, {})
  BY <1>2 DEF Pending, Toasts, Closed, EmptyLine, IsLine
<1>4. Cardinality(Toasts(s)) = 0 /\ limits.maxVisible \in Nat
  BY <1>3, FS_EmptySet DEF SchedulerLimits
<1>5. Cardinality(Toasts(s)) <= s.limits.maxVisible
  BY <1>2, <1>4
<1> QED BY <1>1, <1>2, <1>3, <1>5 DEF Tidy, Lined, WithinScreen, InServingOrder

-----------------------------------------------------------------------------
(* What each helper leaves of every field.                                 *)

\* What a helper that only moves or closes Notifications leaves: entries,
\* places and records.
Untouched(s, r) ==
  \A i \in Live(r) : i \in Live(s) /\ r.entries[i] = s.entries[i]

\* The members of active_toasts that stay keep their order.
ToastsInOrder(s, r) ==
  \A i, j \in Toasts(s) \cap Toasts(r) :
    r.toasts[i] < r.toasts[j] <=> s.toasts[i] < s.toasts[j]

\* close_inner.
LEMMA CloseInnerLeaves ==
  ASSUME NEW s, Sound(s), NEW reason \in Reasons,
         NEW batch, DOMAIN batch \subseteq Live(s), batch \in [DOMAIN batch -> Nat],
         NEW r, r = CloseInner(s, batch, reason)
  PROVE  /\ Sound(r) /\ SameFrame(s, r) /\ Untouched(s, r) /\ ToastsInOrder(s, r)
         /\ Live(r) = Live(s) \ DOMAIN batch
         /\ Pending(r) = Pending(s) \ DOMAIN batch
         /\ \A i, j \in Pending(r) :
              r.pending[i] < r.pending[j] <=> s.pending[i] < s.pending[j]
         /\ Toasts(r) = Toasts(s) \ DOMAIN batch
         /\ r.attention = IF s.attention \in DOMAIN batch THEN None ELSE s.attention
         /\ \A i \in Closed(r) :
              \/ i \in DOMAIN batch /\ r.closedAs[i] = reason
              \/ i \in Closed(s) /\ r.closedAs[i] = s.closedAs[i]
         /\ Cardinality(Closed(s) \cup DOMAIN batch) <= ClosedCapacity(s.limits) =>
              Closed(r) = Closed(s) \cup DOMAIN batch
         /\ r.revised = (s.revised \/ DOMAIN batch # {})
         /\ r.contentRevised = (s.contentRevised \/ DOMAIN batch # {})
         /\ r.panicked = s.panicked
<1> DEFINE all  == Join(s.closed, batch)
           room == ClosedCapacity(s.limits)
<1>1. PICK D : D = DOMAIN batch
  OBVIOUS
<1>2. /\ IsState(s) /\ Scheduled(s) /\ D \subseteq Live(s) /\ DOMAIN s = Fields
      /\ Live(s) \subseteq Ids /\ Toasts(s) \subseteq Ids /\ Closed(s) \subseteq Ids
      /\ s.toasts \in [Toasts(s) -> Nat] /\ s.closed \in [Closed(s) -> Nat]
  BY <1>1, MembersAreIds DEF Sound, IsState
<1>3. PICK line : line = IF Cardinality(Closed(s)) > room THEN all
                         ELSE Retain(all, LastOf(all, DOMAIN all, room))
  OBVIOUS
<1>4. /\ r.entries = Restrict(s.entries, Live(s) \ D)
      /\ r.pending = Retain(s.pending, Pending(s) \ D)
      /\ r.toasts = Retain(s.toasts, Toasts(s) \ D)
      /\ r.attention = IF s.attention \in D THEN None ELSE s.attention
      /\ r.closed = line
      /\ r.closedAs = [i \in DOMAIN line |-> IF i \in D THEN reason ELSE s.closedAs[i]]
      /\ r.revised = (s.revised \/ D # {})
      /\ r.contentRevised = (s.contentRevised \/ D # {})
      /\ r.panicked = s.panicked
  BY <1>1, <1>2, <1>3, Zenon DEF Fields, CloseInner
<1>5. /\ Sound(r) /\ SameFrame(s, r) /\ Live(r) = Live(s) \ D
  BY <1>1, CloseInnerSound
<1>6. Untouched(s, r)
  BY <1>4, <1>5 DEF Untouched, Restrict, Live
<1>7. PICK stay, shown : stay = Pending(s) \ D /\ shown = Toasts(s) \ D
  OBVIOUS
<1>8. /\ Pending(r) = stay
      /\ \A i, j \in stay : r.pending[i] < r.pending[j] <=> s.pending[i] < s.pending[j]
  <2>1. stay \subseteq Pending(s) /\ r.pending = Retain(s.pending, stay)
    BY <1>4, <1>7
  <2> QED BY <1>2, <2>1, PendingPart
<1>9. PICK was : was = s.toasts
  OBVIOUS
<1>10. PICK old : old = Toasts(s)
  OBVIOUS
<1>11. /\ DOMAIN Retain(was, shown) = shown
       /\ \A i, j \in shown :
            Retain(was, shown)[i] < Retain(was, shown)[j] <=> was[i] < was[j]
  <2>1. was \in [old -> Nat] /\ old \subseteq Ids /\ shown \subseteq old
    BY <1>2, <1>7, <1>9, <1>10
  <2> QED BY <2>1, IdsFinite, RetainPart
<1>12. r.toasts = Retain(was, shown)
  BY <1>4, <1>7, <1>9
<1>13. Toasts(r) = shown
  BY <1>11, <1>12 DEF Toasts
<1>14. ToastsInOrder(s, r)
  <2>1. \A i, j \in shown : r.toasts[i] < r.toasts[j] <=> s.toasts[i] < s.toasts[j]
    BY <1>9, <1>11, <1>12
  <2> QED BY <1>13, <2>1 DEF ToastsInOrder
<1>15. DOMAIN all = Closed(s) \cup D
  BY <1>1, <1>2 DEF Join
<1>16. DOMAIN line \subseteq Closed(s) \cup D /\ Closed(r) = DOMAIN line
  <2>1. \A S : DOMAIN Retain(all, S) \subseteq DOMAIN all
    BY DEF Retain
  <2> HIDE DEF all
  <2> QED BY <1>3, <1>4, <1>15, <2>1 DEF Closed
<1>17. \A i \in Closed(r) : \/ i \in D /\ r.closedAs[i] = reason
                            \/ i \in Closed(s) /\ r.closedAs[i] = s.closedAs[i]
  BY <1>4, <1>16
<1>18. ASSUME Cardinality(Closed(s) \cup D) <= room
       PROVE  Closed(r) = Closed(s) \cup D
  <2>1. /\ Cardinality(Closed(s)) \in Nat /\ Cardinality(Closed(s) \cup D) \in Nat
        /\ Cardinality(Closed(s)) <= Cardinality(Closed(s) \cup D)
    BY <1>2, IdsFinite, PartCounts
  <2>2. room \in Nat
    BY <1>2 DEF IsState, SchedulerLimits, ClosedCapacity
  <2> HIDE DEF room
  <2>3. ~(Cardinality(Closed(s)) > room)
    BY <1>18, <2>1, <2>2
  <2>4. line = Retain(all, LastOf(all, DOMAIN all, room))
    BY <1>3, <2>3
  <2> HIDE DEF all
  <2>5. LastOf(all, DOMAIN all, room) = DOMAIN all
    BY <1>2, <1>15, <1>18, <2>2, IdsFinite, LastOfAll
  <2>6. DOMAIN line = DOMAIN all
    BY <2>4, <2>5 DEF Retain
  <2> QED BY <1>15, <1>16, <2>6
<1> HIDE DEF all, room
<1> QED BY <1>1, <1>4, <1>5, <1>6, <1>7, <1>8, <1>13, <1>14, <1>17, <1>18 DEF room

\* The first n of a line are n, or all there are, and nobody else is before
\* them.
LEMMA FirstOfLine ==
  ASSUME NEW U, IsFiniteSet(U), NEW A, A \subseteq U, NEW l, IsLine(l, A),
         NEW S, NEW n \in Int
  PROVE  /\ FirstOf(l, S, n) \subseteq S \cap A
         /\ \A i \in FirstOf(l, S, n), j \in (S \cap A) \ FirstOf(l, S, n) :
              l[i] < l[j]
         /\ n <= 0 => FirstOf(l, S, n) = {}
         /\ n >= 0 => \/ FirstOf(l, S, n) = S \cap A
                      \/ Cardinality(FirstOf(l, S, n)) = n
<1>1. PICK K : K = S \cap A
  OBVIOUS
<1>2. PICK r : r = Retain(l, S)
  OBVIOUS
<1>3. PICK F : F = FirstOf(l, S, n)
  OBVIOUS
<1>4. PICK k : k = Cardinality(K)
  OBVIOUS
<1>5. K \subseteq U /\ IsFiniteSet(K) /\ k \in Nat
  BY <1>1, <1>4, CountIsNat
<1>6. /\ IsLine(r, K)
      /\ \A i, j \in K : r[i] < r[j] <=> l[i] < l[j]
  BY <1>1, <1>2, RetainLine
<1>7. r \in [K -> 1 .. k] /\ \A i, j \in K : r[i] = r[j] => i = j
  BY <1>4, <1>6 DEF IsLine
<1>8. F = {i \in K : r[i] <= n}
  <2>1. DOMAIN l = A
    BY DEF IsLine
  <2> QED BY <1>1, <1>2, <1>3, <2>1 DEF FirstOf, Retain
<1>9. F \subseteq K
  BY <1>8
<1>10. ASSUME NEW i \in F, NEW j \in K \ F
       PROVE  l[i] < l[j]
  <2>1. i \in K /\ r[i] \in Int /\ r[j] \in Int /\ r[i] <= n /\ ~(r[j] <= n)
    BY <1>5, <1>7, <1>8
  <2>2. r[i] < r[j]
    BY <2>1
  <2> QED BY <1>6, <2>1, <2>2
<1>11. ASSUME n <= 0
       PROVE  F = {}
  BY <1>5, <1>7, <1>8, <1>11
<1>12. ASSUME n >= 0, F # K
       PROVE  Cardinality(F) = n
  <2>1. n \in Nat /\ n <= k
    <3>1. PICK i \in K : ~(r[i] <= n)
      BY <1>8, <1>12
    <3>2. r[i] \in 1 .. k
      BY <1>7
    <3> QED BY <1>5, <1>12, <3>1, <3>2
  <2>2. /\ IsFiniteSet(1 .. k) /\ Cardinality(1 .. k) = k
        /\ IsFiniteSet(1 .. n) /\ Cardinality(1 .. n) = n
    BY <1>5, <2>1, FS_Interval
  <2>3. r \in Injection(K, 1 .. k)
    BY <1>7 DEF Injection, IsInjective
  <2>4. r \in Surjection(K, 1 .. k)
    BY <1>4, <2>2, <2>3, FS_Injection
  <2>5. \A m \in 1 .. k : \E i \in K : r[i] = m
    BY <2>4 DEF Surjection
  <2>6. PICK f : f = [i \in F |-> r[i]]
    OBVIOUS
  <2>7. f \in [F -> 1 .. n] /\ \A i \in F : f[i] = r[i]
    <3>1. \A i \in F : r[i] \in 1 .. n
      BY <1>5, <1>7, <1>8, <2>1
    <3> QED BY <2>6, <3>1
  <2>8. f \in Injection(F, 1 .. n)
    BY <1>7, <1>9, <2>7 DEF Injection, IsInjective
  <2>9. \A m \in 1 .. n : \E i \in F : f[i] = m
    <3> SUFFICES ASSUME NEW m \in 1 .. n PROVE \E i \in F : f[i] = m
      OBVIOUS
    <3>1. m \in 1 .. k /\ m <= n
      BY <1>5, <2>1
    <3>2. PICK i \in K : r[i] = m
      BY <2>5, <3>1
    <3> QED BY <1>8, <2>7, <3>1, <3>2
  <2>10. f \in Surjection(F, 1 .. n)
    BY <2>7, <2>9 DEF Surjection
  <2> QED BY <2>2, <2>8, <2>10, FS_Injection
<1> QED BY <1>1, <1>3, <1>9, <1>10, <1>11, <1>12

\* No place on the screen is empty while a Notification waits for it.
Placed(s) ==
  s.available =>
    /\ s.attention = None =>
         Pending(s) \cap OfKind(s, "attention") = {}
    /\ \/ s.attention # None
       \/ Cardinality(Toasts(s)) = s.limits.maxVisible
       \/ Pending(s) \cap OfKind(s, "toast") = {}

\* Those of s that were given a place by r, the best of their Presentation.
BestPromoted(s, r) ==
  \A i \in Pending(s) \ Pending(r), j \in Pending(r) :
    s.entries[i].draft.pres = s.entries[j].draft.pres =>
      s.pending[i] < s.pending[j]

\* rebalance, first part.
LEMMA PromoteLeaves ==
  ASSUME NEW s, Sound(s), IsLine(s.pending, Pending(s)), IsLine(s.toasts, Toasts(s)),
         WithinScreen(s), NEW r, r = Promote(s)
  PROVE  /\ Sound(r) /\ SameFrame(s, r) /\ r.entries = s.entries
         /\ Placed(r) /\ BestPromoted(s, r) /\ ToastsInOrder(s, r)
         /\ Pending(r) \subseteq Pending(s) /\ Toasts(s) \subseteq Toasts(r)
         /\ \A i, j \in Pending(r) :
              r.pending[i] < r.pending[j] <=> s.pending[i] < s.pending[j]
         /\ Toasts(r) \subseteq Toasts(s) \cup Pending(s)
         /\ \A i \in Toasts(s), j \in Toasts(r) \ Toasts(s) : r.toasts[i] < r.toasts[j]
         /\ \A i, j \in Toasts(r) \ Toasts(s) :
              r.toasts[i] < r.toasts[j] => s.pending[i] < s.pending[j]
         /\ r.attention = s.attention \/ s.attention = None
         /\ Placed(s) => /\ Pending(r) = Pending(s) /\ Toasts(r) = Toasts(s)
                         /\ r.attention = s.attention
         /\ r.closed = s.closed /\ r.closedAs = s.closedAs
         /\ r.revised = s.revised /\ r.contentRevised = s.contentRevised
         /\ r.panicked = s.panicked
<1> DEFINE gate == NextAttention(s)
<1>1. gate = NextAttention(s)
  OBVIOUS
<1>2. PICK moved : moved = NextToasts(s, gate)
  OBVIOUS
<1>3. PICK next : next = IF gate = {} THEN s.attention ELSE CHOOSE i \in gate : TRUE
  OBVIOUS
<1>4. /\ IsState(s) /\ Scheduled(s) /\ DOMAIN s = Fields
      /\ Pending(s) \subseteq Ids /\ Toasts(s) \subseteq Ids /\ Live(s) \subseteq Ids
      /\ s.pending \in [Pending(s) -> Nat] /\ s.toasts \in [Toasts(s) -> Nat]
  BY MembersAreIds DEF Sound, IsState
<1>5. /\ r.attention = next
      /\ r.toasts = Join(s.toasts, Retain(s.pending, moved))
      /\ r.pending = Retain(s.pending, Pending(s) \ ({next} \cup moved))
      /\ r.closed = s.closed /\ r.closedAs = s.closedAs
      /\ r.revised = s.revised /\ r.contentRevised = s.contentRevised
      /\ r.panicked = s.panicked
  <2>1. \A f \in Fields \ {"attention", "toasts", "pending"} : r[f] = s[f]
    BY <1>4, Zenon DEF Fields, Promote
  <2>2. /\ r.closed = s.closed /\ r.closedAs = s.closedAs
        /\ r.revised = s.revised /\ r.contentRevised = s.contentRevised
        /\ r.panicked = s.panicked
    BY <2>1 DEF Fields
  <2>3. /\ r.attention = next
        /\ r.toasts = Join(s.toasts, Retain(s.pending, moved))
        /\ r.pending = Retain(s.pending, Pending(s) \ ({next} \cup moved))
    BY <1>2, <1>3, <1>4, PromoteFields
  <2> QED BY <2>2, <2>3
<1> HIDE DEF gate
<1>6. Sound(r) /\ SameFrame(s, r) /\ r.entries = s.entries
  BY PromoteSound
<1>7. IsFiniteSet(Ids) /\ None \notin Ids
  BY IdsFinite
<1>8. /\ Live(r) = Live(s)
      /\ \A kind : OfKind(r, kind) = OfKind(s, kind)
  BY <1>6 DEF Live, OfKind
\* The gate.
<1>9. ASSUME s.available, s.attention = None
      PROVE  /\ gate \subseteq Pending(s) \cap OfKind(s, "attention")
             /\ gate = {} => Pending(s) \cap OfKind(s, "attention") = {}
             /\ \A i \in gate, j \in (Pending(s) \cap OfKind(s, "attention")) \ gate :
                  s.pending[i] < s.pending[j]
             /\ \A i, j \in gate : i = j
  <2>1. gate = FirstOf(s.pending, OfKind(s, "attention"), 1)
    BY <1>1, <1>9 DEF NextAttention
  <2>2. /\ gate \subseteq OfKind(s, "attention") \cap Pending(s)
        /\ \A i \in gate, j \in (OfKind(s, "attention") \cap Pending(s)) \ gate :
             s.pending[i] < s.pending[j]
        /\ \/ gate = OfKind(s, "attention") \cap Pending(s) \/ Cardinality(gate) = 1
        /\ Cardinality(gate) <= 1
    BY <1>4, <1>7, <2>1, FirstOfLine, FirstOfCount
  <2>3. Cardinality(gate) = 1 => gate # {}
    BY FS_EmptySet
  <2>4. ASSUME NEW i \in gate, NEW j \in gate PROVE i = j
    <3>1. gate \subseteq Ids /\ {i} \subseteq gate /\ Cardinality({i}) = 1
      BY <1>4, <2>2, FS_Singleton
    <3>2. /\ Cardinality(gate) \in Nat
          /\ \A x \in gate \ {i} : Cardinality({i}) < Cardinality(gate)
      BY <1>7, <3>1, PartCounts
    <3> QED BY <2>2, <3>1, <3>2
  <2> QED BY <2>2, <2>3, <2>4
<1>10. ~(s.available /\ s.attention = None) => gate = {}
  BY <1>1 DEF NextAttention
<1>11. /\ gate # {} => next \in gate /\ gate = {next}
       /\ gate = {} => next = s.attention
  BY <1>3, <1>9, <1>10
<1>12. r.attention = s.attention \/ s.attention = None
  BY <1>5, <1>10, <1>11
\* The Toasts.
<1>13. PICK room : room = s.limits.maxVisible - Cardinality(Toasts(s))
  OBVIOUS
<1>14. /\ room \in Int /\ room >= 0
       /\ s.limits.maxVisible \in Nat /\ Cardinality(Toasts(s)) \in Nat
  <2>1. s.limits.maxVisible \in Nat /\ Cardinality(Toasts(s)) \in Nat
    BY <1>4, <1>7, CountIsNat DEF IsState, SchedulerLimits
  <2> QED BY <1>13, <2>1 DEF WithinScreen
<1>15. ASSUME s.available, s.attention = None, gate = {}
       PROVE  /\ moved \subseteq Pending(s) \cap OfKind(s, "toast")
              /\ \A i \in moved, j \in (Pending(s) \cap OfKind(s, "toast")) \ moved :
                   s.pending[i] < s.pending[j]
              /\ room <= 0 => moved = {}
              /\ \/ moved = Pending(s) \cap OfKind(s, "toast")
                 \/ Cardinality(moved) = room
  <2>1. moved = FirstOf(s.pending, OfKind(s, "toast"), room)
    BY <1>2, <1>13, <1>15 DEF NextToasts
  <2> QED BY <1>4, <1>7, <1>14, <2>1, FirstOfLine
<1>16. ~(s.available /\ s.attention = None /\ gate = {}) => moved = {}
  BY <1>2 DEF NextToasts
<1>17. moved \subseteq Pending(s) /\ moved \subseteq OfKind(s, "toast")
       /\ moved \cap Toasts(s) = {} /\ moved \subseteq Ids
  BY <1>4, <1>15, <1>16 DEF Scheduled
\* The queue.
<1>18. PICK stay : stay = Pending(s) \ ({next} \cup moved)
  OBVIOUS
<1>19. /\ Pending(r) = stay /\ stay \subseteq Pending(s)
       /\ \A i, j \in stay : r.pending[i] < r.pending[j] <=> s.pending[i] < s.pending[j]
  <2>1. stay \subseteq Pending(s) /\ r.pending = Retain(s.pending, stay)
    BY <1>5, <1>18
  <2> QED BY <1>4, <2>1, PendingPart
<1>20. gate = {} => stay = Pending(s) \ moved
  BY <1>4, <1>7, <1>11, <1>18 DEF Scheduled
<1>21. gate # {} => stay = Pending(s) \ gate /\ moved = {}
  BY <1>11, <1>16, <1>18
\* The screen.
<1>22. PICK line : line = Retain(s.pending, moved)
  OBVIOUS
<1>23. line \in [moved -> Nat \ {0}]
  <2>1. IsLine(line, moved)
    <3>1. PICK l, P : l = s.pending /\ P = Pending(s)
      OBVIOUS
    <3>2. IsLine(Retain(l, moved), moved)
      BY <1>4, <1>7, <1>17, <3>1, RetainPart
    <3> QED BY <1>22, <3>1, <3>2
  <2>2. Cardinality(moved) \in Nat
    BY <1>7, <1>17, CountIsNat
  <2> QED BY <2>1, <2>2 DEF IsLine
<1>24. \A i, j \in moved : line[i] < line[j] <=> s.pending[i] < s.pending[j]
  <2>1. PICK l, P : l = s.pending /\ P = Pending(s)
    OBVIOUS
  <2>2. P \subseteq Ids /\ moved \subseteq P /\ l \in [P -> Nat]
    BY <1>4, <1>17, <2>1
  <2>3. \A i, j \in moved : Retain(l, moved)[i] < Retain(l, moved)[j] <=> l[i] < l[j]
    BY <1>7, <2>2, RetainPart
  <2> QED BY <1>22, <2>1, <2>3
<1>25. /\ Toasts(r) = Toasts(s) \cup moved
       /\ \A i \in Toasts(s) : r.toasts[i] = s.toasts[i]
       /\ \A j \in moved : r.toasts[j] = Cardinality(Toasts(s)) + line[j]
  <2>1. r.toasts = Join(s.toasts, line)
    BY <1>5, <1>22
  <2>2. DOMAIN s.toasts = Toasts(s) /\ DOMAIN line = moved
    BY <1>23 DEF Toasts
  <2>3. DOMAIN r.toasts = Toasts(s) \cup moved
    BY <2>1, <2>2 DEF Join
  <2>4. \A i \in Toasts(s) \cup moved :
          r.toasts[i] = IF i \in Toasts(s) THEN s.toasts[i]
                        ELSE Cardinality(Toasts(s)) + line[i]
    BY <2>1, <2>2 DEF Join
  <2> QED BY <1>17, <2>3, <2>4 DEF Toasts
<1>26. ASSUME NEW i \in Toasts(s), NEW j \in Toasts(r) \ Toasts(s)
       PROVE  r.toasts[i] < r.toasts[j]
  <2>1. j \in moved /\ s.toasts[i] \in 1 .. Cardinality(Toasts(s))
    BY <1>25 DEF IsLine
  <2>2. line[j] \in Nat /\ line[j] >= 1
    BY <1>23, <2>1
  <2> QED BY <1>14, <1>25, <2>1, <2>2
<1>27. ASSUME NEW i \in Toasts(r) \ Toasts(s), NEW j \in Toasts(r) \ Toasts(s),
              r.toasts[i] < r.toasts[j]
       PROVE  s.pending[i] < s.pending[j]
  <2>1. i \in moved /\ j \in moved
    BY <1>25
  <2>2. line[i] \in Int /\ line[j] \in Int
    BY <1>23, <2>1
  <2>3. line[i] < line[j]
    BY <1>14, <1>25, <1>27, <2>1, <2>2
  <2> QED BY <1>24, <2>1, <2>3
<1>28. ToastsInOrder(s, r)
  BY <1>25 DEF ToastsInOrder
\* Who was promoted.
<1>29. BestPromoted(s, r)
  <2> SUFFICES ASSUME NEW i \in Pending(s) \ stay, NEW j \in stay,
                      s.entries[i].draft.pres = s.entries[j].draft.pres
               PROVE  s.pending[i] < s.pending[j]
    BY <1>19 DEF BestPromoted
  <2>1. i \in Live(s) /\ j \in Live(s) /\ j \in Pending(s)
    BY <1>4, <1>19 DEF Scheduled
  <2>2. CASE gate = {}
    <3>1. i \in moved /\ j \notin moved
      BY <1>20, <2>2
    <3>2. j \in Pending(s) \cap OfKind(s, "toast")
      BY <1>17, <2>1, <3>1 DEF OfKind
    <3> QED BY <1>15, <1>16, <3>1, <3>2
  <2>3. CASE gate # {}
    <3>1. i \in gate /\ j \notin gate
      BY <1>21, <2>3
    <3>2. s.available /\ s.attention = None
      BY <1>10, <2>3
    <3>3. j \in Pending(s) \cap OfKind(s, "attention")
      BY <1>9, <2>1, <3>1, <3>2 DEF OfKind
    <3> QED BY <1>9, <3>1, <3>2, <3>3
  <2> QED BY <2>2, <2>3
<1>30. Placed(r)
  <2> SUFFICES ASSUME s.available, r.attention = None
               PROVE  /\ stay \cap OfKind(s, "attention") = {}
                      /\ \/ Cardinality(Toasts(r)) = s.limits.maxVisible
                         \/ stay \cap OfKind(s, "toast") = {}
    BY <1>6, <1>8, <1>19 DEF Placed, SameFrame
  <2>1. gate = {} /\ s.attention = None
    <3>1. gate # {} => next \in Ids
      BY <1>4, <1>9, <1>10, <1>11
    <3> QED BY <1>5, <1>7, <1>11, <3>1
  <2>2. Pending(s) \cap OfKind(s, "attention") = {}
    BY <1>9, <2>1
  <2>3. CASE moved = Pending(s) \cap OfKind(s, "toast")
    BY <1>20, <2>1, <2>2, <2>3
  <2>4. CASE Cardinality(moved) = room
    <3>1. IsFiniteSet(Toasts(s)) /\ IsFiniteSet(moved)
      BY <1>4, <1>7, <1>17, FS_Subset
    <3>2. Cardinality(Toasts(s) \cap moved) = 0
      <4>1. Toasts(s) \cap moved = {}
        BY <1>17
      <4> QED BY <4>1, FS_EmptySet
    <3>3. Cardinality(Toasts(s) \cup moved) = Cardinality(Toasts(s)) + room
      <4>1. Cardinality(Toasts(s) \cup moved) =
              Cardinality(Toasts(s)) + Cardinality(moved) - Cardinality(Toasts(s) \cap moved)
        BY <3>1, FS_Union
      <4> QED BY <1>14, <2>4, <3>2, <4>1
    <3>4. Cardinality(Toasts(r)) = s.limits.maxVisible
      BY <1>13, <1>14, <1>25, <3>3
    <3> QED BY <1>20, <2>1, <2>2, <3>4
  <2> QED BY <1>15, <2>1, <2>3, <2>4
<1>31. ASSUME Placed(s)
       PROVE  /\ Pending(r) = Pending(s) /\ Toasts(r) = Toasts(s)
              /\ r.attention = s.attention
  <2>1. gate = {}
    <3> SUFFICES ASSUME gate # {} PROVE FALSE
      OBVIOUS
    <3>1. s.available /\ s.attention = None
      BY <1>10
    <3> QED BY <1>9, <1>31, <3>1 DEF Placed
  <2>2. moved = {}
    <3> SUFFICES ASSUME moved # {} PROVE FALSE
      OBVIOUS
    <3>1. s.available /\ s.attention = None
      BY <1>16
    <3>2. \/ Cardinality(Toasts(s)) = s.limits.maxVisible
          \/ Pending(s) \cap OfKind(s, "toast") = {}
      BY <1>31, <3>1 DEF Placed
    <3>3. Cardinality(Toasts(s)) = s.limits.maxVisible => room <= 0
      BY <1>13, <1>14
    <3> QED BY <1>15, <2>1, <3>1, <3>2, <3>3
  <2> QED BY <1>5, <1>11, <1>19, <1>20, <1>25, <2>1, <2>2
<1> QED BY <1>5, <1>6, <1>12, <1>19, <1>25, <1>26, <1>28, <1>17, <1>29, <1>30, <1>31, <1>27

\* rebalance, second part.
Presented(s, now, r) ==
  /\ Sound(r) /\ SameFrame(s, r) /\ Live(r) = Live(s)
  /\ r.pending = s.pending /\ r.toasts = s.toasts
  /\ r.attention = s.attention
  /\ r.closed = s.closed /\ r.closedAs = s.closedAs
  /\ r.revised = s.revised /\ r.contentRevised = s.contentRevised
  /\ r.panicked = s.panicked
  /\ \A i \in Live(s) :
       /\ r.entries[i].draft = s.entries[i].draft
       /\ r.entries[i].nonce = s.entries[i].nonce
       /\ r.entries[i].timer =
            IF i \in Toasts(s)
            THEN SetRunning(s.entries[i].timer, now,
                            ToastTimerShouldRun(s, i)
                              /\ s.entries[i].nonce = None)
            ELSE s.entries[i].timer

LEMMA PresentLeaves ==
  ASSUME NEW s, Sound(s), NEW now \in Nat, NEW r, r = Present(s, now)
  PROVE  Presented(s, now, r)
<1> DEFINE timer(i) == IF i \in Toasts(s)
                       THEN SetRunning(s.entries[i].timer, now,
                                       ToastTimerShouldRun(s, i)
                                         /\ s.entries[i].nonce = None)
                       ELSE s.entries[i].timer
           after == [i \in Live(s) |->
                       [s.entries[i] EXCEPT !.delivery = Delivery(s, i),
                                            !.timer = timer(i)]]
<1>1. DOMAIN s = Fields /\ s.entries \in [Live(s) -> Entry]
  BY MembersAreIds DEF Sound, IsState
<1>2. Sound(r) /\ SameFrame(s, r) /\ Live(r) = Live(s)
  BY PresentSound
<1>3. r = [s EXCEPT !.entries = after]
  BY DEF Present
<1>4. ASSUME NEW i \in Live(s)
      PROVE  /\ after[i].draft = s.entries[i].draft
             /\ after[i].nonce = s.entries[i].nonce
             /\ after[i].timer = timer(i)
  <2>1. s.entries[i] \in Entry
    BY <1>1
  <2> HIDE DEF timer
  <2> QED BY <2>1 DEF Entry
<1> HIDE DEF timer, after
<1>5. /\ r.entries = after
      /\ r.pending = s.pending /\ r.toasts = s.toasts /\ r.attention = s.attention
      /\ r.closed = s.closed /\ r.closedAs = s.closedAs
      /\ r.revised = s.revised /\ r.contentRevised = s.contentRevised
      /\ r.panicked = s.panicked
  BY <1>1, <1>3 DEF Fields
<1> QED BY <1>2, <1>4, <1>5 DEF timer, Presented

\* sort_pending.
LEMMA SortLeaves ==
  ASSUME NEW s, Sound(s), NEW r, r = SortPending(s)
  PROVE  /\ Sound(r) /\ SameFrame(s, r) /\ r.entries = s.entries
         /\ Pending(r) = Pending(s) /\ r.toasts = s.toasts
         /\ r.attention = s.attention
         /\ r.closed = s.closed /\ r.closedAs = s.closedAs
         /\ r.revised = s.revised /\ r.contentRevised = s.contentRevised
         /\ r.panicked = s.panicked
<1>1. DOMAIN s = Fields
  BY DEF Sound, IsState
<1>2. Sound(r) /\ SameFrame(s, r)
  BY SortPendingSound
<1>3. PICK line : line = Sorted(Pending(s), ServedBefore(s))
  OBVIOUS
<1>4. r = [s EXCEPT !.pending = line]
  BY <1>3 DEF SortPending
<1>5. DOMAIN line = Pending(s)
  BY <1>3 DEF Sorted
<1> QED BY <1>1, <1>2, <1>4, <1>5 DEF Fields, Pending

\* The last n of a line are n at most, and nobody else is behind them.
LEMMA LastOfLine ==
  ASSUME NEW U, IsFiniteSet(U), NEW A, A \subseteq U, NEW l, IsLine(l, A),
         NEW S, NEW n \in Int
  PROVE  /\ LastOf(l, S, n) \subseteq S \cap A
         /\ \A i \in LastOf(l, S, n), j \in (S \cap A) \ LastOf(l, S, n) :
              l[j] < l[i]
         /\ n <= 0 => LastOf(l, S, n) = {}
         /\ n >= 0 => Cardinality(LastOf(l, S, n)) <= n
<1>1. PICK K : K = S \cap A
  OBVIOUS
<1>2. PICK k : k = Cardinality(K)
  OBVIOUS
<1>3. K \subseteq U /\ K \subseteq A /\ k \in Nat /\ Cardinality(A) \in Nat
  BY <1>1, <1>2, CountIsNat
<1>4. PICK r : r = Retain(l, S)
  OBVIOUS
<1>5. /\ IsLine(r, K)
      /\ \A i, j \in K : r[i] < r[j] <=> l[i] < l[j]
  BY <1>1, <1>4, RetainLine
<1>6. PICK rev : rev = Reversed(r)
  OBVIOUS
<1>7. rev \in [K -> 1 .. k] /\ \A i, j \in K : rev[i] = rev[j] => i = j
  BY <1>2, <1>3, <1>5, <1>6, ReversedLine DEF IsLine
<1>8. DOMAIN l = A /\ \A i \in A : l[i] \in Int
  BY <1>3 DEF IsLine
<1>9. DOMAIN r = K /\ \A i \in K : r[i] \in Int
  BY <1>2, <1>3, <1>5 DEF IsLine
<1> DEFINE from(i) == {j \in K : l[i] <= l[j]}
<1>10. \A i \in K : rev[i] = Cardinality(from(i))
  <2> SUFFICES ASSUME NEW i \in K PROVE rev[i] = Cardinality(from(i))
    OBVIOUS
  <2>1. \A j \in K : r[i] <= r[j] <=> l[i] <= l[j]
    BY <1>3, <1>5, <1>8, <1>9
  <2>2. {j \in K : r[i] <= r[j]} = from(i)
    BY <2>1
  <2> QED BY <1>6, <1>9, <2>2 DEF Reversed
<1>11. PICK F : F = LastOf(l, S, n)
  OBVIOUS
<1>12. F = {i \in K : rev[i] <= n}
  BY <1>1, <1>8, <1>10, <1>11 DEF LastOf
<1>13. ASSUME NEW i \in F, NEW j \in K \ F
       PROVE  l[j] < l[i]
  <2> SUFFICES ASSUME l[i] <= l[j] PROVE FALSE
    BY <1>3, <1>8, <1>12
  <2>1. from(j) \subseteq from(i) /\ from(i) \subseteq K
    BY <1>3, <1>8, <1>12
  <2>2. i \in K /\ j \in K /\ rev[i] <= n /\ ~(rev[j] <= n)
    BY <1>12
  <2>3. Cardinality(from(j)) <= Cardinality(from(i))
    <3>1. from(i) \subseteq U
      BY <1>3, <2>1
    <3> HIDE DEF from
    <3> QED BY <2>1, <3>1, PartCounts
  <2>4. rev[i] \in Int /\ rev[j] \in Int
    BY <1>3, <1>7, <2>2
  <2> HIDE DEF from
  <2> QED BY <1>10, <2>2, <2>3, <2>4
<1> HIDE DEF from
<1>14. ASSUME n <= 0
       PROVE  F = {}
  BY <1>3, <1>7, <1>12, <1>14
<1>15. ASSUME n >= 0
       PROVE  Cardinality(F) <= n
  <2>1. PICK f : f = [i \in F |-> rev[i]]
    OBVIOUS
  <2>2. \A i \in F : rev[i] \in 1 .. n
    BY <1>3, <1>7, <1>12, <1>15
  <2>3. f \in Injection(F, 1 .. n)
    BY <1>7, <1>12, <2>1, <2>2 DEF Injection, IsInjective
  <2>4. IsFiniteSet(1 .. n) /\ Cardinality(1 .. n) = n
    BY <1>15, FS_Interval
  <2> QED BY <2>3, <2>4, FS_Injection
<1> QED BY <1>1, <1>11, <1>12, <1>13, <1>14, <1>15

\* enforce_pending_limit closes pending Notifications that no jump pins, as
\* many as are too many, and the others are before them.
Enforced(s, r, losers) ==
  /\ Sound(r) /\ SameFrame(s, r) /\ Untouched(s, r)
  /\ Live(r) = Live(s) \ losers /\ Pending(r) = Pending(s) \ losers
  /\ \A i, j \in Pending(r) :
       r.pending[i] < r.pending[j] <=> s.pending[i] < s.pending[j]
  /\ Toasts(r) = Toasts(s) /\ ToastsInOrder(s, r)
  /\ r.attention = s.attention
  /\ \A i \in losers, j \in (Pending(s) \cap Unpinned(s)) \ losers :
       s.pending[j] < s.pending[i]
  /\ losers # {} => Cardinality(Pending(r)) >= s.limits.maxPending
  /\ \A i \in Closed(r) :
       \/ i \in losers /\ r.closedAs[i] = "RenderSuppressed"
       \/ i \in Closed(s) /\ r.closedAs[i] = s.closedAs[i]
  /\ Cardinality(Closed(s) \cup losers) <= ClosedCapacity(s.limits) =>
       Closed(r) = Closed(s) \cup losers
  /\ r.revised = (s.revised \/ losers # {})
  /\ r.contentRevised = (s.contentRevised \/ losers # {})

LEMMA EnforceLeaves ==
  ASSUME NEW s, Sound(s), IsLine(s.pending, Pending(s)),
         NEW r, r = EnforcePendingLimit(s)
  PROVE  \E losers \in SUBSET (Pending(s) \cap Unpinned(s)) : Enforced(s, r, losers)
<1>1. PICK excess : excess = Cardinality(Pending(s)) - s.limits.maxPending
  OBVIOUS
<1>2. PICK losers : losers = Losers(s, excess)
  OBVIOUS
<1>3. PICK batch : batch = Reversed(Retain(s.pending, losers))
  OBVIOUS
<1>4. PICK c : c = CloseInner(s, batch, "RenderSuppressed")
  OBVIOUS
<1>5. PICK failed : failed = (Cardinality(Pending(s) \cap Unpinned(s)) < excess)
  OBVIOUS
<1>6. /\ IsState(s) /\ Scheduled(s) /\ Pending(s) \subseteq Ids /\ Live(s) \subseteq Ids
      /\ s.pending \in [Pending(s) -> Nat] /\ IsFiniteSet(Ids) /\ None \notin Ids
  BY MembersAreIds, IdsFinite DEF Sound
<1>7. /\ s.limits.maxPending \in Nat /\ Cardinality(Pending(s)) \in Nat
      /\ excess \in Int
  BY <1>1, <1>6, CountIsNat DEF IsState, SchedulerLimits
<1>8. PICK U : U = Unpinned(s)
  OBVIOUS
<1>9. /\ losers \subseteq U \cap Pending(s)
      /\ \A i \in losers, j \in (U \cap Pending(s)) \ losers : s.pending[j] < s.pending[i]
      /\ excess <= 0 => losers = {}
      /\ excess >= 0 => Cardinality(losers) <= excess
  <2>1. PICK l, P : l = s.pending /\ P = Pending(s)
    OBVIOUS
  <2>2. losers = LastOf(l, U, excess)
    BY <1>2, <1>8, <2>1 DEF Losers
  <2>3. P \subseteq Ids /\ IsLine(l, P)
    BY <1>6, <2>1
  <2>4. /\ losers \subseteq U \cap P
        /\ \A i \in losers, j \in (U \cap P) \ losers : l[j] < l[i]
        /\ excess <= 0 => losers = {}
        /\ excess >= 0 => Cardinality(losers) <= excess
    BY <1>6, <1>7, <2>2, <2>3, LastOfLine
  <2> QED BY <2>1, <2>4
<1>10. losers \subseteq Pending(s) /\ losers \subseteq Live(s) /\ losers \subseteq Ids
  BY <1>6, <1>9 DEF Scheduled
<1>11. DOMAIN batch = losers /\ batch \in [losers -> Nat]
  <2>1. PICK l, P : l = s.pending /\ P = Pending(s)
    OBVIOUS
  <2>2. IsLine(Retain(l, losers), losers)
    BY <1>6, <1>10, <2>1, RetainPart
  <2>3. IsLine(batch, losers)
    BY <1>3, <1>6, <1>10, <2>1, <2>2, ReversedLine
  <2>4. Cardinality(losers) \in Nat
    BY <1>6, <1>10, CountIsNat
  <2> QED BY <2>3, <2>4 DEF IsLine
<1>12. r = [c EXCEPT !.panicked = failed]
  BY <1>1, <1>2, <1>3, <1>4, <1>5 DEF EnforcePendingLimit
<1>13. /\ Sound(c) /\ SameFrame(s, c) /\ Untouched(s, c) /\ ToastsInOrder(s, c)
       /\ Live(c) = Live(s) \ losers /\ Pending(c) = Pending(s) \ losers
       /\ \A i, j \in Pending(c) :
            c.pending[i] < c.pending[j] <=> s.pending[i] < s.pending[j]
       /\ Toasts(c) = Toasts(s) \ losers
       /\ c.attention = IF s.attention \in losers THEN None ELSE s.attention
       /\ \A i \in Closed(c) :
            \/ i \in losers /\ c.closedAs[i] = "RenderSuppressed"
            \/ i \in Closed(s) /\ c.closedAs[i] = s.closedAs[i]
       /\ Cardinality(Closed(s) \cup losers) <= ClosedCapacity(s.limits) =>
            Closed(c) = Closed(s) \cup losers
       /\ c.revised = (s.revised \/ losers # {})
       /\ c.contentRevised = (s.contentRevised \/ losers # {})
  <2>1. PICK why \in Reasons : why = "RenderSuppressed"
    BY DEF Reasons
  <2>2. DOMAIN batch \subseteq Live(s) /\ batch \in [DOMAIN batch -> Nat]
    BY <1>10, <1>11
  <2>4. /\ Sound(c) /\ SameFrame(s, c) /\ Untouched(s, c) /\ ToastsInOrder(s, c)
        /\ Live(c) = Live(s) \ DOMAIN batch
        /\ Pending(c) = Pending(s) \ DOMAIN batch
        /\ \A i, j \in Pending(c) :
             c.pending[i] < c.pending[j] <=> s.pending[i] < s.pending[j]
        /\ Toasts(c) = Toasts(s) \ DOMAIN batch
        /\ c.attention = IF s.attention \in DOMAIN batch THEN None ELSE s.attention
        /\ \A i \in Closed(c) :
             \/ i \in DOMAIN batch /\ c.closedAs[i] = why
             \/ i \in Closed(s) /\ c.closedAs[i] = s.closedAs[i]
        /\ Cardinality(Closed(s) \cup DOMAIN batch) <= ClosedCapacity(s.limits) =>
             Closed(c) = Closed(s) \cup DOMAIN batch
        /\ c.revised = (s.revised \/ DOMAIN batch # {})
        /\ c.contentRevised = (s.contentRevised \/ DOMAIN batch # {})
    <3>1. c = CloseInner(s, batch, why)
      BY <1>4, <2>1
    <3> QED BY <2>2, <3>1, CloseInnerLeaves
  <2>5. DOMAIN batch = losers
    BY <1>11
  <2> QED BY <2>1, <2>4, <2>5
<1>14. /\ r.entries = c.entries /\ r.pending = c.pending /\ r.toasts = c.toasts
       /\ r.attention = c.attention /\ r.closed = c.closed /\ r.closedAs = c.closedAs
       /\ r.revised = c.revised /\ r.contentRevised = c.contentRevised
       /\ SameFrame(c, r)
  <2>1. DOMAIN c = Fields
    BY <1>13 DEF Sound, IsState
  <2> QED BY <1>12, <2>1 DEF Fields, SameFrame
<1>15. /\ Live(r) = Live(c) /\ Pending(r) = Pending(c) /\ Toasts(r) = Toasts(c)
       /\ Closed(r) = Closed(c)
  BY <1>14 DEF Live, Pending, Toasts, Closed
<1>16. Sound(r)
  BY EnforcePendingLimitSound
<1>17. /\ SameFrame(s, r) /\ Untouched(s, r) /\ ToastsInOrder(s, r)
  BY <1>13, <1>14, <1>15 DEF SameFrame, Untouched, ToastsInOrder
<1>18. Toasts(r) = Toasts(s) /\ r.attention = s.attention
  BY <1>6, <1>10, <1>13, <1>14, <1>15 DEF Scheduled
<1>19. ASSUME losers # {}
       PROVE  Cardinality(Pending(r)) >= s.limits.maxPending
  <2>1. excess >= 0 /\ Cardinality(losers) <= excess
    BY <1>7, <1>9, <1>19
  <2>2. IsFiniteSet(Pending(s)) /\ IsFiniteSet(losers) /\ Cardinality(losers) \in Nat
    BY <1>6, <1>10, CountIsNat
  <2>3. Cardinality(Pending(s) \ losers) = Cardinality(Pending(s)) - Cardinality(Pending(s) \cap losers)
    BY <2>2, FS_Difference
  <2>4. Pending(s) \cap losers = losers
    BY <1>10
  <2>5. PICK p, q, m, n : /\ p = Cardinality(Pending(s)) /\ q = Cardinality(losers)
                          /\ m = s.limits.maxPending /\ n = Cardinality(Pending(r))
    OBVIOUS
  <2>6. n = p - q
    BY <1>13, <1>15, <2>3, <2>4, <2>5
  <2>7. p \in Nat /\ q \in Nat /\ m \in Nat /\ excess = p - m /\ q <= excess
    BY <1>1, <1>7, <2>1, <2>2, <2>5
  <2>8. n >= m
    BY <2>6, <2>7
  <2> QED BY <2>5, <2>8
<1>20. losers \in SUBSET (Pending(s) \cap Unpinned(s))
  BY <1>8, <1>9
<1>21. \A i \in losers, j \in (Pending(s) \cap Unpinned(s)) \ losers :
         s.pending[j] < s.pending[i]
  BY <1>8, <1>9
<1>22. /\ Live(r) = Live(s) \ losers /\ Pending(r) = Pending(s) \ losers
       /\ \A i, j \in Pending(r) :
            r.pending[i] < r.pending[j] <=> s.pending[i] < s.pending[j]
       /\ \A i \in Closed(r) :
            \/ i \in losers /\ r.closedAs[i] = "RenderSuppressed"
            \/ i \in Closed(s) /\ r.closedAs[i] = s.closedAs[i]
       /\ Cardinality(Closed(s) \cup losers) <= ClosedCapacity(s.limits) =>
            Closed(r) = Closed(s) \cup losers
       /\ r.revised = (s.revised \/ losers # {})
       /\ r.contentRevised = (s.contentRevised \/ losers # {})
  BY <1>13, <1>14, <1>15
<1>23. Enforced(s, r, losers)
  BY <1>16, <1>17, <1>18, <1>19, <1>21, <1>22 DEF Enforced
<1> QED BY <1>20, <1>23

-----------------------------------------------------------------------------
(* What rebalance, enforce_pending_limit and the revisions leave, after    *)
(* whatever a method did before them.                                      *)

\* Who is on the screen stays, and newcomers from the queue go behind, in the
\* order they are served in.
Seated(q, r) ==
  /\ Toasts(q) \subseteq Toasts(r) /\ Toasts(r) \subseteq Toasts(q) \cup Pending(q)
  /\ ToastsInOrder(q, r)
  /\ \A i \in Toasts(q), j \in Toasts(r) \ Toasts(q) : r.toasts[i] < r.toasts[j]
  /\ \A i, j \in Toasts(r) \ Toasts(q) :
       r.toasts[i] < r.toasts[j] => <<i, j>> \in ServedBefore(q)
  /\ Pending(r) \subseteq Pending(q)
  /\ r.attention = q.attention \/ q.attention = None
  /\ Placed(q) => /\ Pending(r) = Pending(q) \cap Live(r)
                  /\ Toasts(r) = Toasts(q) /\ r.attention = q.attention

\* The timers of the Toasts run or stop, no other timer changes.
Timed(q, r) ==
  \A i \in Live(r) :
    r.entries[i].timer =
      IF i \in Toasts(r)
      THEN SetRunning(q.entries[i].timer, q.lastNow,
                      ToastTimerShouldRun(r, i) /\ q.entries[i].nonce = None)
      ELSE q.entries[i].timer

\* Who gets a place is the best of its Presentation that waited.
Ranked(q, r) ==
  \A i \in (Pending(q) \cap Live(r)) \ Pending(r), j \in Pending(r) :
    q.entries[i].draft.pres = q.entries[j].draft.pres =>
      <<i, j>> \in ServedBefore(q)

\* Who is closed was pending and not pinned, the queue was over its limit, and
\* those that stay are served before; its record is kept if there is room.
Suppressed(q, r) ==
  LET gone == Live(q) \ Live(r)
  IN  /\ gone \subseteq Pending(q) \cap Unpinned(q)
      /\ gone # {} => Cardinality(Pending(r)) >= q.limits.maxPending
      /\ \A i \in gone, j \in Pending(r) :
           q.entries[j].nonce = None => <<j, i>> \in ServedBefore(q)
      /\ \A i \in Closed(r) : \/ i \in gone /\ r.closedAs[i] = "RenderSuppressed"
                              \/ i \in Closed(q) /\ r.closedAs[i] = q.closedAs[i]
      /\ Cardinality(Closed(q) \cup gone) <= ClosedCapacity(q.limits) =>
           Closed(r) = Closed(q) \cup gone

\* The revisions only go up, and both do when a Notification is closed.
RevisionsRise(q, r) ==
  /\ q.revised => r.revised
  /\ q.contentRevised => r.contentRevised
  /\ Live(q) \ Live(r) # {} => r.revised /\ r.contentRevised

Arranged(q, r) ==
  /\ Sound(r) /\ SameFrame(q, r) /\ Kept(q, r)
  /\ Placed(r) /\ Seated(q, r) /\ Timed(q, r) /\ Ranked(q, r)
  /\ Suppressed(q, r) /\ RevisionsRise(q, r)

\* rebalance.
LEMMA RebalanceArranges ==
  ASSUME NEW s, Sound(s), Tidy(s), NEW now, now = s.lastNow,
         NEW r, r = Rebalance(s, now)
  PROVE  /\ Arranged(s, r) /\ Live(r) = Live(s) /\ Tidy(r)
         /\ r.revised = s.revised /\ r.contentRevised = s.contentRevised
         /\ r.panicked = s.panicked /\ r.closed = s.closed /\ r.closedAs = s.closedAs
<1>1. PICK m : m = Promote(s)
  OBVIOUS
<1>2. r = Present(m, now)
  BY <1>1 DEF Rebalance
<1>3. /\ IsState(s) /\ now \in Nat /\ Scheduled(s)
      /\ IsLine(s.pending, Pending(s)) /\ IsLine(s.toasts, Toasts(s)) /\ WithinScreen(s)
      /\ InServingOrder(s)
  BY DEF Sound, IsState, Tidy, Lined
<1>4. /\ Sound(m) /\ SameFrame(s, m) /\ m.entries = s.entries
      /\ Placed(m) /\ BestPromoted(s, m) /\ ToastsInOrder(s, m)
      /\ Pending(m) \subseteq Pending(s) /\ Toasts(s) \subseteq Toasts(m)
      /\ Toasts(m) \subseteq Toasts(s) \cup Pending(s)
      /\ \A i \in Toasts(s), j \in Toasts(m) \ Toasts(s) : m.toasts[i] < m.toasts[j]
      /\ \A i, j \in Toasts(m) \ Toasts(s) :
           m.toasts[i] < m.toasts[j] => s.pending[i] < s.pending[j]
      /\ m.attention = s.attention \/ s.attention = None
      /\ Placed(s) => /\ Pending(m) = Pending(s) /\ Toasts(m) = Toasts(s)
                      /\ m.attention = s.attention
      /\ m.closed = s.closed /\ m.closedAs = s.closedAs
      /\ m.revised = s.revised /\ m.contentRevised = s.contentRevised
      /\ m.panicked = s.panicked
  BY <1>1, <1>3, PromoteLeaves
<1>5. /\ Sound(r) /\ SameFrame(m, r) /\ Live(r) = Live(m)
      /\ r.pending = m.pending /\ r.toasts = m.toasts
      /\ r.attention = m.attention
      /\ r.closed = m.closed /\ r.closedAs = m.closedAs
      /\ r.revised = m.revised /\ r.contentRevised = m.contentRevised
      /\ r.panicked = m.panicked
      /\ \A i \in Live(m) :
           /\ r.entries[i].draft = m.entries[i].draft
           /\ r.entries[i].nonce = m.entries[i].nonce
           /\ r.entries[i].timer =
                IF i \in Toasts(m)
                THEN SetRunning(m.entries[i].timer, now,
                                ToastTimerShouldRun(m, i)
                                  /\ m.entries[i].nonce = None)
                ELSE m.entries[i].timer
  <2>1. Presented(m, now, r)
    BY <1>2, <1>3, <1>4, PresentLeaves
  <2> QED BY <2>1 DEF Presented
<1>6. /\ Live(m) = Live(s) /\ Pending(r) = Pending(m) /\ Toasts(r) = Toasts(m)
      /\ Closed(r) = Closed(s) /\ Pending(s) \subseteq Live(s)
  BY <1>3, <1>4, <1>5 DEF Live, Pending, Toasts, Closed, Scheduled
<1>7. SameFrame(s, r) /\ Kept(s, r)
  BY <1>4, <1>5, <1>6 DEF SameFrame, Kept
<1>8. Placed(r)
  <2>1. \A kind : OfKind(r, kind) = OfKind(m, kind)
    BY <1>5 DEF OfKind
  <2> QED BY <1>4, <1>5, <1>6, <2>1 DEF Placed, SameFrame
<1>9. Seated(s, r)
  <2>1. ToastsInOrder(s, r)
    BY <1>4, <1>5, <1>6 DEF ToastsInOrder
  <2>2. \A i, j \in Toasts(r) \ Toasts(s) :
          r.toasts[i] < r.toasts[j] => <<i, j>> \in ServedBefore(s)
    BY <1>3, <1>4, <1>5, <1>6 DEF InServingOrder
  <2> QED BY <1>4, <1>5, <1>6, <2>1, <2>2 DEF Seated
<1>10. Timed(s, r)
  <2>1. \A i : ToastTimerShouldRun(r, i) = ToastTimerShouldRun(m, i)
    BY <1>5, <1>6 DEF ToastTimerShouldRun, SameFrame
  <2> QED BY <1>4, <1>5, <1>6, <2>1 DEF Timed
<1>11. Ranked(s, r)
  <2> SUFFICES ASSUME NEW i \in (Pending(s) \cap Live(r)) \ Pending(r),
                      NEW j \in Pending(r),
                      s.entries[i].draft.pres = s.entries[j].draft.pres
               PROVE  <<i, j>> \in ServedBefore(s)
    BY DEF Ranked
  <2>1. s.pending[i] < s.pending[j]
    BY <1>4, <1>6 DEF BestPromoted
  <2> QED BY <1>3, <1>4, <1>6, <2>1 DEF InServingOrder
<1>12. Suppressed(s, r) /\ RevisionsRise(s, r)
  BY <1>4, <1>5, <1>6 DEF Suppressed, RevisionsRise
<1>13. Tidy(r)
  <2>1. Tended(s, r)
    BY <1>3, RebalanceTended
  <2> QED BY <2>1 DEF Tended
<1> QED BY <1>4, <1>5, <1>6, <1>7, <1>8, <1>9, <1>10, <1>11, <1>12, <1>13 DEF Arranged

\* enforce_pending_limit, when nobody was closed before it.
LEMMA EnforceArranges ==
  ASSUME NEW s, Sound(s), NEW t, Arranged(s, t), Tidy(t), Live(t) = Live(s),
         t.closed = s.closed, t.closedAs = s.closedAs,
         NEW r, r = EnforcePendingLimit(t)
  PROVE  Arranged(s, r)
<1>1. /\ Sound(t) /\ SameFrame(s, t) /\ Kept(s, t) /\ Placed(t) /\ Seated(s, t)
      /\ Timed(s, t) /\ Ranked(s, t) /\ RevisionsRise(s, t)
      /\ IsLine(t.pending, Pending(t)) /\ InServingOrder(t)
  BY DEF Arranged, Tidy, Lined
<1>0. PICK losers \in SUBSET (Pending(t) \cap Unpinned(t)) : Enforced(t, r, losers)
  BY <1>1, EnforceLeaves
<1>2. /\ Sound(r) /\ SameFrame(t, r) /\ Untouched(t, r)
      /\ Live(r) = Live(t) \ losers /\ Pending(r) = Pending(t) \ losers
      /\ \A i, j \in Pending(r) :
           r.pending[i] < r.pending[j] <=> t.pending[i] < t.pending[j]
      /\ Toasts(r) = Toasts(t) /\ ToastsInOrder(t, r)
      /\ r.attention = t.attention
      /\ \A i \in losers, j \in (Pending(t) \cap Unpinned(t)) \ losers :
           t.pending[j] < t.pending[i]
      /\ losers # {} => Cardinality(Pending(r)) >= t.limits.maxPending
      /\ \A i \in Closed(r) :
           \/ i \in losers /\ r.closedAs[i] = "RenderSuppressed"
           \/ i \in Closed(t) /\ r.closedAs[i] = t.closedAs[i]
      /\ Cardinality(Closed(t) \cup losers) <= ClosedCapacity(t.limits) =>
           Closed(r) = Closed(t) \cup losers
      /\ r.revised = (t.revised \/ losers # {})
      /\ r.contentRevised = (t.contentRevised \/ losers # {})
  BY <1>0 DEF Enforced
<1>3. /\ IsState(t) /\ Scheduled(t) /\ IsState(s) /\ Scheduled(s)
      /\ Pending(t) \subseteq Live(t) /\ Pending(s) \subseteq Live(s)
  BY <1>1 DEF Sound, Scheduled
<1>4. losers \subseteq Live(s) /\ Live(s) \ Live(r) = losers /\ Live(r) \subseteq Live(t)
      /\ losers \cap Toasts(t) = {}
  BY <1>2, <1>3 DEF Scheduled
<1>5. /\ \A i \in Live(r) : r.entries[i] = t.entries[i]
      /\ \A i \in Live(t) : /\ t.entries[i].draft = s.entries[i].draft
                            /\ t.entries[i].nonce = s.entries[i].nonce
  BY <1>1, <1>2 DEF Untouched, Kept
<1>6. SameFrame(s, r) /\ Kept(s, r)
  BY <1>1, <1>2, <1>4, <1>5 DEF SameFrame, Kept
<1>7. Placed(r)
  <2>1. \A kind : OfKind(r, kind) \subseteq OfKind(t, kind)
    BY <1>4, <1>5 DEF OfKind
  <2>2. Pending(r) \subseteq Pending(t)
    BY <1>2
  <2> QED BY <1>1, <1>2, <2>1, <2>2 DEF Placed, SameFrame
<1>8. Seated(s, r)
  <2>1. ToastsInOrder(s, r)
    BY <1>1, <1>2 DEF Seated, ToastsInOrder
  <2>2. /\ Toasts(s) \subseteq Toasts(r) /\ Toasts(r) \subseteq Toasts(s) \cup Pending(s)
        /\ Pending(r) \subseteq Pending(s)
        /\ r.attention = s.attention \/ s.attention = None
    BY <1>1, <1>2 DEF Seated
  <2>3. ASSUME NEW i \in Toasts(s), NEW j \in Toasts(r) \ Toasts(s)
        PROVE  r.toasts[i] < r.toasts[j]
    <3>1. i \in Toasts(t) /\ j \in Toasts(t) \ Toasts(s) /\ t.toasts[i] < t.toasts[j]
      BY <1>1, <1>2 DEF Seated
    <3> QED BY <1>2, <3>1 DEF ToastsInOrder
  <2>4. Placed(s) => /\ Pending(r) = Pending(s) \cap Live(r)
                     /\ Toasts(r) = Toasts(s) /\ r.attention = s.attention
    BY <1>1, <1>2, <1>3 DEF Seated
  <2>5. ASSUME NEW i \in Toasts(r) \ Toasts(s), NEW j \in Toasts(r) \ Toasts(s),
               r.toasts[i] < r.toasts[j]
        PROVE  <<i, j>> \in ServedBefore(s)
    <3>1. i \in Toasts(t) \ Toasts(s) /\ j \in Toasts(t) \ Toasts(s)
      BY <1>2
    <3>2. t.toasts[i] < t.toasts[j]
      BY <1>2, <2>5, <3>1 DEF ToastsInOrder
    <3> QED BY <1>1, <3>1, <3>2 DEF Seated
  <2> QED BY <2>1, <2>2, <2>3, <2>4, <2>5 DEF Seated
<1>9. Timed(s, r)
  <2>1. \A i : ToastTimerShouldRun(r, i) = ToastTimerShouldRun(t, i)
    BY <1>2 DEF ToastTimerShouldRun, SameFrame
  <2> QED BY <1>1, <1>2, <1>4, <1>5, <2>1 DEF Timed
<1>10. Ranked(s, r)
  <2>1. (Pending(s) \cap Live(r)) \ Pending(r) \subseteq (Pending(s) \cap Live(t)) \ Pending(t)
    BY <1>2, <1>4
  <2>2. Pending(r) \subseteq Pending(t)
    BY <1>2
  <2> QED BY <1>1, <2>1, <2>2 DEF Ranked
<1>11. Suppressed(s, r)
  <2>1. losers \subseteq Pending(s) \cap Unpinned(s)
    BY <1>1, <1>3, <1>5 DEF Seated, Unpinned
  <2>2. ASSUME NEW i \in losers, NEW j \in Pending(r), s.entries[j].nonce = None
        PROVE  <<j, i>> \in ServedBefore(s)
    <3>1. i \in Pending(t) /\ j \in (Pending(t) \cap Unpinned(t)) \ losers
      BY <1>2, <1>3, <1>5, <2>2 DEF Unpinned
    <3>2. t.pending[j] < t.pending[i]
      BY <1>2, <3>1
    <3>3. <<j, i>> \in ServedBefore(t)
      BY <1>1, <3>1, <3>2 DEF InServingOrder
    <3> QED BY <1>3, <1>5, <3>1, <3>3 DEF ServedBefore
  <2>3. Closed(t) = Closed(s) /\ t.limits = s.limits
    BY <1>1 DEF Closed, SameFrame
  <2> QED BY <1>2, <1>4, <2>1, <2>2, <2>3 DEF Suppressed
<1>12. RevisionsRise(s, r)
  BY <1>1, <1>2, <1>4 DEF RevisionsRise
<1> QED BY <1>2, <1>6, <1>7, <1>8, <1>9, <1>10, <1>11, <1>12 DEF Arranged

\* The revisions.
LEMMA BumpLeaves ==
  ASSUME NEW s, Sound(s), NEW r, r \in {BumpRevision(s), BumpContentRevision(s)}
  PROVE  /\ Sound(r) /\ SameFrame(s, r) /\ r.entries = s.entries
         /\ r.pending = s.pending /\ r.toasts = s.toasts
         /\ r.attention = s.attention
         /\ r.closed = s.closed /\ r.closedAs = s.closedAs
         /\ r.revised /\ (s.contentRevised => r.contentRevised)
         /\ r = BumpContentRevision(s) => r.contentRevised
         /\ r.panicked = s.panicked
<1>1. IsState(s) /\ DOMAIN s = Fields /\ s.contentRevised \in BOOLEAN
  BY DEF Sound, IsState
<1>2. /\ DOMAIN r = Fields /\ r.revised = TRUE
      /\ \A f \in Fields \ {"revised", "contentRevised"} : r[f] = s[f]
      /\ r.contentRevised \in {s.contentRevised, TRUE}
      /\ r = BumpContentRevision(s) => r.contentRevised = TRUE
  BY <1>1 DEF Fields, BumpRevision, BumpContentRevision
<1>3. /\ SameFrame(s, r) /\ r.entries = s.entries
      /\ r.closed = s.closed /\ r.closedAs = s.closedAs /\ r.liveKeys = s.liveKeys
      /\ r.pending = s.pending /\ r.toasts = s.toasts /\ r.attention = s.attention
      /\ r.panicked = s.panicked
  BY <1>2 DEF Fields, SameFrame
<1>4. Sound(r)
  <2>1. /\ r.limits \in SchedulerLimits /\ r.available \in BOOLEAN
        /\ r.nextNonce \in Nat /\ r.lastNow \in Nat
    BY <1>1, <1>3 DEF IsState, SameFrame
  <2>2. r.revised \in BOOLEAN /\ r.contentRevised \in BOOLEAN /\ r.panicked \in BOOLEAN
    BY <1>1, <1>2, <1>3 DEF IsState
  <2>3. r.nextSequence = s.nextSequence /\ s.entries \in [Live(s) -> Entry]
    BY <1>1, <1>3, MembersAreIds DEF SameFrame, Sound
  <2> QED BY <1>2, <1>3, <2>1, <2>2, <2>3, SoundCarries
<1> QED BY <1>2, <1>3, <1>4

\* ... after the rest.
LEMMA BumpArranges ==
  ASSUME NEW s, Sound(s), NEW t, Arranged(s, t),
         NEW r, r \in {BumpRevision(t), BumpContentRevision(t)}
  PROVE  Arranged(s, r)
<1>1. /\ Sound(t) /\ SameFrame(s, t) /\ Kept(s, t) /\ Placed(t) /\ Seated(s, t)
      /\ Timed(s, t) /\ Ranked(s, t) /\ Suppressed(s, t) /\ RevisionsRise(s, t)
  BY DEF Arranged
<1>2. /\ Sound(r) /\ SameFrame(t, r) /\ r.entries = t.entries
      /\ r.pending = t.pending /\ r.toasts = t.toasts
      /\ r.attention = t.attention
      /\ r.closed = t.closed /\ r.closedAs = t.closedAs
      /\ r.revised /\ (t.contentRevised => r.contentRevised)
  BY <1>1, BumpLeaves
<1>3. /\ Live(r) = Live(t) /\ Pending(r) = Pending(t) /\ Toasts(r) = Toasts(t)
      /\ Closed(r) = Closed(t)
  BY <1>2 DEF Live, Pending, Toasts, Closed
<1>4. SameFrame(s, r) /\ Kept(s, r)
  BY <1>1, <1>2, <1>3 DEF SameFrame, Kept
<1>5. Placed(r)
  <2>1. \A kind : OfKind(r, kind) = OfKind(t, kind)
    BY <1>2, <1>3 DEF OfKind
  <2> QED BY <1>1, <1>2, <1>3, <2>1 DEF Placed, SameFrame
<1>6. Seated(s, r)
  BY <1>1, <1>2, <1>3 DEF Seated, ToastsInOrder
<1>7. Timed(s, r)
  <2>1. \A i : ToastTimerShouldRun(r, i) = ToastTimerShouldRun(t, i)
    BY <1>2, <1>3 DEF ToastTimerShouldRun, SameFrame
  <2> QED BY <1>1, <1>2, <1>3, <2>1 DEF Timed
<1>8. Ranked(s, r) /\ Suppressed(s, r)
  BY <1>1, <1>2, <1>3 DEF Ranked, Suppressed
<1>9. RevisionsRise(s, r)
  BY <1>1, <1>2, <1>3 DEF RevisionsRise
<1> QED BY <1>2, <1>4, <1>5, <1>6, <1>7, <1>8, <1>9 DEF Arranged

\* sort_pending before them.
LEMMA SortedArranges ==
  ASSUME NEW s, Sound(s), NEW t, t = SortPending(s), NEW r, Arranged(t, r)
  PROVE  Arranged(s, r)
<1>1. /\ Sound(t) /\ SameFrame(s, t) /\ t.entries = s.entries
      /\ Pending(t) = Pending(s) /\ t.toasts = s.toasts
      /\ t.attention = s.attention
      /\ t.closed = s.closed /\ t.closedAs = s.closedAs
      /\ t.revised = s.revised /\ t.contentRevised = s.contentRevised
  BY SortLeaves
<1>2. Live(t) = Live(s) /\ Toasts(t) = Toasts(s) /\ Closed(t) = Closed(s)
  BY <1>1 DEF Live, Toasts, Closed
<1>3. /\ ServedBefore(t) = ServedBefore(s) /\ Unpinned(t) = Unpinned(s)
      /\ \A kind : OfKind(t, kind) = OfKind(s, kind)
  BY <1>1, <1>2 DEF ServedBefore, Unpinned, OfKind
<1>4. Placed(t) <=> Placed(s)
  BY <1>1, <1>2, <1>3 DEF Placed, SameFrame
<1>5. /\ Sound(r) /\ SameFrame(t, r) /\ Kept(t, r) /\ Placed(r) /\ Seated(t, r)
      /\ Timed(t, r) /\ Ranked(t, r) /\ Suppressed(t, r) /\ RevisionsRise(t, r)
  BY DEF Arranged
<1>6. SameFrame(s, r) /\ Kept(s, r)
  BY <1>1, <1>2, <1>5 DEF SameFrame, Kept
<1>7. Seated(s, r)
  BY <1>1, <1>2, <1>3, <1>4, <1>5 DEF Seated, ToastsInOrder
<1>8. Timed(s, r)
  BY <1>1, <1>5 DEF Timed, SameFrame
<1>9. Ranked(s, r)
  BY <1>1, <1>3, <1>5 DEF Ranked
<1>10. Suppressed(s, r)
  <2>1. t.limits = s.limits
    BY <1>1 DEF SameFrame
  <2> QED BY <1>1, <1>2, <1>3, <1>5, <2>1 DEF Suppressed
<1>11. RevisionsRise(s, r)
  BY <1>1, <1>2, <1>5 DEF RevisionsRise
<1> QED BY <1>5, <1>6, <1>7, <1>8, <1>9, <1>10, <1>11 DEF Arranged

\* All of them: sort_pending, rebalance, enforce_pending_limit, the revisions.
LEMMA SortArranges ==
  ASSUME NEW s, Sound(s), Lined(s), WithinScreen(s), NEW now, now = s.lastNow
  PROVE  LET placed == Rebalance(SortPending(s), now)
             full   == EnforcePendingLimit(placed)
         IN  \A r \in {placed, full, BumpContentRevision(placed),
                       BumpContentRevision(full)} :
                /\ Arranged(s, r)
                /\ r \in {placed, BumpContentRevision(placed)} => Live(r) = Live(s)
<1>1. PICK sorted : sorted = SortPending(s)
  OBVIOUS
<1>2. PICK placed : placed = Rebalance(sorted, now)
  OBVIOUS
<1>3. PICK full : full = EnforcePendingLimit(placed)
  OBVIOUS
<1>4. now \in Nat
  BY DEF Sound, IsState
<1>5. /\ Sound(sorted) /\ Tidy(sorted) /\ now = sorted.lastNow
  <2>1. Sound(sorted) /\ sorted.lastNow = s.lastNow
    BY <1>1, SortLeaves DEF SameFrame
  <2> QED BY <1>1, <2>1, SortPendingTidy DEF Tidy
<1>6. /\ Arranged(sorted, placed) /\ Live(placed) = Live(sorted) /\ Tidy(placed)
      /\ placed.closed = sorted.closed /\ placed.closedAs = sorted.closedAs
  BY <1>2, <1>5, RebalanceArranges
<1>7. Arranged(sorted, full)
  BY <1>3, <1>5, <1>6, EnforceArranges
<1>8. ASSUME NEW t, Arranged(sorted, t)
      PROVE  LET r == BumpContentRevision(t) IN Arranged(s, r) /\ Live(r) = Live(t)
  <2>1. PICK r : r = BumpContentRevision(t)
    OBVIOUS
  <2>2. Arranged(sorted, r)
    BY <1>5, <1>8, <2>1, BumpArranges
  <2>3. Live(r) = Live(t)
    BY <1>8, <2>1, BumpSound DEF Arranged
  <2> QED BY <1>1, <2>1, <2>2, <2>3, SortedArranges
<1>9. Arranged(s, placed) /\ Arranged(s, full)
  BY <1>1, <1>6, <1>7, SortedArranges
<1>10. Live(placed) = Live(s)
  BY <1>1, <1>6, SortLeaves DEF Live
<1>11. \A r \in {placed, full, BumpContentRevision(placed), BumpContentRevision(full)} :
         Arranged(s, r)
  BY <1>6, <1>7, <1>8, <1>9
<1>12. Live(BumpContentRevision(placed)) = Live(s)
  BY <1>6, <1>8, <1>10
<1> QED BY <1>1, <1>2, <1>3, <1>10, <1>11, <1>12

-----------------------------------------------------------------------------
(* prepare_time, before its rebalance: the clock is set and the Toasts whose *)
(* time is up are closed.                                                    *)

Overdue(s, now) == {i \in Toasts(s) : Expired(s.entries[i].timer, now)}

Cleared(s, now) ==
  CloseInner([s EXCEPT !.lastNow = now, !.revised = FALSE,
                       !.contentRevised = FALSE, !.panicked = FALSE],
             Retain(s.toasts, Overdue(s, now)), "TimedOut")

ClearedFrom(s, now, c) ==
  /\ Sound(c) /\ Tidy(c) /\ c.lastNow = now
  /\ c.limits = s.limits /\ c.available = s.available
  /\ c.nextSequence = s.nextSequence /\ c.nextNonce = s.nextNonce
  /\ Untouched(s, c) /\ ToastsInOrder(s, c)
  /\ Live(c) = Live(s) \ Overdue(s, now) /\ Pending(c) = Pending(s)
  /\ Toasts(c) = Toasts(s) \ Overdue(s, now) /\ c.attention = s.attention
  /\ \A i \in Closed(c) :
       \/ i \in Overdue(s, now) /\ c.closedAs[i] = "TimedOut"
       \/ i \in Closed(s) /\ c.closedAs[i] = s.closedAs[i]
  /\ Cardinality(Closed(s) \cup Overdue(s, now)) <= ClosedCapacity(s.limits) =>
       Closed(c) = Closed(s) \cup Overdue(s, now)
  /\ Overdue(s, now) # {} => c.revised /\ c.contentRevised
  /\ Overdue(s, now) = {} => ~c.revised /\ ~c.contentRevised
  /\ ~c.panicked

LEMMA ClearedLeaves ==
  ASSUME NEW s, Sound(s), Tidy(s), NEW now \in Nat, NEW c, c = Cleared(s, now)
  PROVE  ClearedFrom(s, now, c)
<1>1. PICK begun : begun = [s EXCEPT !.lastNow = now, !.revised = FALSE,
                                     !.contentRevised = FALSE, !.panicked = FALSE]
  OBVIOUS
<1>2. PICK late : late = Overdue(s, now)
  OBVIOUS
<1>3. PICK batch : batch = Retain(s.toasts, late)
  OBVIOUS
<1>4. /\ IsState(s) /\ Scheduled(s) /\ s.entries \in [Live(s) -> Entry]
      /\ Toasts(s) \subseteq Ids /\ IsLine(s.toasts, Toasts(s))
      /\ Toasts(s) \subseteq Live(s)
  BY MembersAreIds DEF Sound, Tidy, Lined, Scheduled
<1>5. /\ DOMAIN begun = Fields /\ begun.lastNow = now
      /\ begun.revised = FALSE /\ begun.contentRevised = FALSE
      /\ begun.panicked = FALSE
      /\ begun.entries = s.entries /\ begun.closed = s.closed
      /\ begun.closedAs = s.closedAs /\ begun.liveKeys = s.liveKeys
      /\ begun.pending = s.pending /\ begun.toasts = s.toasts
      /\ begun.attention = s.attention /\ begun.limits = s.limits
      /\ begun.available = s.available
      /\ begun.nextSequence = s.nextSequence /\ begun.nextNonce = s.nextNonce
  BY <1>1, <1>4 DEF IsState, Fields
<1>6. Sound(begun) /\ Live(begun) = Live(s)
  <2>1. /\ begun.limits \in SchedulerLimits /\ begun.available \in BOOLEAN
        /\ begun.nextNonce \in Nat /\ begun.lastNow \in Nat
    BY <1>4, <1>5 DEF IsState
  <2> QED BY <1>4, <1>5, <2>1, SoundCarries
<1>7. Tidy(begun)
  <2>1. Tended(s, begun)
    BY <1>5, <1>6, TendedCarries
  <2> QED BY <2>1 DEF Tended
<1>8. late \subseteq Toasts(s)
  BY <1>2 DEF Overdue
<1>9. DOMAIN batch = late /\ IsLine(batch, late)
  <2>1. PICK l, T : l = s.toasts /\ T = Toasts(s)
    OBVIOUS
  <2>2. T \subseteq Ids /\ IsLine(l, T) /\ late \subseteq T /\ l \in [T -> Nat]
    BY <1>4, <1>8, <2>1, MembersAreIds
  <2>3. IsLine(Retain(l, late), late)
    BY <2>2, IdsFinite, RetainPart
  <2>4. DOMAIN Retain(l, late) = late
    BY <2>3 DEF IsLine
  <2> QED BY <1>3, <2>1, <2>3, <2>4
<1>10. DOMAIN batch \subseteq Live(begun) /\ batch \in [DOMAIN batch -> Nat]
       /\ IsLine(batch, DOMAIN batch)
  <2>1. late \subseteq Ids /\ late \subseteq Live(s)
    BY <1>4, <1>8
  <2>2. Cardinality(late) \in Nat
    BY <2>1, IdsFinite, CountIsNat
  <2> QED BY <1>6, <1>9, <2>1, <2>2 DEF IsLine
<1>11. PICK why \in Reasons : why = "TimedOut"
  BY DEF Reasons
<1>12. c = CloseInner(begun, batch, why)
  BY <1>1, <1>2, <1>3, <1>11 DEF Cleared
<1>13. /\ Sound(c) /\ SameFrame(begun, c) /\ Untouched(begun, c) /\ ToastsInOrder(begun, c)
       /\ Live(c) = Live(begun) \ DOMAIN batch
       /\ Pending(c) = Pending(begun) \ DOMAIN batch
       /\ Toasts(c) = Toasts(begun) \ DOMAIN batch
       /\ c.attention = IF begun.attention \in DOMAIN batch THEN None ELSE begun.attention
       /\ \A i \in Closed(c) :
            \/ i \in DOMAIN batch /\ c.closedAs[i] = why
            \/ i \in Closed(begun) /\ c.closedAs[i] = begun.closedAs[i]
       /\ Cardinality(Closed(begun) \cup DOMAIN batch) <= ClosedCapacity(begun.limits) =>
            Closed(c) = Closed(begun) \cup DOMAIN batch
       /\ c.revised = (begun.revised \/ DOMAIN batch # {})
       /\ c.contentRevised = (begun.contentRevised \/ DOMAIN batch # {})
       /\ c.panicked = begun.panicked
  BY <1>6, <1>10, <1>12, CloseInnerLeaves
<1>14. Tidy(c)
  <2>1. Tended(begun, c)
    BY <1>6, <1>10, <1>12, CloseInnerTended
  <2> QED BY <1>7, <2>1 DEF Tended
<1>15. /\ Pending(begun) = Pending(s) /\ Toasts(begun) = Toasts(s)
       /\ Closed(begun) = Closed(s)
  BY <1>5 DEF Pending, Toasts, Closed
<1>16. Untouched(s, c) /\ ToastsInOrder(s, c)
  BY <1>5, <1>6, <1>13, <1>15 DEF Untouched, ToastsInOrder
<1>17. Pending(s) \cap late = {} /\ s.attention \notin late
  <2>1. Pending(s) \cap late = {}
    BY <1>4, <1>8 DEF Scheduled
  <2>2. s.attention # None => s.entries[s.attention].draft.pres = "attention"
    BY <1>4 DEF Scheduled, OfKind
  <2>3. \A i \in Toasts(s) : s.entries[i].draft.pres = "toast"
    BY <1>4 DEF Scheduled, OfKind
  <2>4. None \notin Toasts(s)
    BY <1>4, IdsFinite
  <2> QED BY <1>8, <2>1, <2>2, <2>3, <2>4
<1>18. /\ c.lastNow = now /\ c.limits = s.limits /\ c.available = s.available
       /\ c.nextSequence = s.nextSequence /\ c.nextNonce = s.nextNonce
  BY <1>5, <1>13 DEF SameFrame
<1>19. /\ Live(c) = Live(s) \ late /\ Pending(c) = Pending(s)
       /\ Toasts(c) = Toasts(s) \ late /\ c.attention = s.attention
  BY <1>5, <1>6, <1>9, <1>13, <1>15, <1>17
<1>20. /\ \A i \in Closed(c) :
            \/ i \in late /\ c.closedAs[i] = "TimedOut"
            \/ i \in Closed(s) /\ c.closedAs[i] = s.closedAs[i]
       /\ Cardinality(Closed(s) \cup late) <= ClosedCapacity(s.limits) =>
            Closed(c) = Closed(s) \cup late
  BY <1>5, <1>9, <1>11, <1>13, <1>15
<1>21. /\ late # {} => c.revised /\ c.contentRevised
       /\ late = {} => ~c.revised /\ ~c.contentRevised
       /\ ~c.panicked
  BY <1>5, <1>9, <1>13
<1> QED BY <1>2, <1>13, <1>14, <1>16, <1>18, <1>19, <1>20, <1>21 DEF ClearedFrom

\* prepare_time.
LEMMA PrepareTimeArranges ==
  ASSUME NEW s, Sound(s), Tidy(s), NEW now \in Nat, NEW p, p = PrepareTime(s, now)
  PROVE  \E c : /\ ClearedFrom(s, now, c) /\ Arranged(c, p) /\ Tidy(p)
                /\ Live(p) = Live(c) /\ p.closed = c.closed /\ p.closedAs = c.closedAs
                /\ p.revised = c.revised /\ p.contentRevised = c.contentRevised
                /\ ~p.panicked
<1>1. PICK c : c = Cleared(s, now)
  OBVIOUS
<1>2. ClearedFrom(s, now, c)
  BY <1>1, ClearedLeaves
<1>3. p = Rebalance(c, now)
  BY <1>1 DEF PrepareTime, Cleared, Overdue
<1>4. Sound(c) /\ Tidy(c) /\ now = c.lastNow /\ ~c.panicked
  BY <1>2 DEF ClearedFrom
<1> QED BY <1>2, <1>3, <1>4, RebalanceArranges

-----------------------------------------------------------------------------
(* What a method does between prepare_time and its rebalance.              *)

SameDraft(p, q, i) ==
  i \in Live(p) \cap Live(q) /\ q.entries[i].draft = p.entries[i].draft

\* New content comes with a timer that has run for no time, and runs at once
\* only on a Toast; other timers stop or, on a Toast, start.
TimersEdited(p, q) ==
  /\ \A i \in Live(q) :
       LET t == q.entries[i].timer
       IN  IF SameDraft(p, q, i)
           THEN \/ t = p.entries[i].timer
                \/ \E running \in BOOLEAN :
                     /\ t = SetRunning(p.entries[i].timer, p.lastNow, running)
                     /\ running => i \in Toasts(p)
           ELSE /\ t.left = q.entries[i].draft.timeout
                /\ t.since # None => t.since = p.lastNow /\ i \in Toasts(p)
  /\ \A i \in (Toasts(p) \ Toasts(q)) \cap Live(q) :
       LET t == q.entries[i].timer IN t.left = Never \/ t.since = None

\* A Toast leaves its place for another Presentation, or from the end of a
\* screen that is full with less; whoever else joins the queue is new.
PlacesEdited(p, q) ==
  /\ Toasts(q) \subseteq Toasts(p) /\ ToastsInOrder(p, q)
  /\ Pending(p) \cap Live(q) \subseteq Pending(q)
  /\ \A i \in (Toasts(p) \ Toasts(q)) \cap Live(q) :
       \/ q.entries[i].draft.pres # "toast"
       \/ /\ q.limits # p.limits /\ Cardinality(Toasts(q)) = q.limits.maxVisible
          /\ \A j \in Toasts(q) : p.toasts[j] < p.toasts[i]
  /\ \A i \in Pending(q) \ Pending(p) :
       \/ ~SameDraft(p, q, i)
       \/ i \in Toasts(p) \ Toasts(q)
  /\ Live(q) \ Live(p) \subseteq Pending(q) \cap {p.nextSequence}

\* Who is closed gets a record with the reason of the call.
RecordsEdited(p, q) ==
  LET gone == Live(p) \ Live(q)
  IN  /\ \A i \in Closed(q) :
           \/ i \in gone /\ q.closedAs[i] \notin {"TimedOut", "RenderSuppressed"}
           \/ i \in Closed(p) /\ q.closedAs[i] = p.closedAs[i]
      /\ /\ q.limits = p.limits
         /\ Cardinality(Closed(p) \cup gone) <= ClosedCapacity(p.limits)
         => Closed(q) = Closed(p) \cup gone

Edit(p, q) ==
  /\ Sound(q) /\ Lined(q) /\ WithinScreen(q) /\ q.lastNow = p.lastNow
  /\ TimersEdited(p, q) /\ PlacesEdited(p, q) /\ RecordsEdited(p, q)

\* A method that changes what is shown or what is live says so.
Announced(p, r) ==
  \/ r.panicked
  \/ r.revised /\ r.contentRevised
  \/ /\ p.revised => r.revised
     /\ p.contentRevised => r.contentRevised
     /\ Live(r) = Live(p) /\ \A i \in Live(p) : SameDraft(p, r, i)
     /\ \/ r.revised
        \/ Shown(r) = Shown(p) /\ ToastsInOrder(p, r)

\* A method that ends with rebalance, and with enforce_pending_limit only if
\* the call changed nobody's content or pin before.
Rebalanced(p, q, r) ==
  /\ Arranged(q, r)
  /\ \/ Live(r) = Live(q)
     \/ \A i \in Live(p) \cap Live(q) :
          SameDraft(p, q, i) /\ q.entries[i].nonce = p.entries[i].nonce

\* Timers run only on the screen, and there all do that no jump pins.
Runs(s) ==
  \A i \in Live(s) :
    LET t == s.entries[i].timer
    IN  t.left # Never =>
          /\ t.since # None => ToastTimerShouldRun(s, i)
          /\ ToastTimerShouldRun(s, i) /\ s.entries[i].nonce = None => t.since # None

\* ... and one that does not: nobody moves.
Still(p, q, r) ==
  /\ Sound(r) /\ SameFrame(q, r) /\ r.entries = q.entries
  /\ Pending(r) = Pending(q) /\ r.toasts = q.toasts /\ r.attention = q.attention
  /\ r.closed = q.closed /\ r.closedAs = q.closedAs
  /\ Pending(q) \subseteq Pending(p)
  /\ q.limits = p.limits /\ q.available = p.available
  /\ \A i \in Live(q) :
       i \in Live(p) /\ q.entries[i].draft.pres = p.entries[i].draft.pres
  /\ \/ Live(q) = {}
     \/ q.toasts = p.toasts /\ q.attention = p.attention
  /\ Runs(p) => Runs(r)

Leads(p, r) ==
  /\ Announced(p, r)
  /\ \E q : Edit(p, q) /\ (Rebalanced(p, q, r) \/ Still(p, q, r))

\* A part of `active_toasts` keeps its order.
LEMMA ToastsRetained ==
  ASSUME NEW p, Sound(p), NEW stay, stay \subseteq Toasts(p),
         NEW r, r.toasts = Retain(p.toasts, stay)
  PROVE  Toasts(r) = stay /\ ToastsInOrder(p, r)
<1>1. Toasts(p) \subseteq Ids /\ p.toasts \in [Toasts(p) -> Nat]
  BY MembersAreIds DEF Sound
<1>2. IsFiniteSet(Ids)
  BY IdsFinite
<1> PICK l : l = p.toasts
  OBVIOUS
<1> PICK P : P = Toasts(p)
  OBVIOUS
<1>3. P \subseteq Ids /\ l \in [P -> Nat] /\ stay \subseteq P
  BY <1>1
<1>4. DOMAIN Retain(l, stay) = stay
  BY <1>2, <1>3, RetainPart
<1>5. \A i, j \in stay : Retain(l, stay)[i] < Retain(l, stay)[j] <=> l[i] < l[j]
  BY <1>2, <1>3, RetainPart
<1> QED BY <1>4, <1>5 DEF Toasts, ToastsInOrder

\* A method that does nothing after prepare_time.
LEMMA IdleReaches ==
  ASSUME NEW p, Sound(p), Tidy(p)
  PROVE  Leads(p, p)
<1>1. TimersEdited(p, p) /\ PlacesEdited(p, p)
  BY DEF TimersEdited, PlacesEdited, SameDraft, ToastsInOrder
<1>2. RecordsEdited(p, p)
  <2>1. Live(p) \ Live(p) = {} /\ Closed(p) \cup {} = Closed(p)
    OBVIOUS
  <2> QED BY <2>1 DEF RecordsEdited
<1>3. Edit(p, p)
  BY <1>1, <1>2 DEF Edit, Tidy
<1>4. Still(p, p, p)
  BY DEF Still, SameFrame
<1>5. Announced(p, p)
  BY DEF Announced, SameDraft, ToastsInOrder
<1> QED BY <1>3, <1>4, <1>5 DEF Leads

\* submit of a new Notification.
LEMMA InsertReaches ==
  ASSUME NEW p, Sound(p), Tidy(p), NEW d \in Draft, NEW now, now = p.lastNow,
         d.key # None => p.liveKeys[d.key] = None,
         NEW r, r = Insert(p, d, now), r.nextSequence <= MaxSubmits
  PROVE  Leads(p, r)
<1>1. PICK q : q = Inserted(p, d)
  OBVIOUS
<1>2. PICK id : id = p.nextSequence
  OBVIOUS
<1>3. PICK full : full = EnforcePendingLimit(Rebalance(SortPending(q), now))
  OBVIOUS
<1>4. r = IF full.panicked THEN full ELSE BumpContentRevision(full)
  BY <1>1, <1>3 DEF Insert, Inserted
<1>5. /\ IsState(p) /\ DOMAIN p = Fields /\ now \in Nat /\ Scheduled(p)
      /\ Live(p) \subseteq Ids /\ Pending(p) \subseteq Live(p) /\ Toasts(p) \subseteq Live(p)
      /\ Pending(p) \subseteq Ids
  BY MembersAreIds DEF Sound, IsState, Scheduled
<1>6. Sound(q)
  BY <1>1, <1>5, InsertSound
<1>7. PICK entry : entry = [draft |-> d, delivery |-> "pending",
                            timer |-> [left |-> d.timeout, since |-> None],
                            nonce |-> None]
  OBVIOUS
<1>8. PICK entries : entries = [i \in Live(p) \cup {id} |->
                                  IF i = id THEN entry ELSE p.entries[i]]
  OBVIOUS
<1>9. PICK keys : keys = [k \in Keys |-> IF k = d.key THEN id ELSE p.liveKeys[k]]
  OBVIOUS
<1>10. q = [p EXCEPT !.entries = entries, !.liveKeys = keys,
                     !.pending = Push(p.pending, id), !.nextSequence = id + 1]
  BY <1>1, <1>2, <1>7, <1>8, <1>9 DEF Inserted
<1>11. /\ q.pending = Push(p.pending, id) /\ q.toasts = p.toasts
       /\ q.closed = p.closed /\ q.closedAs = p.closedAs /\ q.limits = p.limits
       /\ q.entries = entries /\ q.lastNow = p.lastNow /\ q.attention = p.attention
       /\ q.revised = p.revised /\ q.contentRevised = p.contentRevised
  BY Zenon, <1>5, <1>10 DEF Fields
<1>12. /\ Live(q) = Live(p) \cup {id} /\ Toasts(q) = Toasts(p) /\ Closed(q) = Closed(p)
       /\ \A i \in Live(p) : i # id => q.entries[i] = p.entries[i]
       /\ q.entries[id] = entry
  BY <1>8, <1>11 DEF Live, Toasts, Closed
<1>13. id \notin Live(p) /\ id \in Ids
  <2>1. \A i \in Live(p) : i \in Nat /\ i < id
    BY <1>2, <1>5, IdsFinite DEF Sound, Numbered
  <2>2. id \in Ids
    BY <1>6, <1>12, MembersAreIds DEF Sound
  <2> QED BY <2>1, <2>2, IdsFinite
<1>14. IsLine(q.pending, Pending(p) \cup {id})
  BY <1>5, <1>11, <1>13, IdsFinite, PushLine DEF Tidy, Lined
<1>15. Pending(q) = Pending(p) \cup {id}
  BY <1>14 DEF IsLine, Pending
<1>16. Lined(q) /\ WithinScreen(q)
  BY <1>11, <1>12, <1>14, <1>15 DEF Tidy, Lined, WithinScreen
<1>17. TimersEdited(p, q)
  <2>1. \A i \in Live(p) : q.entries[i] = p.entries[i]
    BY <1>12, <1>13
  <2>2. /\ q.entries[id].timer.left = q.entries[id].draft.timeout
        /\ q.entries[id].timer.since = None
    BY <1>7, <1>12
  <2>3. (Toasts(p) \ Toasts(q)) \cap Live(q) = {}
    BY <1>12
  <2>4. ~SameDraft(p, q, id) /\ \A i \in Live(p) : SameDraft(p, q, i)
    BY <1>12, <1>13, <2>1 DEF SameDraft
  <2>5. \A i \in Live(q) : i \in Live(p) \/ i = id
    BY <1>12
  <2> QED BY <2>1, <2>2, <2>3, <2>4, <2>5 DEF TimersEdited
<1>18. PlacesEdited(p, q)
  <2>1. ToastsInOrder(p, q)
    BY <1>11 DEF ToastsInOrder
  <2>2. ~SameDraft(p, q, id)
    BY <1>13 DEF SameDraft
  <2> QED BY <1>2, <1>5, <1>12, <1>15, <2>1, <2>2 DEF PlacesEdited
<1>19. RecordsEdited(p, q)
  <2>1. Live(p) \ Live(q) = {} /\ Closed(p) \cup {} = Closed(p)
    BY <1>12
  <2> QED BY <1>11, <1>12, <2>1 DEF RecordsEdited
<1>20. Edit(p, q)
  BY <1>6, <1>11, <1>16, <1>17, <1>18, <1>19 DEF Edit
<1>21. Arranged(q, r)
  <2>1. Arranged(q, full) /\ Arranged(q, BumpContentRevision(full))
    BY <1>3, <1>6, <1>11, <1>16, SortArranges
  <2> QED BY <1>4, <2>1
<1>22. Rebalanced(p, q, r)
  BY <1>12, <1>13, <1>21 DEF Rebalanced, SameDraft
<1>23. Announced(p, r)
  <2>1. CASE full.panicked
    BY <1>4, <2>1 DEF Announced
  <2>2. CASE ~full.panicked
    <3>1. Sound(full)
      BY <1>3, <1>6, <1>11, <1>16, SortArranges DEF Arranged
    <3>2. r.revised /\ r.contentRevised
      BY <1>4, <2>2, <3>1, BumpLeaves
    <3> QED BY <3>2 DEF Announced
  <2> QED BY <2>1, <2>2
<1> QED BY <1>20, <1>22, <1>23 DEF Leads

\* submit of new content for a live key.
LEMMA ReplaceReaches ==
  ASSUME NEW p, Sound(p), Tidy(p), NEW i \in Live(p), NEW d \in Draft,
         d.key = p.entries[i].draft.key, d # p.entries[i].draft,
         NEW now, now = p.lastNow, NEW r, r = Replace(p, i, d, now)
  PROVE  Leads(p, r)
<1>1. PICK q : q = Queued(p, i, d, now)
  OBVIOUS
<1>2. r = BumpContentRevision(Rebalance(SortPending(q), now))
  BY <1>1 DEF Replace, Queued, Rewritten
<1>3. /\ IsState(p) /\ DOMAIN p = Fields /\ now \in Nat /\ Scheduled(p)
      /\ Live(p) \subseteq Ids /\ Pending(p) \subseteq Live(p) /\ Toasts(p) \subseteq Live(p)
      /\ Toasts(p) \subseteq Ids /\ Pending(p) \subseteq Ids
      /\ p.pending \in [Pending(p) -> Nat] /\ p.toasts \in [Toasts(p) -> Nat]
  BY MembersAreIds DEF Sound, IsState, Scheduled
<1>4. Sound(q)
  BY <1>1, <1>3, ReplaceSound
<1>5. /\ Lined(q) /\ WithinScreen(q)
      /\ Live(q) = Live(p) /\ Closed(q) = Closed(p) /\ q.limits = p.limits
      /\ \A j \in Live(p) \ {i} : q.entries[j] = p.entries[j]
      /\ q.entries[i].draft = d
  BY <1>1, <1>3, QueuedLined DEF Tidy
<1>6. PICK t \in Timer : t = Restart(d.timeout, now, ToastTimerShouldRun(p, i))
  BY <1>3, RestartType DEF Draft, ToastTimerShouldRun
<1>7. PICK changed : changed = Rewritten(p, i, d, t)
  OBVIOUS
<1>8. q = IF d.pres = p.entries[i].draft.pres THEN changed ELSE Requeue(changed, i)
  BY <1>1, <1>6, <1>7 DEF Queued
<1>9. /\ DOMAIN changed = Fields
      /\ \A f \in Fields \ {"entries"} : changed[f] = p[f]
      /\ changed.entries[i].timer = t
  <2>1. p.entries \in [Live(p) -> Entry]
    BY <1>3, MembersAreIds
  <2>2. p.entries[i] \in Entry
    BY <2>1
  <2>3. PICK e : e = [p.entries[i] EXCEPT !.draft = d, !.timer = t]
    OBVIOUS
  <2>4. e.timer = t
    BY <2>2, <2>3 DEF Entry
  <2>5. changed = [p EXCEPT !.entries = [p.entries EXCEPT ![i] = e]]
    BY <1>3, <1>7, <2>1, <2>3 DEF Fields, Entry, Rewritten
  <2>6. changed.entries[i] = e
    BY <1>3, <2>1, <2>5 DEF Fields
  <2> QED BY <1>6, <1>7, <2>4, <2>6, RewriteEntry
<1>10. /\ changed.pending = p.pending /\ changed.toasts = p.toasts
       /\ changed.closed = p.closed /\ changed.closedAs = p.closedAs
       /\ changed.lastNow = p.lastNow /\ changed.attention = p.attention
       /\ Pending(changed) = Pending(p) /\ Toasts(changed) = Toasts(p)
  BY <1>9 DEF Fields, Pending, Toasts
<1>11. /\ q.entries = changed.entries /\ q.closed = p.closed /\ q.closedAs = p.closedAs
       /\ q.lastNow = p.lastNow
  BY Zenon, <1>8, <1>9, <1>10 DEF Requeue, Fields
<1>12. q.entries[i].timer = t
  BY <1>9, <1>11
\* The places: nobody moves but i, and only to the queue.
<1>13. /\ Pending(p) \subseteq Pending(q) /\ Pending(q) \subseteq Pending(p) \cup {i}
       /\ Toasts(q) \subseteq Toasts(p) /\ Toasts(p) \ Toasts(q) \subseteq {i}
       /\ ToastsInOrder(p, q)
       /\ i \in Toasts(p) \ Toasts(q) => d.pres # p.entries[i].draft.pres
  <2>1. CASE d.pres = p.entries[i].draft.pres
    <3>1. q = changed
      BY <1>8, <2>1
    <3> QED BY <1>10, <3>1 DEF ToastsInOrder
  <2>2. CASE d.pres # p.entries[i].draft.pres
    <3>1. PICK rest, stay : rest = Pending(p) \ {i} /\ stay = Toasts(p) \ {i}
      OBVIOUS
    <3>2. PICK line : line = Retain(p.pending, rest)
      OBVIOUS
    <3>3. q.pending = Push(line, i) /\ q.toasts = Retain(p.toasts, stay)
      BY <1>8, <1>9, <1>10, <2>2, <3>1, <3>2, RequeueFields
    <3>4. DOMAIN line = rest
      BY <3>1, <3>2, <1>3 DEF Retain, Pending
    <3>5. Pending(q) = rest \cup {i}
      BY <3>3, <3>4 DEF Push, Join, Pending
    <3>6. Toasts(q) = stay /\ ToastsInOrder(p, q)
      BY <3>1, <3>3, ToastsRetained
    <3> QED BY <2>2, <3>1, <3>5, <3>6
  <2> QED BY <2>1, <2>2
<1>14. ~SameDraft(p, q, i) /\ \A j \in Live(p) \ {i} : SameDraft(p, q, j)
  BY <1>5 DEF SameDraft
<1>15. i \in Toasts(p) \ Toasts(q) => d.pres = "attention" /\ d.timeout = Never
  <2> SUFFICES ASSUME i \in Toasts(p) \ Toasts(q)
               PROVE  d.pres = "attention" /\ d.timeout = Never
    OBVIOUS
  <2>1. p.entries[i].draft.pres = "toast"
    BY <1>3 DEF Scheduled, OfKind
  <2>2. d.pres # "toast"
    BY <1>13, <2>1
  <2> QED BY <2>2 DEF Draft
<1>16. TimersEdited(p, q)
  <2>1. t.left = d.timeout /\ (t.since # None => t.since = now /\ i \in Toasts(p))
    BY <1>6 DEF Restart, ToastTimerShouldRun
  <2>2. ASSUME NEW j \in Live(q), j # i
        PROVE  SameDraft(p, q, j) /\ q.entries[j].timer = p.entries[j].timer
    BY <1>5, <1>14, <2>2
  <2>3. \A j \in (Toasts(p) \ Toasts(q)) \cap Live(q) : q.entries[j].timer.left = Never
    BY <1>12, <1>13, <1>15, <2>1
  <2> QED BY <1>5, <1>12, <1>14, <2>1, <2>2, <2>3 DEF TimersEdited
<1>17. PlacesEdited(p, q)
  <2>1. \A j \in (Toasts(p) \ Toasts(q)) \cap Live(q) : q.entries[j].draft.pres # "toast"
    BY <1>5, <1>13, <1>15
  <2>2. \A j \in Pending(q) \ Pending(p) : ~SameDraft(p, q, j)
    BY <1>13, <1>14
  <2> QED BY <1>5, <1>13, <2>1, <2>2 DEF PlacesEdited
<1>18. RecordsEdited(p, q)
  <2>1. Live(p) \ Live(q) = {} /\ Closed(p) \cup {} = Closed(p)
    BY <1>5
  <2> QED BY <1>5, <1>11, <2>1 DEF RecordsEdited
<1>19. Edit(p, q)
  BY <1>4, <1>5, <1>11, <1>16, <1>17, <1>18 DEF Edit
<1>20. Arranged(q, r) /\ Live(r) = Live(q)
  BY <1>2, <1>4, <1>5, <1>11, SortArranges
<1>21. Rebalanced(p, q, r)
  BY <1>20 DEF Rebalanced
<1>22. Announced(p, r)
  <2>1. PICK placed : placed = Rebalance(SortPending(q), now)
    OBVIOUS
  <2>2. Sound(placed)
    BY <1>4, <1>5, <1>11, <2>1, SortArranges DEF Arranged
  <2>3. r.revised /\ r.contentRevised
    BY <1>2, <2>1, <2>2, BumpLeaves
  <2> QED BY <2>3 DEF Announced
<1> QED BY <1>19, <1>21, <1>22 DEF Leads

\* update and update_by_key.
LEMMA UpdateReaches ==
  ASSUME NEW s, NEW p, Sound(p), Tidy(p), NEW now, now = p.lastNow,
         p = PrepareTime(s, now), NEW i, NEW u \in Update,
         NEW r, r = ApplyUpdate(s, i, u, now)
  PROVE  Leads(p, r)
<1>1. PICK d : d = Updated(p.entries[i].draft, u)
  OBVIOUS
<1>2. CASE i \notin Live(p) \/ d = p.entries[i].draft
  BY <1>1, <1>2, IdleReaches DEF ApplyUpdate
<1>3. CASE i \in Live(p) /\ d # p.entries[i].draft
  <2>1. /\ IsState(p) /\ DOMAIN p = Fields /\ now \in Nat /\ Scheduled(p)
        /\ p.entries \in [Live(p) -> Entry] /\ Toasts(p) \subseteq Live(p)
    BY MembersAreIds DEF Sound, IsState, Scheduled
  <2>2. /\ d \in Draft /\ d.key = p.entries[i].draft.key
        /\ d.pres = p.entries[i].draft.pres
    BY <1>1, <1>3, <2>1, UpdatedIsDraft DEF Entry
  <2>3. PICK t \in Timer : t = Restart(d.timeout, now, ToastTimerShouldRun(p, i))
    BY <2>1, <2>2, RestartType DEF Draft, ToastTimerShouldRun
  <2>4. PICK q : q = Rewritten(p, i, d, t)
    OBVIOUS
  <2>5. PICK sorted : sorted = SortPending(q)
    OBVIOUS
  <2>6. r = BumpContentRevision(sorted)
    BY <1>1, <1>3, <2>3, <2>4, <2>5 DEF ApplyUpdate, Rewritten
  <2>7. /\ DOMAIN q = Fields
        /\ \A f \in Fields \ {"entries"} : q[f] = p[f]
        /\ q.entries \in [Live(p) -> Entry]
        /\ q.entries[i].draft = d /\ q.entries[i].nonce = p.entries[i].nonce
        /\ \A j \in Live(p) \ {i} : q.entries[j] = p.entries[j]
    BY <1>3, <2>2, <2>4, RewriteEntry
  <2>8. q.entries[i].timer = t
    <3>1. PICK e : e = [p.entries[i] EXCEPT !.draft = d, !.timer = t]
      OBVIOUS
    <3>2. e.timer = t
      BY <1>3, <2>1, <3>1 DEF Entry
    <3>3. q = [p EXCEPT !.entries = [p.entries EXCEPT ![i] = e]]
      BY <1>3, <2>1, <2>4, <3>1 DEF Fields, Entry, Rewritten
    <3>4. q.entries[i] = e
      BY <1>3, <2>1, <3>3 DEF Fields
    <3> QED BY <3>2, <3>4
  <2>9. /\ SameFrame(p, q) /\ Live(q) = Live(p)
        /\ q.closed = p.closed /\ q.closedAs = p.closedAs
        /\ q.liveKeys = p.liveKeys /\ q.pending = p.pending
        /\ q.toasts = p.toasts /\ q.attention = p.attention
        /\ q.revised = p.revised /\ q.panicked = p.panicked
        /\ q.contentRevised = p.contentRevised
    BY <2>7 DEF Fields, SameFrame, Live
  <2>10. Sound(q)
    BY <2>1, <2>2, <2>7, <2>9, SoundCarries DEF IsState, SameFrame
  <2>11. Pending(q) = Pending(p) /\ Toasts(q) = Toasts(p) /\ Closed(q) = Closed(p)
    BY <2>9 DEF Pending, Toasts, Closed
  <2>12. Lined(q) /\ WithinScreen(q) /\ q.limits = p.limits /\ q.lastNow = p.lastNow
    BY <2>9, <2>11 DEF Tidy, Lined, WithinScreen, SameFrame
  <2>13. ~SameDraft(p, q, i) /\ \A j \in Live(p) \ {i} : SameDraft(p, q, j)
    BY <1>3, <2>7, <2>9 DEF SameDraft
  <2>14. t.left = d.timeout /\ (t.since # None => t.since = now /\ ToastTimerShouldRun(p, i))
    BY <2>3 DEF Restart
  <2>15. TimersEdited(p, q)
    <3>1. t.since # None => i \in Toasts(p)
      BY <2>14 DEF ToastTimerShouldRun
    <3> QED BY <2>7, <2>8, <2>9, <2>11, <2>13, <2>14, <3>1 DEF TimersEdited
  <2>16. PlacesEdited(p, q) /\ RecordsEdited(p, q)
    <3>1. ToastsInOrder(p, q)
      BY <2>9 DEF ToastsInOrder
    <3>2. Live(p) \ Live(q) = {} /\ Closed(p) \cup {} = Closed(p)
      BY <2>9
    <3> QED BY <2>9, <2>11, <3>1, <3>2 DEF PlacesEdited, RecordsEdited
  <2>17. Edit(p, q)
    BY <2>10, <2>12, <2>15, <2>16 DEF Edit
  <2>18. /\ Sound(sorted) /\ SameFrame(q, sorted) /\ sorted.entries = q.entries
         /\ Pending(sorted) = Pending(q) /\ sorted.toasts = q.toasts
         /\ sorted.attention = q.attention
         /\ sorted.closed = q.closed /\ sorted.closedAs = q.closedAs
    BY <2>5, <2>10, SortLeaves
  <2>19. /\ Sound(r) /\ SameFrame(sorted, r) /\ r.entries = sorted.entries
         /\ r.pending = sorted.pending /\ r.toasts = sorted.toasts
         /\ r.attention = sorted.attention
         /\ r.closed = sorted.closed /\ r.closedAs = sorted.closedAs
         /\ r.revised /\ r.contentRevised
    BY <2>6, <2>18, BumpLeaves
  <2>20. /\ Sound(r) /\ SameFrame(q, r) /\ r.entries = q.entries
         /\ Pending(r) = Pending(q) /\ r.toasts = q.toasts /\ r.attention = q.attention
         /\ r.closed = q.closed /\ r.closedAs = q.closedAs
    BY <2>18, <2>19 DEF Pending, SameFrame
  <2>21. ASSUME Runs(p)
         PROVE  Runs(r)
    <3>1. \A j : ToastTimerShouldRun(r, j) <=> ToastTimerShouldRun(p, j)
      BY <2>9, <2>20 DEF ToastTimerShouldRun, SameFrame, Toasts
    <3>2. t.left # Never /\ ToastTimerShouldRun(p, i) => t.since # None
      BY <2>1, <2>3, SchedulerConstants DEF Restart
    <3>3. ASSUME NEW j \in Live(r), r.entries[j].timer.left # Never
          PROVE  /\ r.entries[j].timer.since # None => ToastTimerShouldRun(r, j)
                 /\ ToastTimerShouldRun(r, j) /\ r.entries[j].nonce = None =>
                      r.entries[j].timer.since # None
      <4>1. j \in Live(p) /\ r.entries[j] = q.entries[j]
        BY <2>9, <2>20 DEF Live
      <4>2. CASE j = i
        BY <2>8, <2>14, <3>1, <3>2, <3>3, <4>1, <4>2
      <4>3. CASE j # i
        BY <2>7, <2>21, <3>1, <3>3, <4>1, <4>3 DEF Runs
      <4> QED BY <4>2, <4>3
    <3> QED BY <3>3 DEF Runs
  <2>22. Still(p, q, r)
    <3>1. \A j \in Live(q) :
            j \in Live(p) /\ q.entries[j].draft.pres = p.entries[j].draft.pres
      BY <2>2, <2>7, <2>9
    <3> QED BY <2>9, <2>11, <2>20, <2>21, <3>1 DEF Still, SameFrame
  <2>23. Announced(p, r)
    BY <2>19 DEF Announced
  <2> QED BY <2>17, <2>22, <2>23 DEF Leads
<1> QED BY <1>2, <1>3

\* What closes some Notifications and nothing else.
LEMMA CloseInnerEdits ==
  ASSUME NEW p, Sound(p), Tidy(p),
         NEW reason \in Reasons, reason \notin {"TimedOut", "RenderSuppressed"},
         NEW batch, DOMAIN batch \subseteq Live(p), batch \in [DOMAIN batch -> Nat],
         IsLine(batch, DOMAIN batch), NEW q, q = CloseInner(p, batch, reason)
  PROVE  /\ Edit(p, q) /\ SameFrame(p, q) /\ Tidy(q) /\ Live(q) = Live(p) \ DOMAIN batch
         /\ q.revised = (p.revised \/ DOMAIN batch # {})
         /\ q.contentRevised = (p.contentRevised \/ DOMAIN batch # {})
<1>1. PICK D : D = DOMAIN batch
  OBVIOUS
<1>2. /\ Sound(q) /\ SameFrame(p, q) /\ Untouched(p, q) /\ ToastsInOrder(p, q)
      /\ Live(q) = Live(p) \ D /\ Pending(q) = Pending(p) \ D
      /\ Toasts(q) = Toasts(p) \ D
      /\ \A i \in Closed(q) :
           \/ i \in D /\ q.closedAs[i] = reason
           \/ i \in Closed(p) /\ q.closedAs[i] = p.closedAs[i]
      /\ Cardinality(Closed(p) \cup D) <= ClosedCapacity(p.limits) =>
           Closed(q) = Closed(p) \cup D
      /\ q.revised = (p.revised \/ D # {})
      /\ q.contentRevised = (p.contentRevised \/ D # {})
  BY <1>1, CloseInnerLeaves
<1>3. Tidy(q)
  <2>1. Tended(p, q)
    BY CloseInnerTended
  <2> QED BY <2>1 DEF Tended
<1>4. Live(p) \ Live(q) = D
  BY <1>1, <1>2
<1>5. \A i \in Live(q) : SameDraft(p, q, i) /\ q.entries[i] = p.entries[i]
  BY <1>2 DEF Untouched, SameDraft
<1>6. TimersEdited(p, q)
  <2>1. (Toasts(p) \ Toasts(q)) \cap Live(q) = {}
    BY <1>2
  <2> QED BY <1>5, <2>1 DEF TimersEdited
<1>7. PlacesEdited(p, q)
  BY <1>2 DEF PlacesEdited
<1>8. RecordsEdited(p, q)
  BY <1>2, <1>4 DEF RecordsEdited
<1>9. Edit(p, q)
  BY <1>2, <1>3, <1>6, <1>7, <1>8 DEF Edit, SameFrame, Tidy
<1> QED BY <1>1, <1>2, <1>3, <1>9

\* close.
LEMMA CloseReaches ==
  ASSUME NEW p, Sound(p), Tidy(p), NEW i \in Live(p),
         NEW reason \in Reasons, reason \notin {"TimedOut", "RenderSuppressed"},
         NEW now, now = p.lastNow, NEW r, r = Rebalance(CloseOne(p, i, reason), now)
  PROVE  Leads(p, r)
<1>1. PICK batch : batch = [j \in {i} |-> 1]
  OBVIOUS
<1>2. PICK q : q = CloseInner(p, batch, reason)
  OBVIOUS
<1>3. /\ DOMAIN batch = {i} /\ IsLine(batch, DOMAIN batch)
      /\ batch \in [DOMAIN batch -> Nat] /\ DOMAIN batch \subseteq Live(p)
  BY <1>1, SingleLine
<1>4. /\ Edit(p, q) /\ SameFrame(p, q) /\ Tidy(q) /\ Live(q) = Live(p) \ {i}
      /\ q.revised /\ q.contentRevised
  BY <1>2, <1>3, CloseInnerEdits
<1>5. Sound(q) /\ Tidy(q) /\ now = q.lastNow
  BY <1>4 DEF Edit
<1>6. r = Rebalance(q, now)
  BY <1>1, <1>2 DEF CloseOne
<1>7. /\ Arranged(q, r) /\ Live(r) = Live(q) /\ Tidy(r)
      /\ r.revised = q.revised /\ r.contentRevised = q.contentRevised
  BY <1>5, <1>6, RebalanceArranges
<1>8. Rebalanced(p, q, r) /\ Announced(p, r)
  BY <1>4, <1>7 DEF Rebalanced, Announced
<1> QED BY <1>4, <1>8 DEF Leads

\* shutdown.
LEMMA ShutdownReaches ==
  ASSUME NEW p, Sound(p), Tidy(p), NEW reason \in Reasons,
         reason \notin {"TimedOut", "RenderSuppressed"},
         NEW batch, DOMAIN batch = Live(p), batch \in [DOMAIN batch -> Nat],
         IsLine(batch, DOMAIN batch), NEW r, r = CloseInner(p, batch, reason)
  PROVE  Leads(p, r)
<1>1. /\ Edit(p, r) /\ SameFrame(p, r) /\ Live(r) = {}
      /\ r.revised = (p.revised \/ Live(p) # {})
      /\ r.contentRevised = (p.contentRevised \/ Live(p) # {})
  BY CloseInnerEdits
<1>2. Sound(r) /\ Sound(p)
  BY <1>1 DEF Edit
<1>3. /\ Pending(r) = {} /\ Toasts(r) = {} /\ r.attention = None
      /\ Live(p) = {} => Toasts(p) = {} /\ p.attention = None
  BY <1>1, <1>2 DEF Sound, Scheduled
<1>4. Still(p, r, r)
  BY <1>1, <1>2, <1>3 DEF Still, Runs, SameFrame
<1>5. Announced(p, r)
  <2>1. CASE Live(p) # {}
    BY <1>1, <2>1 DEF Announced
  <2>2. CASE Live(p) = {}
    <3>1. Shown(r) = Shown(p)
      BY <1>1, <1>3, <2>2 DEF Shown, SameFrame
    <3>2. ToastsInOrder(p, r)
      BY <1>3 DEF ToastsInOrder
    <3> QED BY <1>1, <2>2, <3>1, <3>2 DEF Announced
  <2> QED BY <2>1, <2>2
<1> QED BY <1>1, <1>4, <1>5 DEF Leads

\* What a rebalance of a screen without idle places leaves.
LEMMA PlacedStays ==
  ASSUME NEW p, Sound(p), Tidy(p), Placed(p), NEW now, now = p.lastNow,
         NEW r, r = Rebalance(p, now)
  PROVE  Arranged(p, r) /\ Live(r) = Live(p) /\ Announced(p, r)
<1>1. /\ Arranged(p, r) /\ Live(r) = Live(p) /\ r.revised = p.revised
      /\ r.contentRevised = p.contentRevised
  BY RebalanceArranges
<1>2. /\ SameFrame(p, r) /\ ToastsInOrder(p, r)
      /\ Toasts(r) = Toasts(p) /\ r.attention = p.attention
  BY <1>1 DEF Arranged, Seated
<1>3. Shown(r) = Shown(p)
  BY <1>2 DEF Shown, SameFrame
<1>4. \A i \in Live(p) : SameDraft(p, r, i)
  BY <1>1 DEF Arranged, Kept, SameDraft
<1> QED BY <1>1, <1>2, <1>3, <1>4 DEF Announced

\* An edit that leaves all but the pins, limits and display as they are.
LEMMA SameEdits ==
  ASSUME NEW p, Sound(p), NEW q, Sound(q), Lined(q), WithinScreen(q),
         q.lastNow = p.lastNow, q.limits = p.limits,
         q.closed = p.closed, q.closedAs = p.closedAs,
         Live(q) = Live(p), q.pending = p.pending, q.toasts = p.toasts,
         \A i \in Live(p) : q.entries[i].draft = p.entries[i].draft,
         TimersEdited(p, q)
  PROVE  Edit(p, q)
<1>1. Pending(q) = Pending(p) /\ Toasts(q) = Toasts(p) /\ Closed(q) = Closed(p)
  BY DEF Pending, Toasts, Closed
<1>2. PlacesEdited(p, q)
  BY <1>1 DEF PlacesEdited, ToastsInOrder
<1>3. RecordsEdited(p, q)
  <2>1. Live(p) \ Live(q) = {} /\ Closed(p) \cup {} = Closed(p)
    OBVIOUS
  <2> QED BY <1>1, <2>1 DEF RecordsEdited
<1> QED BY <1>2, <1>3 DEF Edit

\* set_display_available.
LEMMA AvailableReaches ==
  ASSUME NEW p, Sound(p), Tidy(p), Placed(p), NEW available \in BOOLEAN,
         NEW now, now = p.lastNow,
         NEW r, r = Rebalance(IF p.available = available THEN p
                              ELSE BumpRevision([p EXCEPT !.available = available]), now)
  PROVE  Leads(p, r)
<1>1. CASE p.available = available
  <2>1. Arranged(p, r) /\ Live(r) = Live(p) /\ Announced(p, r)
    BY <1>1, PlacedStays
  <2>2. TimersEdited(p, p)
    BY DEF TimersEdited, SameDraft
  <2>3. Edit(p, p)
    BY <2>2, SameEdits DEF Tidy
  <2> QED BY <2>1, <2>3 DEF Leads, Rebalanced
<1>2. CASE p.available # available
  <2>1. PICK q : q = BumpRevision([p EXCEPT !.available = available])
    OBVIOUS
  <2>2. r = Rebalance(q, now)
    BY <1>2, <2>1
  <2>3. IsState(p) /\ p.entries \in [Live(p) -> Entry]
    BY MembersAreIds DEF Sound
  <2>4. /\ DOMAIN q = Fields /\ q.available = available /\ q.revised = TRUE
        /\ q.entries = p.entries /\ q.closed = p.closed
        /\ q.closedAs = p.closedAs /\ q.liveKeys = p.liveKeys
        /\ q.pending = p.pending /\ q.toasts = p.toasts
        /\ q.attention = p.attention /\ q.limits = p.limits
        /\ q.nextSequence = p.nextSequence /\ q.nextNonce = p.nextNonce
        /\ q.lastNow = p.lastNow /\ q.panicked = p.panicked
        /\ q.contentRevised = p.contentRevised
    BY <2>1, <2>3 DEF BumpRevision, IsState, Fields
  <2>5. Sound(q) /\ Live(q) = Live(p)
    BY <2>3, <2>4, SoundCarries DEF IsState
  <2>6. Tidy(q)
    <3>1. Tended(p, q)
      BY <2>4, <2>5, TendedCarries
    <3> QED BY <3>1 DEF Tended
  <2>7. /\ Arranged(q, r) /\ Live(r) = Live(q) /\ r.revised = q.revised
        /\ r.contentRevised = q.contentRevised
    BY <2>2, <2>4, <2>5, <2>6, RebalanceArranges
  <2>8. TimersEdited(p, q)
    <3>1. Toasts(q) = Toasts(p)
      BY <2>4 DEF Toasts
    <3> QED BY <2>4, <2>5, <3>1 DEF TimersEdited, SameDraft
  <2>9. Edit(p, q)
    BY <2>4, <2>5, <2>6, <2>8, SameEdits DEF Tidy
  <2>10. \A i \in Live(p) : SameDraft(p, r, i)
    <3>1. \A i \in Live(r) : i \in Live(q) /\ r.entries[i].draft = q.entries[i].draft
      BY <2>7 DEF Arranged, Kept
    <3> QED BY <2>4, <2>5, <2>7, <3>1 DEF SameDraft
  <2>11. Announced(p, r)
    BY <2>4, <2>5, <2>7, <2>10 DEF Announced
  <2> QED BY <2>7, <2>9, <2>11 DEF Leads, Rebalanced
<1> QED BY <1>1, <1>2

\* A timer that set_running starts runs.
LEMMA RunningSince ==
  ASSUME NEW u \in Timer, NEW now \in Nat, NEW t, t = SetRunning(u, now, TRUE),
         t.left # Never
  PROVE  t.since # None
<1>1. now # None
  BY SchedulerConstants
<1>2. CASE u.left = Never \/ u.since # None
  BY <1>2 DEF SetRunning
<1>3. CASE u.left # Never /\ u.since = None
  <2>1. t = [u EXCEPT !.since = now]
    BY <1>3 DEF SetRunning
  <2> QED BY <1>1, <2>1 DEF Timer
<1> QED BY <1>2, <1>3

\* The timer that a jump leaves: stopped if it pins.
PinTimer(p, i, n, now) ==
  IF ToastTimerShouldRun(p, i)
  THEN IF n = None THEN SetRunning(p.entries[i].timer, now, TRUE)
       ELSE SetRunning(p.entries[i].timer, now, FALSE)
  ELSE p.entries[i].timer

\* begin_jump and cancel_jump: a pin stops the timer and its end restarts it,
\* if the Toast is on the screen.
LEMMA PinReaches ==
  ASSUME NEW p, Sound(p), Tidy(p), NEW i \in Live(p),
         NEW n \in Nat \cup {None}, NEW next \in Nat, NEW now, now = p.lastNow,
         NEW t, t = PinTimer(p, i, n, now),
         NEW r, r = Repinned(p, i, n, t, next)
  PROVE  Leads(p, r)
<1>1. /\ IsState(p) /\ DOMAIN p = Fields /\ now \in Nat
      /\ p.entries \in [Live(p) -> Entry]
  BY MembersAreIds DEF Sound, IsState
<1>2. t \in Timer
  <2>1. \A running \in BOOLEAN : SetRunning(p.entries[i].timer, now, running) \in Timer
    BY <1>1, SetRunningType DEF Entry
  <2>2. p.entries[i].timer \in Timer
    BY <1>1 DEF Entry
  <2> QED BY <2>1, <2>2 DEF PinTimer
<1>3. /\ Sound(r) /\ Live(r) = Live(p) /\ r.entries[i].nonce = n
      /\ \A j \in Live(p) \ {i} : r.entries[j] = p.entries[j]
  BY <1>2, PinSound
<1>4. PICK e : e = [p.entries[i] EXCEPT !.nonce = n, !.timer = t]
  OBVIOUS
<1>5. e.draft = p.entries[i].draft /\ e.timer = t
  BY <1>1, <1>4 DEF Entry
<1>6. /\ r.entries = [p.entries EXCEPT ![i] = e]
      /\ r.pending = p.pending /\ r.toasts = p.toasts /\ r.attention = p.attention
      /\ r.closed = p.closed /\ r.closedAs = p.closedAs
      /\ r.limits = p.limits /\ r.available = p.available
      /\ r.lastNow = p.lastNow /\ r.nextSequence = p.nextSequence
      /\ r.revised = p.revised /\ r.contentRevised = p.contentRevised
  BY <1>1, <1>4 DEF Repinned, Fields
<1>7. r.entries[i] = e
  BY <1>1, <1>6
<1>8. \A j \in Live(p) : r.entries[j].draft = p.entries[j].draft
  BY <1>3, <1>5, <1>7
<1>9. Pending(r) = Pending(p) /\ Toasts(r) = Toasts(p)
  BY <1>6 DEF Pending, Toasts
<1>10. \A j : ToastTimerShouldRun(r, j) <=> ToastTimerShouldRun(p, j)
  BY <1>6, <1>9 DEF ToastTimerShouldRun
<1>11. Lined(r) /\ WithinScreen(r)
  <2>1. Closed(r) = Closed(p)
    BY <1>6 DEF Closed
  <2> QED BY <1>6, <1>9, <2>1 DEF Tidy, Lined, WithinScreen
<1>12. TimersEdited(p, r)
  <2>1. \/ r.entries[i].timer = p.entries[i].timer
        \/ \E on \in BOOLEAN :
             /\ r.entries[i].timer = SetRunning(p.entries[i].timer, p.lastNow, on)
             /\ on => i \in Toasts(p)
    BY <1>5, <1>7 DEF ToastTimerShouldRun, PinTimer
  <2>2. \A j \in Live(r) : SameDraft(p, r, j)
    BY <1>3, <1>8 DEF SameDraft
  <2>3. ASSUME NEW j \in Live(r), j # i
        PROVE  r.entries[j].timer = p.entries[j].timer
    BY <1>3, <2>3
  <2>4. Toasts(p) \ Toasts(r) = {}
    BY <1>9
  <2> QED BY <2>1, <2>2, <2>3, <2>4 DEF TimersEdited
<1>13. Edit(p, r)
  BY <1>3, <1>6, <1>8, <1>11, <1>12, SameEdits
<1>14. ASSUME Runs(p)
       PROVE  Runs(r)
  <2>1. ASSUME t.left # Never
        PROVE  /\ t.since # None => ToastTimerShouldRun(p, i)
               /\ ToastTimerShouldRun(p, i) /\ n = None => t.since # None
    <3>1. CASE ~ToastTimerShouldRun(p, i)
      BY <1>14, <2>1, <3>1 DEF Runs, PinTimer
    <3>2. CASE ToastTimerShouldRun(p, i)
      <4>1. ASSUME n = None PROVE t.since # None
        <5>1. PICK u \in Timer : u = p.entries[i].timer
          BY <1>1 DEF Entry
        <5>2. t = SetRunning(u, now, TRUE)
          BY <3>2, <4>1, <5>1 DEF PinTimer
        <5> QED BY <1>1, <2>1, <5>2, RunningSince
      <4> QED BY <3>2, <4>1
    <3> QED BY <3>1, <3>2
  <2>2. ASSUME NEW j \in Live(r), r.entries[j].timer.left # Never
        PROVE  /\ r.entries[j].timer.since # None => ToastTimerShouldRun(r, j)
               /\ ToastTimerShouldRun(r, j) /\ r.entries[j].nonce = None =>
                    r.entries[j].timer.since # None
    <3>1. CASE j = i
      BY <1>3, <1>5, <1>7, <1>10, <2>1, <2>2, <3>1
    <3>2. CASE j # i
      BY <1>3, <1>10, <1>14, <2>2, <3>2 DEF Runs
    <3> QED BY <3>1, <3>2
  <2> QED BY <2>2 DEF Runs
<1>15. Still(p, r, r)
  <2>1. \A j \in Live(r) :
          j \in Live(p) /\ r.entries[j].draft.pres = p.entries[j].draft.pres
    BY <1>3, <1>8
  <2> QED BY <1>3, <1>6, <1>9, <1>14, <2>1 DEF Still, SameFrame
<1>16. Announced(p, r)
  <2>1. Shown(r) = Shown(p)
    BY <1>6, <1>9 DEF Shown
  <2>2. ToastsInOrder(p, r)
    BY <1>6 DEF ToastsInOrder
  <2>3. \A j \in Live(p) : SameDraft(p, r, j)
    BY <1>3, <1>8 DEF SameDraft
  <2> QED BY <1>3, <1>6, <2>1, <2>2, <2>3 DEF Announced
<1> QED BY <1>13, <1>15, <1>16 DEF Leads

\* Fewer records after the rest.
LEMMA TrimArranges ==
  ASSUME NEW s, Sound(s), NEW t, Arranged(s, t),
         NEW n \in Nat, n = ClosedCapacity(s.limits),
         NEW kept, kept = LastOf(t.closed, Closed(t), n), NEW r, r = Trimmed(t, kept)
  PROVE  Arranged(s, r)
<1>1. /\ Sound(t) /\ SameFrame(s, t) /\ Kept(s, t) /\ Placed(t) /\ Seated(s, t)
      /\ Timed(s, t) /\ Ranked(s, t) /\ Suppressed(s, t) /\ RevisionsRise(s, t)
  BY DEF Arranged
<1>2. /\ DOMAIN t = Fields /\ Closed(t) \subseteq Ids
      /\ t.closed \in [Closed(t) -> Nat] /\ kept \subseteq Closed(t)
  BY <1>1, MembersAreIds DEF Sound, IsState, LastOf
<1>3. /\ r.closed = Retain(t.closed, kept) /\ r.closedAs = Restrict(t.closedAs, kept)
      /\ SameFrame(t, r) /\ r.entries = t.entries
      /\ r.pending = t.pending /\ r.toasts = t.toasts /\ r.attention = t.attention
      /\ r.revised = t.revised /\ r.contentRevised = t.contentRevised
  BY ZenonT(30), <1>2 DEF Fields, Trimmed, SameFrame
<1>4. Sound(r)
  BY <1>1, <1>2, TrimSound DEF Trimmed
<1>5. Closed(r) = kept
  <2>1. DOMAIN Retain(t.closed, kept) = kept
    BY <1>2, IdsFinite, RetainPart
  <2> QED BY <1>3, <2>1 DEF Closed
<1>6. \A i \in kept : r.closedAs[i] = t.closedAs[i]
  BY <1>2, <1>3 DEF Restrict
<1>7. /\ Live(r) = Live(t) /\ Pending(r) = Pending(t) /\ Toasts(r) = Toasts(t)
  BY <1>3 DEF Live, Pending, Toasts
<1>8. SameFrame(s, r) /\ Kept(s, r)
  BY <1>1, <1>3, <1>7 DEF SameFrame, Kept
<1>9. Placed(r)
  <2>1. \A kind : OfKind(r, kind) = OfKind(t, kind)
    BY <1>3, <1>7 DEF OfKind
  <2> QED BY <1>1, <1>3, <1>7, <2>1 DEF Placed, SameFrame
<1>10. Seated(s, r)
  BY <1>1, <1>3, <1>7 DEF Seated, ToastsInOrder
<1>11. Timed(s, r)
  <2>1. \A i : ToastTimerShouldRun(r, i) = ToastTimerShouldRun(t, i)
    BY <1>3, <1>7 DEF ToastTimerShouldRun, SameFrame
  <2> QED BY <1>1, <1>3, <1>7, <2>1 DEF Timed
<1>12. Ranked(s, r) /\ RevisionsRise(s, r)
  BY <1>1, <1>3, <1>7 DEF Ranked, RevisionsRise
<1>13. Suppressed(s, r)
  <2>1. PICK gone : gone = Live(s) \ Live(t)
    OBVIOUS
  <2>2. Live(s) \ Live(r) = gone
    BY <1>7, <2>1
  <2>3. ASSUME Cardinality(Closed(s) \cup gone) <= n
        PROVE  kept = Closed(t)
    <3>1. Closed(t) = Closed(s) \cup gone
      BY <1>1, <2>1, <2>3 DEF Suppressed
    <3>2. PICK l, C : l = t.closed /\ C = Closed(t)
      OBVIOUS
    <3>3. C \subseteq Ids /\ DOMAIN l = C /\ Cardinality(C) <= n
      BY <1>2, <2>3, <3>1, <3>2
    <3>4. LastOf(l, C, n) = C
      BY <3>3, IdsFinite, LastOfAll
    <3> QED BY <3>2, <3>4
  <2> QED BY <1>1, <1>2, <1>5, <1>6, <1>7, <2>1, <2>2, <2>3 DEF Suppressed
<1> QED BY <1>4, <1>8, <1>9, <1>10, <1>11, <1>12, <1>13 DEF Arranged

\* update_limits, first part: the edit.
LEMMA ResizedEdits ==
  ASSUME NEW p, Sound(p), Tidy(p), NEW limits \in SchedulerLimits, limits # p.limits,
         NEW now, now = p.lastNow,
         NEW deferred, deferred = Deferred(p, limits),
         NEW q, q = Resized(p, limits, deferred, now)
  PROVE  /\ Edit(p, q) /\ Live(q) = Live(p) /\ q.limits = limits
         /\ \A i \in Live(p) : /\ SameDraft(p, q, i)
                               /\ q.entries[i].nonce = p.entries[i].nonce
<1>1. /\ IsState(p) /\ DOMAIN p = Fields /\ Scheduled(p) /\ now \in Nat
      /\ Toasts(p) \subseteq Ids /\ Toasts(p) \subseteq Live(p)
      /\ p.entries \in [Live(p) -> Entry] /\ p.toasts \in [Toasts(p) -> Nat]
      /\ IsLine(p.toasts, Toasts(p)) /\ IsLine(p.pending, Pending(p))
  BY MembersAreIds DEF Sound, IsState, Scheduled, Tidy, Lined
<1>2. deferred \subseteq Toasts(p)
  BY DEF Deferred
<1>3. /\ Sound(q) /\ Live(q) = Live(p) /\ q.lastNow = p.lastNow
      /\ \A i \in Live(p) : q.entries[i].nonce = p.entries[i].nonce
  BY <1>1, <1>2, ResizedSound
<1>4. Lined(q) /\ WithinScreen(q)
  BY <1>1, ResizedLined DEF Tidy
<1>5. PICK stay : stay = Toasts(p) \ deferred
  OBVIOUS
<1>6. /\ q.limits = limits /\ q.closed = p.closed /\ q.closedAs = p.closedAs
      /\ q.toasts = Retain(p.toasts, stay)
      /\ q.pending = Join(p.pending, Retain(p.toasts, deferred))
      /\ q.entries = TimersStopped(p, deferred, now)
  BY Zenon, <1>1, <1>5 DEF Resized, Fields
<1>7. Toasts(q) = stay /\ ToastsInOrder(p, q)
  <2>1. stay \subseteq Toasts(p)
    BY <1>5
  <2> QED BY <1>6, <2>1, ToastsRetained
<1>8. Pending(q) = Pending(p) \cup deferred
  <2>1. PICK l, T : l = p.toasts /\ T = Toasts(p)
    OBVIOUS
  <2>2. T \subseteq Ids /\ l \in [T -> Nat] /\ deferred \subseteq T
    BY <1>1, <1>2, <2>1
  <2>4. IsFiniteSet(Ids)
    BY IdsFinite
  <2>3. DOMAIN Retain(l, deferred) = deferred
    BY <2>2, <2>4, RetainPart
  <2> QED BY <1>6, <2>1, <2>3 DEF Pending, Join
<1>9. \A i \in Live(p) :
        /\ q.entries[i].draft = p.entries[i].draft
        /\ q.entries[i].timer =
             IF i \in deferred THEN SetRunning(p.entries[i].timer, now, FALSE)
             ELSE p.entries[i].timer
  BY <1>1, <1>6 DEF TimersStopped, Entry
<1>10. \A i \in Live(p) : SameDraft(p, q, i)
  BY <1>3, <1>9 DEF SameDraft
<1>11. TimersEdited(p, q)
  <2>1. \A i \in Live(q) :
          \/ q.entries[i].timer = p.entries[i].timer
          \/ \E running \in BOOLEAN :
               /\ q.entries[i].timer = SetRunning(p.entries[i].timer, p.lastNow, running)
               /\ running => i \in Toasts(p)
    BY <1>3, <1>9
  <2>2. Toasts(p) \ Toasts(q) = deferred
    BY <1>2, <1>5, <1>7
  <2>3. \A i \in deferred :
          q.entries[i].timer.left = Never \/ q.entries[i].timer.since = None
    <3>1. ASSUME NEW t PROVE \/ SetRunning(t, now, FALSE).left = Never
                             \/ SetRunning(t, now, FALSE).since = None
      BY DEF SetRunning
    <3>2. \A i \in deferred :
            q.entries[i].timer = SetRunning(p.entries[i].timer, now, FALSE)
      BY <1>1, <1>2, <1>9
    <3> QED BY <3>1, <3>2
  <2> QED BY <1>3, <1>10, <2>1, <2>2, <2>3 DEF TimersEdited
<1>12. PlacesEdited(p, q)
  <2>1. PICK room \in Nat : room = limits.maxVisible
    BY DEF SchedulerLimits
  <2>2. PICK l, T : l = p.toasts /\ T = Toasts(p)
    OBVIOUS
  <2>3. T \subseteq Ids /\ IsLine(l, T) /\ room \in Int /\ room >= 0
    BY <1>1, <2>1, <2>2
  <2>4. PICK first : first = FirstOf(l, T, room)
    OBVIOUS
  <2>5. /\ first \subseteq T \cap T
        /\ \A i \in first, j \in (T \cap T) \ first : l[i] < l[j]
        /\ first = T \cap T \/ Cardinality(first) = room
    <3>1. IsFiniteSet(Ids)
      BY IdsFinite
    <3>2. /\ FirstOf(l, T, room) \subseteq T \cap T
          /\ \A i \in FirstOf(l, T, room), j \in (T \cap T) \ FirstOf(l, T, room) :
               l[i] < l[j]
          /\ room <= 0 => FirstOf(l, T, room) = {}
          /\ room >= 0 => \/ FirstOf(l, T, room) = T \cap T
                           \/ Cardinality(FirstOf(l, T, room)) = room
      BY <2>3, <3>1, FirstOfLine
    <3> QED BY <2>3, <2>4, <3>2
  <2>6. deferred = T \ first
    BY <2>1, <2>2, <2>4 DEF Deferred
  <2>7. first = stay
    BY <1>5, <2>2, <2>5, <2>6
  <2>8. ASSUME NEW i \in Toasts(p) \ Toasts(q)
        PROVE  /\ q.limits # p.limits /\ Cardinality(Toasts(q)) = q.limits.maxVisible
               /\ \A j \in Toasts(q) : p.toasts[j] < p.toasts[i]
    BY <1>6, <1>7, <2>1, <2>2, <2>5, <2>7
  <2>9. \A i \in Pending(q) \ Pending(p) : i \in Toasts(p) \ Toasts(q)
    BY <1>2, <1>5, <1>7, <1>8
  <2> QED BY <1>3, <1>5, <1>7, <1>8, <2>8, <2>9 DEF PlacesEdited
<1>13. RecordsEdited(p, q)
  <2>1. Live(p) \ Live(q) = {} /\ Closed(q) = Closed(p)
    BY <1>3, <1>6 DEF Closed
  <2> QED BY <1>6, <2>1 DEF RecordsEdited
<1>14. Edit(p, q)
  BY <1>3, <1>4, <1>11, <1>12, <1>13 DEF Edit
<1> QED BY <1>3, <1>6, <1>10, <1>14

\* update_limits.
LEMMA LimitsReach ==
  ASSUME NEW p, Sound(p), Tidy(p), NEW limits \in SchedulerLimits, limits # p.limits,
         NEW now, now = p.lastNow,
         NEW deferred, deferred = Deferred(p, limits),
         NEW q, q = Resized(p, limits, deferred, now),
         NEW full, full = EnforcePendingLimit(Rebalance(SortPending(q), now)),
         NEW kept, kept = LastOf(full.closed, Closed(full), ClosedCapacity(limits)),
         NEW r, r = IF full.panicked THEN full
                    ELSE BumpContentRevision(Trimmed(full, kept))
  PROVE  Leads(p, r)
<1>1. /\ Edit(p, q) /\ Live(q) = Live(p) /\ q.limits = limits
      /\ \A i \in Live(p) : /\ SameDraft(p, q, i)
                            /\ q.entries[i].nonce = p.entries[i].nonce
  BY ResizedEdits
<1>2. Sound(q) /\ Lined(q) /\ WithinScreen(q) /\ now = q.lastNow
  BY <1>1 DEF Edit
<1>3. Arranged(q, full)
  BY <1>2, SortArranges
<1>4. PICK n \in Nat : n = ClosedCapacity(q.limits)
  BY <1>1 DEF ClosedCapacity, SchedulerLimits
<1>5. PICK cut : cut = Trimmed(full, kept)
  OBVIOUS
<1>6. Arranged(q, cut)
  BY <1>1, <1>2, <1>3, <1>4, <1>5, TrimArranges
<1>7. PICK bumped : bumped = BumpContentRevision(cut)
  OBVIOUS
<1>8. Arranged(q, bumped)
  BY <1>2, <1>6, <1>7, BumpArranges
<1>9. bumped.revised /\ bumped.contentRevised
  BY <1>6, <1>7, BumpLeaves DEF Arranged
<1>10. Arranged(q, r)
  BY <1>3, <1>5, <1>7, <1>8
<1>11. Rebalanced(p, q, r)
  BY <1>1, <1>10 DEF Rebalanced
<1>12. Announced(p, r)
  BY <1>5, <1>7, <1>9 DEF Announced
<1> QED BY <1>1, <1>11, <1>12 DEF Leads

-----------------------------------------------------------------------------
(* Every method: prepare_time, then what the method does, then its end.    *)

Prepared(s, now, p) ==
  /\ Sound(p) /\ Tidy(p) /\ Placed(p) /\ p.lastNow = now
  /\ \E c : /\ ClearedFrom(s, now, c) /\ Arranged(c, p)
            /\ Live(p) = Live(c) /\ p.closed = c.closed /\ p.closedAs = c.closedAs
            /\ p.revised = c.revised /\ p.contentRevised = c.contentRevised

Reached(s, now, r) == \E p : Prepared(s, now, p) /\ Leads(p, r)

\* prepare_time.
LEMMA Prepares ==
  ASSUME NEW s, Sound(s), Tidy(s), NEW now \in Nat, NEW p, p = PrepareTime(s, now)
  PROVE  Prepared(s, now, p)
<1>1. PICK c : /\ ClearedFrom(s, now, c) /\ Arranged(c, p) /\ Tidy(p)
               /\ Live(p) = Live(c) /\ p.closed = c.closed /\ p.closedAs = c.closedAs
               /\ p.revised = c.revised /\ p.contentRevised = c.contentRevised
               /\ ~p.panicked
  BY PrepareTimeArranges
<1>2. Sound(p) /\ Placed(p) /\ p.lastNow = now
  BY <1>1 DEF Arranged, SameFrame, ClearedFrom
<1> QED BY <1>1, <1>2 DEF Prepared

\* advance.
LEMMA AdvanceReaches ==
  ASSUME NEW s, Sound(s), Tidy(s), NEW now \in Nat, NEW r, r = Advance(s, now)
  PROVE  Reached(s, now, r)
<1>1. Prepared(s, now, r)
  BY Prepares DEF Advance
<1> QED BY <1>1, IdleReaches DEF Reached, Prepared

\* submit.
LEMMA SubmitReaches ==
  ASSUME NEW s, Sound(s), Tidy(s), NEW now \in Nat, NEW d \in Draft,
         NEW r, r = Submit(s, d, now), r.nextSequence <= MaxSubmits
  PROVE  Reached(s, now, r)
<1>1. PICK p : p = PrepareTime(s, now)
  OBVIOUS
<1>2. Prepared(s, now, p) /\ Sound(p) /\ Tidy(p) /\ now = p.lastNow
  BY <1>1, Prepares DEF Prepared
<1>3. PICK i : i = IF d.key = None THEN None ELSE p.liveKeys[d.key]
  OBVIOUS
<1>4. r = IF i = None THEN Insert(p, d, now)
          ELSE IF p.entries[i].draft = d THEN p ELSE Replace(p, i, d, now)
  BY <1>1, <1>3 DEF Submit
<1>5. CASE i = None
  <2>1. d.key # None => p.liveKeys[d.key] = None
    BY <1>3, <1>5
  <2>2. r = Insert(p, d, now)
    BY <1>4, <1>5
  <2> QED BY <1>2, <2>1, <2>2, InsertReaches DEF Reached
<1>6. CASE i # None
  <2>1. d.key \in Keys
    BY <1>3, <1>6 DEF Draft
  <2>2. i \in Live(p) /\ p.entries[i].draft.key = d.key
    BY <1>2, <1>3, <1>6, <2>1 DEF Sound, KeysIndexed
  <2>3. CASE p.entries[i].draft = d
    BY <1>2, <1>4, <1>6, <2>3, IdleReaches DEF Reached
  <2>4. CASE p.entries[i].draft # d
    <3>1. r = Replace(p, i, d, now)
      BY <1>4, <1>6, <2>4
    <3> QED BY <1>2, <2>2, <2>4, <3>1, ReplaceReaches DEF Reached
  <2> QED BY <2>3, <2>4
<1> QED BY <1>5, <1>6

\* update.
LEMMA ApplyUpdateReaches ==
  ASSUME NEW s, Sound(s), Tidy(s), NEW now \in Nat, NEW i, NEW u \in Update,
         NEW r, r = ApplyUpdate(s, i, u, now)
  PROVE  Reached(s, now, r)
<1>1. PICK p : p = PrepareTime(s, now)
  OBVIOUS
<1>2. Prepared(s, now, p) /\ Sound(p) /\ Tidy(p) /\ now = p.lastNow
  BY <1>1, Prepares DEF Prepared
<1> QED BY <1>1, <1>2, UpdateReaches DEF Reached

\* close.
LEMMA ClosingReaches ==
  ASSUME NEW s, Sound(s), Tidy(s), NEW now \in Nat, NEW i,
         NEW reason \in Reasons, reason \notin {"TimedOut", "RenderSuppressed"},
         NEW r, r = Close(s, i, reason, now)
  PROVE  Reached(s, now, r)
<1>1. PICK p : p = PrepareTime(s, now)
  OBVIOUS
<1>2. Prepared(s, now, p) /\ Sound(p) /\ Tidy(p) /\ now = p.lastNow
  BY <1>1, Prepares DEF Prepared
<1>3. CASE i \notin Live(p)
  BY <1>1, <1>2, <1>3, IdleReaches DEF Close, Reached
<1>4. CASE i \in Live(p)
  <2>1. r = Rebalance(CloseOne(p, i, reason), now)
    BY <1>1, <1>4 DEF Close
  <2> QED BY <1>2, <1>4, <2>1, CloseReaches DEF Reached
<1> QED BY <1>3, <1>4

\* shutdown.
LEMMA ShuttingReaches ==
  ASSUME NEW s, Sound(s), Tidy(s), NEW now \in Nat, NEW order, IsLine(order, Live(s)),
         NEW reason \in Reasons, reason \notin {"TimedOut", "RenderSuppressed"},
         NEW r, r = Shutdown(s, order, reason, now)
  PROVE  Reached(s, now, r)
<1>1. PICK p : p = PrepareTime(s, now)
  OBVIOUS
<1>2. Prepared(s, now, p) /\ Sound(p) /\ Tidy(p) /\ now = p.lastNow
  BY <1>1, Prepares DEF Prepared
<1>3. PICK batch : batch = Retain(order, Live(p))
  OBVIOUS
<1>4. r = CloseInner(p, batch, reason)
  BY <1>1, <1>3 DEF Shutdown
<1>5. Live(p) \subseteq Live(s) /\ Live(s) \subseteq Ids
  BY <1>1, PreparedLeaves, MembersAreIds DEF Kept, Sound
<1>6. IsLine(batch, Live(p))
  <2>1. IsLine(batch, Live(p) \cap Live(s))
    BY <1>3, <1>5, IdsFinite, RetainLine
  <2>2. Live(p) \cap Live(s) = Live(p)
    BY <1>5
  <2> QED BY <2>1, <2>2
<1>7. /\ DOMAIN batch = Live(p) /\ batch \in [DOMAIN batch -> Nat]
      /\ IsLine(batch, DOMAIN batch)
  <2>1. Cardinality(Live(p)) \in Nat
    BY <1>5, IdsFinite, CountIsNat
  <2> QED BY <1>6, <2>1 DEF IsLine
<1> QED BY <1>2, <1>4, <1>7, ShutdownReaches DEF Reached

\* set_display_available.
LEMMA SetAvailableReaches ==
  ASSUME NEW s, Sound(s), Tidy(s), NEW now \in Nat, NEW available \in BOOLEAN,
         NEW r, r = SetDisplayAvailable(s, available, now)
  PROVE  Reached(s, now, r)
<1>1. PICK p : p = PrepareTime(s, now)
  OBVIOUS
<1>2. /\ Prepared(s, now, p) /\ Sound(p) /\ Tidy(p) /\ Placed(p) /\ now = p.lastNow
  BY <1>1, Prepares DEF Prepared
<1>3. r = Rebalance(IF p.available = available THEN p
                    ELSE BumpRevision([p EXCEPT !.available = available]), now)
  BY <1>1 DEF SetDisplayAvailable
<1> QED BY <1>2, <1>3, AvailableReaches DEF Reached

\* update_limits.
LEMMA UpdateLimitsReaches ==
  ASSUME NEW s, Sound(s), Tidy(s), NEW now \in Nat, NEW limits \in SchedulerLimits,
         NEW r, r = UpdateLimits(s, limits, now)
  PROVE  Reached(s, now, r)
<1>1. PICK p : p = PrepareTime(s, now)
  OBVIOUS
<1>2. Prepared(s, now, p) /\ Sound(p) /\ Tidy(p) /\ now = p.lastNow
  BY <1>1, Prepares DEF Prepared
<1>3. PICK deferred : deferred = Deferred(p, limits)
  OBVIOUS
<1>4. PICK q : q = Resized(p, limits, deferred, now)
  OBVIOUS
<1>5. PICK full : full = EnforcePendingLimit(Rebalance(SortPending(q), now))
  OBVIOUS
<1>6. PICK kept : kept = LastOf(full.closed, Closed(full), ClosedCapacity(limits))
  OBVIOUS
<1>7. r = IF p.limits = limits THEN p
          ELSE IF full.panicked THEN full ELSE BumpContentRevision(Trimmed(full, kept))
  BY <1>1, <1>3, <1>4, <1>5, <1>6 DEF UpdateLimits, Resized, Trimmed
<1>8. CASE p.limits = limits
  BY <1>2, <1>7, <1>8, IdleReaches DEF Reached
<1>9. CASE p.limits # limits
  <2>1. r = IF full.panicked THEN full ELSE BumpContentRevision(Trimmed(full, kept))
    BY <1>7, <1>9
  <2>2. Leads(p, r)
    BY <1>2, <1>3, <1>4, <1>5, <1>6, <1>9, <2>1, LimitsReach
  <2> QED BY <1>2, <2>2 DEF Reached
<1> QED BY <1>8, <1>9

\* begin_jump and cancel_jump.
LEMMA BeginJumpReaches ==
  ASSUME NEW s, Sound(s), Tidy(s), NEW now \in Nat, NEW i,
         NEW r, r = BeginJump(s, i, now)
  PROVE  Reached(s, now, r)
<1>1. PICK p : p = PrepareTime(s, now)
  OBVIOUS
<1>2. Prepared(s, now, p) /\ Sound(p) /\ Tidy(p) /\ now = p.lastNow
  BY <1>1, Prepares DEF Prepared
<1>3. /\ p.entries \in [Live(p) -> Entry] /\ DOMAIN p = Fields /\ p.nextNonce \in Nat
  BY <1>2, MembersAreIds DEF Sound, IsState
<1>4. CASE ~JumpAllowed(p, i)
  BY <1>1, <1>2, <1>4, IdleReaches DEF BeginJump, Reached
<1>5. CASE JumpAllowed(p, i)
  <2>1. i \in Live(p)
    BY <1>5 DEF JumpAllowed
  <2>2. PICK n \in Nat \cup {None}, next \in Nat : n = p.nextNonce /\ next = p.nextNonce + 1
    BY <1>3
  <2>4. PICK t : t = PinTimer(p, i, n, now)
    OBVIOUS
  <2>5. n # None
    BY <1>3, <2>2, SchedulerConstants
  <2>6. r = Repinned(p, i, n, t, next)
    <3> DEFINE u == IF ToastTimerShouldRun(p, i)
                    THEN SetRunning(p.entries[i].timer, now, FALSE)
                    ELSE p.entries[i].timer
    <3>1. r = Repinned(p, i, p.nextNonce, u, p.nextNonce + 1)
      BY ZenonT(30), <1>1, <1>3, <1>5, <2>1 DEF BeginJump, Fields, Entry, Repinned
    <3> QED BY <2>2, <2>4, <2>5, <3>1 DEF PinTimer
  <2>7. /\ Sound(p) /\ Tidy(p) /\ now = p.lastNow
        /\ n \in Nat \cup {None} /\ next \in Nat
    BY <1>2, <2>2
  <2>8. Leads(p, r)
    BY <2>1, <2>4, <2>6, <2>7, PinReaches
  <2> QED BY <1>2, <2>8 DEF Reached
<1> QED BY <1>4, <1>5

LEMMA CancelJumpReaches ==
  ASSUME NEW s, Sound(s), Tidy(s), NEW now \in Nat, NEW intent,
         NEW r, r = CancelJump(s, intent, now)
  PROVE  Reached(s, now, r)
<1>1. PICK p : p = PrepareTime(s, now)
  OBVIOUS
<1>2. Prepared(s, now, p) /\ Sound(p) /\ Tidy(p) /\ now = p.lastNow
  BY <1>1, Prepares DEF Prepared
<1>3. /\ p.entries \in [Live(p) -> Entry] /\ DOMAIN p = Fields /\ p.nextNonce \in Nat
  BY <1>2, MembersAreIds DEF Sound, IsState
<1>4. CASE ~IntentValid(p, intent)
  BY <1>1, <1>2, <1>4, IdleReaches DEF CancelJump, Reached
<1>5. CASE IntentValid(p, intent)
  <2>1. PICK i \in Live(p) : i = intent.id
    BY <1>5 DEF IntentValid
  <2>2. PICK n \in Nat \cup {None}, next \in Nat : None = n /\ next = p.nextNonce
    BY <1>3
  <2>4. PICK t : t = PinTimer(p, i, n, now)
    OBVIOUS
  <2>6. r = Repinned(p, i, n, t, next)
    <3> DEFINE u == IF ToastTimerShouldRun(p, i)
                    THEN SetRunning(p.entries[i].timer, now, TRUE)
                    ELSE p.entries[i].timer
    <3>1. r = Repinned(p, i, None, u, p.nextNonce)
      BY ZenonT(30), <1>1, <1>3, <1>5, <2>1 DEF CancelJump, Fields, Entry, Repinned
    <3> QED BY <2>2, <2>4, <3>1 DEF PinTimer
  <2>7. /\ Sound(p) /\ Tidy(p) /\ now = p.lastNow
        /\ n \in Nat \cup {None} /\ next \in Nat
    BY <1>2, <2>2
  <2>8. Leads(p, r)
    BY <2>1, <2>4, <2>6, <2>7, PinReaches
  <2> QED BY <1>2, <2>8 DEF Reached
<1> QED BY <1>4, <1>5

-----------------------------------------------------------------------------
(* What is live has room in `closed`, unless the `.expect` failed.         *)

\* The last n of a line of as many are n at least.
LEMMA LastOfEnough ==
  ASSUME NEW U, IsFiniteSet(U), NEW A, A \subseteq U, NEW l, IsLine(l, A),
         NEW S, NEW n \in Nat, n <= Cardinality(S \cap A)
  PROVE  n <= Cardinality(LastOf(l, S, n))
<1>1. PICK K, k : K = S \cap A /\ k = Cardinality(K)
  OBVIOUS
<1>2. /\ K \subseteq U /\ K \subseteq A /\ k \in Nat /\ Cardinality(A) \in Nat
      /\ IsFiniteSet(K)
  BY <1>1, CountIsNat
<1>3. PICK r : r = Retain(l, S)
  OBVIOUS
<1>4. /\ IsLine(r, K)
      /\ \A i, j \in K : r[i] < r[j] <=> l[i] < l[j]
  BY <1>1, <1>3, RetainLine
<1>5. PICK rev : rev = Reversed(r)
  OBVIOUS
<1>6. rev \in [K -> 1 .. k] /\ \A i, j \in K : rev[i] = rev[j] => i = j
  BY <1>1, <1>2, <1>4, <1>5, ReversedLine DEF IsLine
<1>7. DOMAIN l = A /\ \A i \in A : l[i] \in Int
  BY <1>2 DEF IsLine
<1>8. DOMAIN r = K /\ \A i \in K : r[i] \in Int
  BY <1>1, <1>2, <1>4 DEF IsLine
<1> DEFINE from(i) == {j \in K : l[i] <= l[j]}
<1>9. \A i \in K : rev[i] = Cardinality(from(i))
  <2> SUFFICES ASSUME NEW i \in K PROVE rev[i] = Cardinality(from(i))
    OBVIOUS
  <2>1. \A j \in K : r[i] <= r[j] <=> l[i] <= l[j]
    BY <1>2, <1>4, <1>7, <1>8
  <2>2. {j \in K : r[i] <= r[j]} = from(i)
    BY <2>1
  <2> QED BY <1>5, <1>8, <2>2 DEF Reversed
<1>10. PICK F : F = LastOf(l, S, n)
  OBVIOUS
<1>11. F = {i \in K : rev[i] <= n}
  BY <1>1, <1>7, <1>9, <1>10 DEF LastOf
<1> HIDE DEF from
<1>12. \A m \in 1 .. k : \E i \in K : rev[i] = m
  <2>1. rev \in Injection(K, 1 .. k)
    BY <1>6 DEF Injection, IsInjective
  <2>2. IsFiniteSet(1 .. k) /\ Cardinality(1 .. k) = k
    <3>1. k \in Nat
      BY <1>2
    <3> QED BY <3>1, FS_Interval
  <2>3. rev \in Surjection(K, 1 .. k)
    BY <1>1, <2>1, <2>2, FS_Injection
  <2> QED BY <2>3 DEF Surjection
<1>13. PICK g : g = [m \in 1 .. n |-> CHOOSE i \in K : rev[i] = m]
  OBVIOUS
<1>14. \A m \in 1 .. n : g[m] \in F /\ rev[g[m]] = m
  <2> SUFFICES ASSUME NEW m \in 1 .. n PROVE g[m] \in F /\ rev[g[m]] = m
    OBVIOUS
  <2>1. m \in 1 .. k /\ m <= n
    BY <1>1, <1>2
  <2>2. g[m] \in K /\ rev[g[m]] = m
    BY <1>12, <1>13, <2>1
  <2> QED BY <1>11, <2>1, <2>2
<1>15. g \in Injection(1 .. n, F)
  <2>1. g \in [1 .. n -> F]
    BY <1>13, <1>14
  <2>2. \A a, b \in 1 .. n : g[a] = g[b] => a = b
    BY <1>14
  <2> QED BY <2>1, <2>2 DEF Injection, IsInjective
<1>16. IsFiniteSet(F) /\ IsFiniteSet(1 .. n) /\ Cardinality(1 .. n) = n
  <2>1. F \subseteq K
    BY <1>11
  <2>2. IsFiniteSet(1 .. n) /\ Cardinality(1 .. n) = n
    BY FS_Interval
  <2>3. IsFiniteSet(F)
    BY <1>2, <2>1, FS_Subset
  <2> QED BY <2>2, <2>3
<1> QED BY <1>10, <1>15, <1>16, FS_Injection

\* enforce_pending_limit: the limit holds where the `.expect` did.
LEMMA EnforceBounds ==
  ASSUME NEW s, Sound(s), IsLine(s.pending, Pending(s)),
         NEW r, r = EnforcePendingLimit(s), ~r.panicked
  PROVE  Cardinality(Pending(r)) <= s.limits.maxPending
<1>1. PICK excess : excess = Cardinality(Pending(s)) - s.limits.maxPending
  OBVIOUS
<1>2. PICK losers : losers = Losers(s, excess)
  OBVIOUS
<1>3. PICK batch : batch = Reversed(Retain(s.pending, losers))
  OBVIOUS
<1>4. PICK c : c = CloseInner(s, batch, "RenderSuppressed")
  OBVIOUS
<1>5. PICK U : U = Unpinned(s)
  OBVIOUS
<1>6. PICK failed : failed = (Cardinality(Pending(s) \cap U) < excess)
  OBVIOUS
<1>7. r = [c EXCEPT !.panicked = failed]
  BY <1>1, <1>2, <1>3, <1>4, <1>5, <1>6 DEF EnforcePendingLimit
<1>8. DOMAIN c = Fields
  BY <1>4, Zenon DEF CloseInner, Sound, IsState
<1>9. r.pending = c.pending /\ ~failed
  BY <1>7, <1>8 DEF Fields
<1>10. PICK l, P : l = s.pending /\ P = Pending(s)
  OBVIOUS
<1>11. /\ P \subseteq Ids /\ l \in [P -> Nat] /\ IsLine(l, P) /\ IsFiniteSet(Ids)
       /\ s.limits.maxPending \in Nat
  BY <1>10, MembersAreIds, IdsFinite DEF Sound, IsState, SchedulerLimits
<1>12. losers = LastOf(l, U, excess) /\ losers \subseteq U \cap P
  BY <1>2, <1>5, <1>10, <1>11 DEF Losers, LastOf
<1>13. DOMAIN batch = losers
  <2>1. losers \subseteq P /\ losers \subseteq Ids
    BY <1>11, <1>12
  <2>2. IsLine(Retain(l, losers), losers)
    BY <1>11, <2>1, RetainPart
  <2>3. IsLine(batch, losers)
    BY <1>3, <1>10, <1>11, <2>1, <2>2, ReversedLine
  <2>4. Cardinality(losers) \in Nat
    BY <1>11, <2>1, CountIsNat
  <2> QED BY <2>3, <2>4 DEF IsLine
<1>14. Pending(r) = P \ losers
  <2>1. c.pending = Retain(s.pending, Pending(s) \ losers)
    BY <1>4, <1>13, CloseInnerFields DEF Sound
  <2>2. r.pending = Retain(s.pending, P \ losers) /\ P \ losers \subseteq Pending(s)
    BY <1>9, <1>10, <2>1
  <2> QED BY <2>2, PendingPart DEF Sound
<1>15. /\ IsFiniteSet(P) /\ Cardinality(P) \in Nat /\ losers \subseteq P
       /\ Cardinality(losers) \in Nat /\ Cardinality(P \ losers) \in Nat
       /\ Cardinality(P \ losers) = Cardinality(P) - Cardinality(losers)
  <2>1. losers \subseteq P /\ IsFiniteSet(P) /\ IsFiniteSet(losers)
    BY <1>11, <1>12, CountIsNat
  <2>2. Cardinality(P \ losers) = Cardinality(P) - Cardinality(P \cap losers)
    BY <2>1, FS_Difference
  <2>3. P \cap losers = losers
    BY <2>1
  <2> QED BY <1>11, <2>1, <2>2, <2>3, FS_CardinalityType, FS_Difference
<1>16. CASE excess <= 0
  BY <1>1, <1>10, <1>11, <1>14, <1>15, <1>16
<1>17. CASE ~(excess <= 0)
  <2>1. excess \in Nat
    BY <1>1, <1>10, <1>11, <1>15, <1>17
  <2>2. Cardinality(U \cap P) \in Nat /\ U \cap P = Pending(s) \cap U
    BY <1>10, <1>11, CountIsNat
  <2>3. excess <= Cardinality(U \cap P)
    <3>1. ~(Cardinality(U \cap P) < excess)
      BY <1>6, <1>9, <2>2
    <3> QED BY <2>1, <2>2, <3>1
  <2>4. excess <= Cardinality(losers)
    BY <1>11, <1>12, <2>1, <2>3, LastOfEnough
  <2> QED BY <1>1, <1>10, <1>11, <1>14, <1>15, <2>1, <2>4
<1> QED BY <1>16, <1>17

\* Two sets together have no more elements than one and the other.
LEMMA UnionCounts ==
  ASSUME NEW S, IsFiniteSet(S), NEW T, IsFiniteSet(T)
  PROVE  /\ IsFiniteSet(S \cup T) /\ Cardinality(S \cup T) \in Nat
         /\ Cardinality(S \cup T) <= Cardinality(S) + Cardinality(T)
<1>1. /\ IsFiniteSet(S \cup T)
      /\ Cardinality(S \cup T) = Cardinality(S) + Cardinality(T) - Cardinality(S \cap T)
  BY FS_Union
<1>2. IsFiniteSet(S \cap T) /\ S \cap T \subseteq S
  BY FS_Subset
<1> QED BY <1>1, <1>2, FS_CardinalityType

\* Where both limits hold, there is room for the record of all that is live.
LEMMA LiveHasRoom ==
  ASSUME NEW s, Sound(s), WithinScreen(s),
         Cardinality(Pending(s)) <= s.limits.maxPending
  PROVE  HasRoom(s, Live(s))
<1>1. PICK P, T, G : /\ P = Pending(s) /\ T = Toasts(s) /\ G = {s.attention} \ {None}
  OBVIOUS
<1>2. /\ IsState(s) /\ Live(s) = P \cup T \cup G
      /\ P \subseteq Ids /\ T \subseteq Ids /\ IsFiniteSet(Ids)
      /\ s.limits.maxPending \in Nat /\ s.limits.maxVisible \in Nat
  BY <1>1, MembersAreIds, IdsFinite DEF Sound, Scheduled, IsState, SchedulerLimits
<1>3. /\ IsFiniteSet(P) /\ IsFiniteSet(T) /\ Cardinality(P) \in Nat
      /\ Cardinality(T) \in Nat
  BY <1>2, CountIsNat
<1>4. IsFiniteSet(G) /\ Cardinality(G) \in Nat /\ Cardinality(G) <= 1
  <2>1. IsFiniteSet({s.attention}) /\ Cardinality({s.attention}) = 1
    BY FS_Singleton
  <2>2. G \subseteq {s.attention}
    BY <1>1
  <2> QED BY <2>1, <2>2, FS_Subset, FS_CardinalityType
<1>5. Cardinality(P \cup T) <= Cardinality(P) + Cardinality(T)
      /\ IsFiniteSet(P \cup T) /\ Cardinality(P \cup T) \in Nat
  BY <1>3, UnionCounts
<1>6. Cardinality((P \cup T) \cup G) <= Cardinality(P \cup T) + Cardinality(G)
      /\ Cardinality((P \cup T) \cup G) \in Nat
  BY <1>4, <1>5, UnionCounts
<1>7. Cardinality(P) <= s.limits.maxPending /\ Cardinality(T) <= s.limits.maxVisible
  BY <1>1 DEF WithinScreen
<1>8. Cardinality(Live(s)) <= s.limits.maxPending + s.limits.maxVisible + 1
  BY <1>2, <1>3, <1>4, <1>5, <1>6, <1>7
<1> QED BY <1>8 DEF HasRoom, ClosedCapacity

\* A queue in order, rebalanced, with its limit enforced: some of it stays, and
\* what stays has room.
LEMMA SettledHasRoom ==
  ASSUME NEW q, Sound(q), Lined(q), WithinScreen(q), NEW now \in Nat,
         NEW full, full = EnforcePendingLimit(Rebalance(SortPending(q), now))
  PROVE  /\ Live(q) # {} => Live(full) # {}
         /\ ~full.panicked => HasRoom(full, Live(full))
<1>1. PICK sorted : sorted = SortPending(q)
  OBVIOUS
<1>2. PICK placed : placed = Rebalance(sorted, now)
  OBVIOUS
<1>3. full = EnforcePendingLimit(placed)
  BY <1>1, <1>2
<1>4. Sound(sorted) /\ Live(sorted) = Live(q)
  BY <1>1, SortPendingSound
<1>5. Live(placed) = Live(q)
  BY <1>2, <1>4, RebalanceSound
<1>6. Sound(placed) /\ Tidy(placed) /\ placed.limits = q.limits
  BY <1>1, <1>2, SortSettles DEF Settled, SameFrame
<1>7. Sound(full) /\ Tidy(full) /\ full.limits = q.limits
  BY <1>1, <1>2, <1>3, SortSettles DEF Settled, SameFrame
<1>8. IsLine(placed.pending, Pending(placed))
  BY <1>6 DEF Tidy, Lined
<1>9. ASSUME Live(q) # {}
      PROVE  Live(full) # {}
  <2>1. PICK losers : Enforced(placed, full, losers)
    BY <1>3, <1>6, <1>8, EnforceLeaves
  <2>2. /\ Live(full) = Live(placed) \ losers
        /\ losers # {} => Cardinality(Pending(full)) >= placed.limits.maxPending
    BY <2>1 DEF Enforced
  <2>3. CASE losers = {}
    BY <1>5, <1>9, <2>2, <2>3
  <2>4. CASE losers # {}
    <3>1. placed.limits.maxPending \in Nat \ {0}
      BY <1>6 DEF Sound, IsState, SchedulerLimits
    <3>2. Cardinality(Pending(full)) # 0
      BY <2>2, <2>4, <3>1
    <3>3. Pending(full) # {}
      BY <3>2, FS_EmptySet
    <3> QED BY <1>7, <3>3 DEF Sound, Scheduled
  <2> QED BY <2>3, <2>4
<1>10. ASSUME ~full.panicked
       PROVE  HasRoom(full, Live(full))
  <2>1. Cardinality(Pending(full)) <= full.limits.maxPending
    BY <1>3, <1>6, <1>7, <1>8, <1>10, EnforceBounds
  <2> QED BY <1>7, <2>1, LiveHasRoom DEF Tidy
<1> QED BY <1>9, <1>10

\* The revisions touch no room.
LEMMA BumpRoom ==
  ASSUME NEW s, Sound(s), NEW r, r = BumpContentRevision(s)
  PROVE  Live(r) = Live(s) /\ r.limits = s.limits /\ r.panicked = s.panicked
BY DEF BumpContentRevision, Sound, IsState, Fields, Live

\* submit of a new Notification: somebody stays, and who stays has room.
LEMMA InsertHasRoom ==
  ASSUME NEW s, Sound(s), Tidy(s), NEW d \in Draft, NEW now \in Nat,
         d.key # None => s.liveKeys[d.key] = None,
         NEW r, r = Insert(s, d, now), r.nextSequence <= MaxSubmits
  PROVE  Live(r) # {} /\ (~r.panicked => HasRoom(r, Live(r)))
<1>1. PICK added, id : added = Inserted(s, d) /\ id = s.nextSequence
  OBVIOUS
<1>2. PICK full : full = EnforcePendingLimit(Rebalance(SortPending(added), now))
  OBVIOUS
<1>3. r = IF full.panicked THEN full ELSE BumpContentRevision(full)
  BY <1>1, <1>2 DEF Insert, Inserted
<1>4. Sound(added)
  BY <1>1, InsertSound
<1>5. /\ added.pending = Push(s.pending, id) /\ added.toasts = s.toasts
      /\ added.closed = s.closed /\ added.limits = s.limits
      /\ DOMAIN added.entries = Live(s) \cup {id}
  BY <1>1, InsertedFields DEF Sound
<1>6. Live(added) = Live(s) \cup {id} /\ Toasts(added) = Toasts(s) /\ Closed(added) = Closed(s)
  BY <1>5 DEF Live, Toasts, Closed
<1>7. /\ id \in Ids /\ id \notin Pending(s) /\ Pending(s) \subseteq Ids
  <2>1. id \in Ids
    BY <1>4, <1>6, MembersAreIds DEF Sound
  <2>2. \A i \in Live(s) : i \in Nat /\ i < id
    BY <1>1, IdsFinite, MembersAreIds DEF Sound, Numbered
  <2>3. Pending(s) \subseteq Live(s) /\ Pending(s) \subseteq Ids
    BY MembersAreIds DEF Sound, Scheduled
  <2> QED BY <2>1, <2>2, <2>3, IdsFinite
<1>8. Lined(added) /\ WithinScreen(added)
  <2>1. IsLine(s.pending, Pending(s)) /\ IsLine(s.toasts, Toasts(s)) /\ IsLine(s.closed, Closed(s))
    BY DEF Tidy, Lined
  <2>2. IsLine(added.pending, Pending(s) \cup {id})
    BY <1>5, <1>7, <2>1, IdsFinite, PushLine
  <2>3. Pending(added) = Pending(s) \cup {id}
    BY <2>2 DEF IsLine, Pending
  <2> QED BY <1>5, <1>6, <2>1, <2>2, <2>3 DEF Tidy, Lined, WithinScreen
<1>9. Live(full) # {} /\ (~full.panicked => HasRoom(full, Live(full)))
  BY <1>2, <1>4, <1>6, <1>8, SettledHasRoom
<1>10. Sound(full)
  BY <1>2, <1>4, SortSettles
<1>11. PICK bumped : bumped = BumpContentRevision(full)
  OBVIOUS
<1>12. /\ Live(bumped) = Live(full) /\ bumped.limits = full.limits
       /\ bumped.panicked = full.panicked
  BY <1>10, <1>11, BumpRoom
<1> QED BY <1>3, <1>9, <1>11, <1>12 DEF HasRoom

\* `closed` has room for the records of all that is live.
Roomy(s) == HasRoom(s, Closed(s) \cup Live(s))

LEMMA DrainRoom ==
  ASSUME NEW s, Sound(s), HasRoom(s, Live(s))
  PROVE  Roomy(DrainClosed(s))
<1>1. PICK r : r = DrainClosed(s)
  OBVIOUS
<1>2. r.limits = s.limits /\ r.entries = s.entries /\ r.closed = EmptyLine
  BY <1>1 DEF DrainClosed, Sound, IsState, Fields
<1>3. Closed(r) \cup Live(r) = Live(s)
  BY <1>2 DEF Closed, Live, EmptyLine
<1> QED BY <1>1, <1>2, <1>3 DEF Roomy, HasRoom

\* Less has room where more has.
LEMMA LessHasRoom ==
  ASSUME NEW s, Sound(s), NEW S, S \subseteq Ids, HasRoom(s, S),
         NEW T, T \subseteq S, NEW r, r.limits = s.limits
  PROVE  HasRoom(r, T)
<1>1. /\ Cardinality(T) \in Nat /\ Cardinality(S) \in Nat
      /\ Cardinality(T) <= Cardinality(S)
  BY IdsFinite, PartCounts
<1>2. ClosedCapacity(s.limits) \in Nat
  BY DEF Sound, IsState, SchedulerLimits, ClosedCapacity
<1> QED BY <1>1, <1>2 DEF HasRoom

\* A method that adds nothing loses no record, and leaves as much room.
LEMMA TendsRoomy ==
  ASSUME NEW s, Sound(s), Tidy(s), Roomy(s), NEW r, Sound(r), Tends(s, r)
  PROVE  /\ Closed(r) = Closed(s) \cup (Live(s) \ Live(r))
         /\ Roomy(r) /\ Roomy(DrainClosed(r))
<1>1. PICK S : S = Closed(s) \cup Live(s)
  OBVIOUS
<1>2. S \subseteq Ids /\ HasRoom(s, S)
  BY <1>1, MembersAreIds DEF Sound, Roomy
<1>3. RecordsWith(s, {}, r) /\ r.limits = s.limits /\ Live(r) \subseteq Live(s)
  BY DEF Tends, LeavesTidy
<1>4. Records(s, {}, r) \subseteq S
  BY <1>1 DEF Records
<1>5. HasRoom(s, Records(s, {}, r))
  BY <1>2, <1>4, LessHasRoom
<1>6. Closed(r) = Closed(s) \cup (Live(s) \ Live(r))
  BY <1>3, <1>5 DEF RecordsWith, Records
<1>7. Closed(r) \cup Live(r) = S /\ Live(r) \subseteq S
  BY <1>1, <1>3, <1>6
<1>8. HasRoom(r, S) /\ HasRoom(r, Live(r))
  BY <1>2, <1>3, <1>7, LessHasRoom
<1>9. Roomy(r)
  BY <1>7, <1>8 DEF Roomy
<1> QED BY <1>6, <1>8, <1>9, DrainRoom

\* submit loses none either, where the `.expect` holds.
LEMMA SubmitRoomy ==
  ASSUME NEW s, Sound(s), Tidy(s), Roomy(s), NEW d \in Draft, NEW now \in Nat,
         NEW r, r = Submit(s, d, now), r.nextSequence <= MaxSubmits, ~r.panicked
  PROVE  /\ Closed(r) = Closed(s) \cup ((Live(s) \cup Joined(s, r)) \ Live(r))
         /\ Roomy(DrainClosed(r))
         /\ Joined(s, r) = {} => Roomy(r)
<1>1. /\ LeavesTidy(s, Joined(s, r), r) /\ r.limits = s.limits
      /\ r.nextSequence \in {s.nextSequence, s.nextSequence + 1}
      /\ Live(r) \subseteq Live(s) \cup Joined(s, r)
  BY SubmitLeaves
<1>2. Sound(r) /\ s.nextSequence \in Nat
  BY SubmitSound DEF Sound, IsState
<1>3. CASE r.nextSequence = s.nextSequence
  <2>1. Joined(s, r) = {}
    BY <1>3 DEF Joined
  <2>2. Tends(s, r)
    BY <1>1, <1>3, <2>1 DEF Tends
  <2> QED BY <1>2, <2>1, <2>2, TendsRoomy
<1>4. CASE r.nextSequence = s.nextSequence + 1
  <2>1. PICK id : id = s.nextSequence
    OBVIOUS
  <2>2. Joined(s, r) = {id} /\ id \in Ids
    <3>1. id \in Nat /\ id + 1 <= MaxSubmits /\ r.nextSequence # s.nextSequence
      BY <1>2, <1>4, <2>1
    <3> QED BY <2>1, <3>1, SchedulerConstants DEF Joined, Ids
  <2>3. Live(r) # {} /\ HasRoom(r, Live(r))
    <3>1. PICK p : p = PrepareTime(s, now)
      OBVIOUS
    <3>2. PICK i : i = IF d.key = None THEN None ELSE p.liveKeys[d.key]
      OBVIOUS
    <3>3. /\ Sound(p) /\ Tidy(p) /\ p.nextSequence = s.nextSequence
      BY <3>1, PreparedLeaves DEF Tended
    <3>4. r = IF i = None THEN Insert(p, d, now)
              ELSE IF p.entries[i].draft = d THEN p ELSE Replace(p, i, d, now)
      BY <3>1, <3>2 DEF Submit
    <3>5. ASSUME i # None PROVE FALSE
      <4>1. i \in Live(p) /\ d.key = p.entries[i].draft.key
        BY <3>2, <3>3, <3>5 DEF Sound, KeysIndexed, Draft
      <4>2. CASE r = p
        BY <1>2, <1>4, <3>3, <4>2
      <4>3. CASE r = Replace(p, i, d, now)
        <5>1. SameFrame(p, r)
          BY <3>3, <4>1, <4>3, ReplaceSound
        <5> QED BY <1>2, <1>4, <3>3, <5>1 DEF SameFrame
      <4> QED BY <3>4, <3>5, <4>2, <4>3
    <3>6. r = Insert(p, d, now) /\ (d.key # None => p.liveKeys[d.key] = None)
      BY <3>2, <3>4, <3>5
    <3> QED BY <3>3, <3>6, InsertHasRoom
  <2>4. PICK S, R : S = Closed(s) \cup Live(s) /\ R = Records(s, {id}, r)
    OBVIOUS
  <2>5. /\ S \subseteq Ids /\ id \notin S /\ Closed(s) \cap Live(s) = {}
        /\ HasRoom(s, S)
    <3>1. Closed(s) \subseteq Ids /\ Live(s) \subseteq Ids /\ Closed(s) \cap Live(s) = {}
      BY MembersAreIds DEF Sound, Scheduled
    <3>2. \A i \in Live(s) \cup Closed(s) : i \in Nat /\ i < id
      BY <2>1, <3>1, IdsFinite DEF Sound, Numbered
    <3> QED BY <1>2, <2>1, <2>4, <3>1, <3>2 DEF Roomy
  <2>6. R \subseteq S \cup {id} /\ R \cap Live(r) = {} /\ Live(r) \subseteq S \cup {id}
    BY <1>1, <2>2, <2>4, <2>5 DEF Records
  <2>7. Cardinality(R) < Cardinality(S \cup {id}) /\ Cardinality(R) \in Nat
    <3>1. PICK x \in Live(r) : x \in (S \cup {id}) \ R
      BY <2>3, <2>6
    <3>2. S \cup {id} \subseteq Ids
      BY <2>2, <2>5
    <3> QED BY <2>6, <3>1, <3>2, IdsFinite, PartCounts
  <2>8. Cardinality(S \cup {id}) = Cardinality(S) + 1 /\ Cardinality(S) \in Nat
    <3>1. IsFiniteSet(S)
      BY <2>5, IdsFinite, CountIsNat
    <3> QED BY <2>5, <3>1, FS_AddElement, FS_CardinalityType
  <2>9. HasRoom(s, R)
    <3>1. ClosedCapacity(s.limits) \in Nat
      BY DEF Sound, IsState, SchedulerLimits, ClosedCapacity
    <3> QED BY <2>5, <2>7, <2>8, <3>1 DEF HasRoom
  <2>10. Closed(r) = Closed(s) \cup ((Live(s) \cup {id}) \ Live(r))
    BY <1>1, <2>2, <2>4, <2>9 DEF LeavesTidy, RecordsWith, Records
  <2> QED BY <1>2, <2>2, <2>3, <2>10, DrainRoom
<1> QED BY <1>1, <1>3, <1>4

\* update_limits to other limits leaves room, where the `.expect` holds.
LEMMA UpdateLimitsHasRoom ==
  ASSUME NEW s, Sound(s), Tidy(s), NEW limits \in SchedulerLimits, NEW now \in Nat,
         limits # s.limits, NEW r, r = UpdateLimits(s, limits, now), ~r.panicked
  PROVE  HasRoom(r, Live(r))
<1>1. PICK p : p = PrepareTime(s, now)
  OBVIOUS
<1>2. PICK deferred : deferred = Deferred(p, limits)
  OBVIOUS
<1>3. PICK resized : resized = Resized(p, limits, deferred, now)
  OBVIOUS
<1>4. PICK full : full = EnforcePendingLimit(Rebalance(SortPending(resized), now))
  OBVIOUS
<1>5. PICK kept : kept = LastOf(full.closed, Closed(full), ClosedCapacity(limits))
  OBVIOUS
<1>6. PICK cut : cut = Trimmed(full, kept)
  OBVIOUS
<1>7. Sound(p) /\ Tidy(p) /\ p.limits = s.limits
  BY <1>1, PreparedLeaves DEF Tended
<1>8. r = IF full.panicked THEN full ELSE BumpContentRevision(cut)
  BY <1>1, <1>2, <1>3, <1>4, <1>5, <1>6, <1>7 DEF UpdateLimits, Resized, Trimmed
<1>9. Sound(resized)
  <2>1. deferred \subseteq Toasts(p)
    BY <1>2 DEF Deferred
  <2> QED BY <1>3, <1>7, <2>1, ResizedSound
<1>10. Lined(resized) /\ WithinScreen(resized)
  BY <1>2, <1>3, <1>7, ResizedLined DEF Tidy
<1>11. Sound(full)
  BY <1>4, <1>9, SortSettles
<1>12. Sound(cut) /\ Live(cut) = Live(full) /\ cut.limits = full.limits
       /\ cut.panicked = full.panicked
  <2>1. kept \subseteq Closed(full)
    BY <1>5 DEF LastOf
  <2>2. Sound(cut) /\ Live(cut) = Live(full)
    BY <1>6, <1>11, <2>1, TrimSound DEF Trimmed
  <2>3. cut.limits = full.limits /\ cut.panicked = full.panicked
    BY <1>6, <1>11 DEF Trimmed, Sound, IsState, Fields
  <2> QED BY <2>2, <2>3
<1>13. PICK bumped : bumped = BumpContentRevision(cut)
  OBVIOUS
<1>14. /\ Live(bumped) = Live(cut) /\ bumped.limits = cut.limits
       /\ bumped.panicked = cut.panicked
  BY <1>12, <1>13, BumpRoom
<1>15. ~full.panicked /\ r = bumped
  BY <1>8, <1>12, <1>13, <1>14
<1>16. HasRoom(full, Live(full))
  BY <1>4, <1>9, <1>10, <1>15, SettledHasRoom
<1> QED BY <1>12, <1>14, <1>15, <1>16 DEF HasRoom
=============================================================================
