--------------------------- MODULE HistoryProofs ---------------------------
(***************************************************************************)
(* Proofs about HistoryStore, for any daemons, readers, servers, limits    *)
(* and bounds: what the rows say of living Notifications, what stays as it *)
(* is, and which rows retention takes.  The second half is about           *)
(* HistoryViewer, for any keys, rows, readers, channels and failures: that *)
(* the list agrees with the database but for the edits under way, and that *)
(* a key does what the user was shown.                                     *)
(***************************************************************************)
EXTENDS HistoryViewer, FiniteSetTheorems, SequenceTheorems, TLAPS

-----------------------------------------------------------------------------
(* Commands and queues.                                                    *)

Snapshot == [op : {"persist"}, id : Ids, state : States \ {"interrupted"}]
Hiding   == [op : {"hide"}, id : Ids, hidden : BOOLEAN]
Jumping  == [op : {"jumped"}, id : Ids]
Listing  == [op : {"list"}, hidden : BOOLEAN, all : BOOLEAN]
Choosing == [op : {"clear", "count"}, filter : Filters, all : BOOLEAN]

LEMMA CommandForms ==
  /\ Command = Snapshot \cup Hiding \cup Jumping \cup Listing \cup Choosing
  /\ \A c \in Command : c.op \in {"persist", "hide", "jumped", "list", "clear", "count"}
  /\ \A c \in Command : c.op = "persist" => c \in Snapshot
  /\ \A c \in Command : c.op = "hide" => c \in Hiding
  /\ \A c \in Command : c.op \in {"clear", "count"} => c \in Choosing
  /\ \A c \in Choosing : [c EXCEPT !.op = "clear"] \in Choosing
<1>1. Command = Snapshot \cup Hiding \cup Jumping \cup Listing \cup Choosing
  BY DEF Command, Snapshot, Hiding, Jumping, Listing, Choosing
<1>2. /\ \A c \in Snapshot : c.op = "persist"
      /\ \A c \in Hiding : c.op = "hide"
      /\ \A c \in Jumping : c.op = "jumped"
      /\ \A c \in Listing : c.op = "list"
      /\ \A c \in Choosing : c.op \in {"clear", "count"}
  BY DEF Snapshot, Hiding, Jumping, Listing, Choosing
<1>3. \A c \in Choosing : [c EXCEPT !.op = "clear"] \in Choosing
  BY DEF Choosing
<1> QED BY <1>1, <1>2, <1>3

\* The worker takes the front of its queue.
LEMMA TailOk ==
  ASSUME NEW S, NEW q \in Seq(S), q # <<>>
  PROVE  /\ Tail(q) \in Seq(S) /\ Head(q) \in S /\ Head(q) = q[1]
         /\ Len(q) \in Nat \ {0} /\ Len(Tail(q)) = Len(q) - 1
         /\ DOMAIN q = 1 .. Len(q) /\ DOMAIN Tail(q) = 1 .. Len(q) - 1
         /\ \A n \in DOMAIN Tail(q) : n + 1 \in DOMAIN q /\ Tail(q)[n] = q[n + 1]
         /\ Tail(q) # q
OBVIOUS

\* A command is put behind the others.
LEMMA AppendOk ==
  ASSUME NEW S, NEW q \in Seq(S), NEW c \in S
  PROVE  /\ Append(q, c) \in Seq(S)
         /\ Len(q) \in Nat /\ Len(Append(q, c)) = Len(q) + 1
         /\ DOMAIN q = 1 .. Len(q) /\ DOMAIN Append(q, c) = 1 .. Len(q) + 1
         /\ \A n \in DOMAIN q : Append(q, c)[n] = q[n]
         /\ Append(q, c)[Len(q) + 1] = c
OBVIOUS

LEMMA EmptyOk ==
  ASSUME NEW S
  PROVE  <<>> \in Seq(S) /\ Len(<<>>) = 0 /\ DOMAIN <<>> = {}
OBVIOUS

LEMMA SingleOk ==
  ASSUME NEW S, NEW c \in S
  PROVE  <<c>> \in Seq(S) /\ Len(<<c>>) = 1 /\ DOMAIN <<c>> = {1} /\ <<c>>[1] = c
OBVIOUS

-----------------------------------------------------------------------------
(* The handles.                                                            *)

ReaderOps == {"hide", "jumped", "list", "count", "clear"}

HandleOk(h) ==
  /\ handle[h] = [pc |-> handle[h].pc, queue |-> handle[h].queue,
                  tries |-> handle[h].tries, answer |-> handle[h].answer]
  /\ handle[h].pc \in {"closed", "migrate", "recover", "retain", "open"}
  /\ handle[h].queue \in Seq(Command) /\ Len(handle[h].queue) <= QueueCapacity
  /\ handle[h].tries \in 0 .. MaxAttempts - 1
  /\ IsAnswer(handle[h].answer)
  /\ handle[h].pc # "open" => handle[h].queue = <<>>
  /\ h \in Readers =>
       /\ handle[h].pc # "recover"
       /\ \A n \in DOMAIN handle[h].queue : handle[h].queue[n].op \in ReaderOps
  /\ h \in Daemons =>
       \A n \in DOMAIN handle[h].queue : handle[h].queue[n].op = "persist"

HandlesOk == DOMAIN handle = Handles /\ \A h \in Handles : HandleOk(h)

\* What a handle is at.
LEMMA JobOk ==
  ASSUME HandlesOk, NEW h \in Handles
  PROVE  /\ ~At(h, "open") => Job(h) = [op |-> handle[h].pc] /\ Job(h).op = handle[h].pc
         /\ At(h, "open") /\ handle[h].queue = <<>> => Job(h).op = "none"
         /\ At(h, "open") /\ handle[h].queue # <<>> =>
              /\ Job(h) = Head(handle[h].queue) /\ Job(h) = handle[h].queue[1]
              /\ Job(h) \in Command
              /\ h \in Readers => Job(h).op \in ReaderOps
              /\ h \in Daemons => Job(h).op = "persist"
<1>1. At(h, "open") /\ handle[h].queue # <<>> =>
        /\ Job(h) = Head(handle[h].queue) /\ Head(handle[h].queue) = handle[h].queue[1]
        /\ Head(handle[h].queue) \in Command /\ 1 \in DOMAIN handle[h].queue
  BY TailOk DEF HandlesOk, HandleOk, Job, At
<1>2. At(h, "open") /\ handle[h].queue = <<>> => Job(h).op = "none"
  BY DEF Job, At
<1>3. ~At(h, "open") => Job(h) = [op |-> handle[h].pc] /\ Job(h).op = handle[h].pc
  BY DEF Job, At
<1> QED BY <1>1, <1>2, <1>3 DEF HandlesOk, HandleOk

\* A job that ends: a step of open leads to the next one, a command is off the
\* queue.
LEMMA DoneOk ==
  ASSUME HandlesOk, NEW h \in Handles, NEW ok \in BOOLEAN, NEW value,
         Job(h).op \in Writes \cup {"list", "count"}, Done(h, ok, value)
  PROVE  /\ HandlesOk'
         /\ \A g \in Handles \ {h} : handle'[g] = handle[g]
         /\ handle'[h] # handle[h]
         /\ At(h, "open") =>
              /\ handle[h].queue # <<>>
              /\ handle'[h].pc = "open" /\ handle'[h].queue = Tail(handle[h].queue)
         /\ ~At(h, "open") =>
              /\ handle'[h].queue = <<>>
              /\ handle[h].pc \in {"migrate", "recover", "retain"}
              /\ handle'[h].pc = AfterJob(h, ok)
<1> USE DEF HandlesOk
<1>1. CASE At(h, "open")
  <2> DEFINE a == IF h \in Daemons THEN None
                  ELSE [asked |-> Job(h), ok |-> ok, value |-> value]
  <2>1. handle[h].queue # <<>> /\ Job(h) \in Command
    BY <1>1, JobOk DEF Writes
  <2>2. handle' = [handle EXCEPT ![h] =
          [pc |-> "open", queue |-> Tail(handle[h].queue), tries |-> 0, answer |-> a]]
    BY <1>1 DEF Done
  <2>3. handle'[h] = [pc |-> "open", queue |-> Tail(handle[h].queue), tries |-> 0,
                      answer |-> a]
    BY <2>2
  <2>4. IsAnswer(a)
    BY <2>1 DEF IsAnswer
  <2> HIDE DEF a
  <2>5. DOMAIN handle' = Handles /\ \A g \in Handles \ {h} : handle'[g] = handle[g]
    BY <2>2
  <2>6. /\ handle[h].queue \in Seq(Command) /\ Len(handle[h].queue) <= QueueCapacity
        /\ h \in Readers => \A n \in DOMAIN handle[h].queue : handle[h].queue[n].op \in ReaderOps
        /\ h \in Daemons => \A n \in DOMAIN handle[h].queue : handle[h].queue[n].op = "persist"
    BY DEF HandleOk
  <2>7. 0 \in 0 .. MaxAttempts - 1 /\ QueueCapacity \in Nat
    BY HistoryConstants
  <2>8. /\ Tail(handle[h].queue) \in Seq(Command)
        /\ Len(Tail(handle[h].queue)) <= QueueCapacity
        /\ h \in Readers => \A n \in DOMAIN Tail(handle[h].queue) :
                              Tail(handle[h].queue)[n].op \in ReaderOps
        /\ h \in Daemons => \A n \in DOMAIN Tail(handle[h].queue) :
                              Tail(handle[h].queue)[n].op = "persist"
        /\ Tail(handle[h].queue) # handle[h].queue
    <3> PICK q : q = handle[h].queue
      OBVIOUS
    <3>1. q \in Seq(Command) /\ q # <<>>
      BY <2>1, <2>6
    <3>2. /\ Tail(q) \in Seq(Command) /\ Tail(q) # q
          /\ Len(q) \in Nat \ {0} /\ Len(Tail(q)) = Len(q) - 1
          /\ \A n \in DOMAIN Tail(q) : n + 1 \in DOMAIN q /\ Tail(q)[n] = q[n + 1]
      BY <3>1, TailOk
    <3> QED BY <2>6, <2>7, <3>2
  <2>9. HandleOk(h)'
    BY <2>3, <2>4, <2>7, <2>8 DEF HandleOk
  <2>10. \A g \in Handles \ {h} : HandleOk(g)'
    BY <2>5 DEF HandleOk
  <2> QED BY <1>1, <2>1, <2>3, <2>5, <2>8, <2>9, <2>10
<1>2. CASE ~At(h, "open")
  <2>1. handle[h].pc \in {"migrate", "recover", "retain"}
    BY <1>2, JobOk DEF Writes, HandleOk
  <2>2. handle' = [handle EXCEPT ![h] =
          [pc |-> AfterJob(h, ok), queue |-> handle[h].queue, tries |-> 0,
           answer |-> handle[h].answer]]
    BY <1>2 DEF Done
  <2>3. handle'[h] = [pc |-> AfterJob(h, ok), queue |-> <<>>, tries |-> 0,
                      answer |-> handle[h].answer]
    BY <1>2, <2>2 DEF HandleOk, At
  <2>4. /\ AfterJob(h, ok) \in {"closed", "recover", "retain", "open"}
        /\ AfterJob(h, ok) # handle[h].pc
        /\ h \in Readers => AfterJob(h, ok) # "recover"
    <3>1. h \in Readers => h \notin Daemons
      BY HistoryConstants
    <3> QED BY <2>1, <3>1 DEF AfterJob, AfterMigration, At
  <2>5. 0 \in 0 .. MaxAttempts - 1 /\ QueueCapacity \in Nat
    BY HistoryConstants
  <2>6. <<>> \in Seq(Command) /\ Len(<<>>) = 0 /\ DOMAIN <<>> = {}
    BY EmptyOk
  <2>7. HandleOk(h)'
    <3>1. IsAnswer(handle[h].answer)
      BY DEF HandleOk
    <3> QED BY <2>3, <2>4, <2>5, <2>6, <3>1 DEF HandleOk
  <2>8. DOMAIN handle' = Handles /\ \A g \in Handles \ {h} : handle'[g] = handle[g]
    BY <2>2
  <2>9. \A g \in Handles \ {h} : HandleOk(g)'
    BY <2>8 DEF HandleOk
  <2> QED BY <1>2, <2>1, <2>3, <2>4, <2>7, <2>8, <2>9 DEF At
<1> QED BY <1>1, <1>2

-----------------------------------------------------------------------------
(* The invariant.                                                          *)

\* How far a Notification has come.
Rank(state) == IF state = "pending" THEN 0 ELSE IF state = "visible" THEN 1 ELSE 2

Numbered == \E n \in 0 .. MaxIds : DOMAIN known = 0 .. n - 1

DataOk ==
  /\ version \in {0, 1}
  /\ DOMAIN rows \subseteq Ids /\ rows \in [DOMAIN rows -> Row]
  /\ known \in [DOMAIN known -> Fact]
  /\ Numbered
  /\ spent \in [crashes : 0 .. MaxCrashes, questions : 0 .. MaxQuestions]

\* The snapshots that wait are of living Notifications of their daemon, and of
\* one Notification each is behind those of its earlier states.
QueueOk(d) ==
  /\ \A n \in DOMAIN handle[d].queue :
       /\ handle[d].queue[n].id \in DOMAIN known
       /\ known[handle[d].queue[n].id].by = d
       /\ ~known[handle[d].queue[n].id].past
       /\ Rank(handle[d].queue[n].state) <= Rank(known[handle[d].queue[n].id].state)
  /\ \A m, n \in DOMAIN handle[d].queue :
       m < n /\ handle[d].queue[m].id = handle[d].queue[n].id
         => Rank(handle[d].queue[m].state) < Rank(handle[d].queue[n].state)
  /\ ~At(d, "open") => \A i \in DOMAIN known : known[i].by = d => known[i].past

\* A row is behind what still waits for it, and interrupted only after the end
\* of its daemon.
RowOk(i) ==
  /\ i \in DOMAIN known
  /\ rows[i].server = ServerOf[known[i].by]
  /\ rows[i].state = "interrupted" => known[i].past
  /\ rows[i].state # "interrupted" =>
       /\ Rank(rows[i].state) <= Rank(known[i].state)
       /\ \A n \in Waiting(i) :
            Rank(rows[i].state) < Rank(handle[known[i].by].queue[n].state)

\* The last snapshot that waits is of the present state, if none was lost.
LatestWaits(i) ==
  ~known[i].lost /\ Waiting(i) # {} =>
    \E n \in Waiting(i) : handle[known[i].by].queue[n].state = known[i].state

IInv ==
  /\ HandlesOk
  /\ DataOk
  /\ \A d \in Daemons : QueueOk(d)
  /\ \A i \in DOMAIN rows : RowOk(i)
  /\ \A i \in DOMAIN known : LatestWaits(i)
  /\ RowIsCurrent
  /\ NoStaleLive

-----------------------------------------------------------------------------
(* A step that leaves the daemons' Notifications and queues alone, and of  *)
(* the rows, takes some, interrupts some that were left live, and changes  *)
(* nothing else but marks.                                                 *)

Edited ==
  /\ known' = known
  /\ \A d \in Daemons : handle'[d].queue = handle[d].queue
  /\ \A d \in Daemons :
       \/ handle'[d].pc = handle[d].pc
       \/ /\ handle[d].pc # "open"
          /\ handle'[d].pc \in {"retain", "open"} =>
               \/ handle[d].pc = "retain"
               \/ \A i \in DOMAIN rows' :
                    rows'[i].server = ServerOf[d] => ~IsLive(rows'[i])
  /\ DOMAIN rows' \subseteq DOMAIN rows
  /\ \A i \in DOMAIN rows' :
       /\ rows'[i].server = rows[i].server
       /\ \/ rows'[i].state = rows[i].state
          \/ IsLive(rows[i]) /\ known[i].past /\ rows'[i].state = "interrupted"

LEMMA EditedStep ==
  ASSUME IInv, HandlesOk', DataOk', Edited
  PROVE  IInv'
<1>1. \A i \in DOMAIN known : known[i].by \in Daemons /\ known[i] \in Fact
  BY DEF IInv, DataOk, Fact
<1>2. \A i \in DOMAIN known : Waiting(i)' = Waiting(i)
  BY <1>1 DEF Edited, Waiting
<1>3. ASSUME NEW d \in Daemons
      PROVE  QueueOk(d)'
  <2>1. QueueOk(d) /\ handle'[d].queue = handle[d].queue /\ known' = known
    BY DEF IInv, Edited
  <2>2. ~At(d, "open")' => ~At(d, "open")
    BY DEF Edited, At
  <2> QED BY <2>1, <2>2 DEF QueueOk
<1>4. ASSUME NEW i \in DOMAIN rows'
      PROVE  RowOk(i)'
  <2>1. i \in DOMAIN rows /\ RowOk(i)
    BY DEF IInv, Edited
  <2>2. i \in DOMAIN known /\ Waiting(i)' = Waiting(i)
        /\ handle'[known[i].by].queue = handle[known[i].by].queue
    BY <1>1, <1>2, <2>1 DEF RowOk, Edited
  <2>3. /\ rows'[i].server = rows[i].server
        /\ \/ rows'[i].state = rows[i].state
           \/ known[i].past /\ rows'[i].state = "interrupted"
    BY DEF Edited
  <2> QED BY <2>1, <2>2, <2>3 DEF RowOk, Edited
<1>5. ASSUME NEW i \in DOMAIN known'
      PROVE  LatestWaits(i)'
  <2>1. i \in DOMAIN known /\ LatestWaits(i) /\ Waiting(i)' = Waiting(i)
        /\ handle'[known[i].by].queue = handle[known[i].by].queue
    BY <1>1, <1>2 DEF IInv, Edited
  <2> QED BY <2>1 DEF LatestWaits, Edited
<1>6. RowIsCurrent'
  <2> SUFFICES ASSUME NEW i \in DOMAIN known \cap DOMAIN rows',
                      ~known[i].lost, ~known[i].past \/ known[i].state = "closed",
                      known[i].past \/ Waiting(i) = {}
               PROVE  rows'[i].state = known[i].state
    BY <1>2 DEF RowIsCurrent, Edited
  <2>1. i \in DOMAIN rows /\ rows[i].state = known[i].state
    BY DEF IInv, RowIsCurrent, Edited
  <2>2. IsLive(rows[i]) => known[i].state # "closed"
    BY <2>1 DEF IsLive, LiveStates
  <2> QED BY <2>1, <2>2 DEF Edited
<1>7. NoStaleLive'
  <2> SUFFICES ASSUME NEW d \in Daemons, NEW i \in DOMAIN rows',
                      handle'[d].pc \in {"retain", "open"},
                      rows'[i].server = ServerOf[d], IsLive(rows'[i])
               PROVE  known[i].by = d /\ ~known[i].past
    BY DEF NoStaleLive, Edited, IsLive
  <2>1. handle[d].pc \in {"retain", "open"}
    BY DEF Edited
  <2>2. rows[i].server = ServerOf[d] /\ IsLive(rows[i]) /\ i \in DOMAIN rows
    BY DEF Edited, IsLive, LiveStates
  <2> QED BY <2>1, <2>2 DEF IInv, NoStaleLive
<1> QED BY <1>3, <1>4, <1>5, <1>6, <1>7 DEF IInv

-----------------------------------------------------------------------------
(* What the statements do to a table.                                      *)

IsTable(t) == DOMAIN t \subseteq Ids /\ t \in [DOMAIN t -> Row]

LEMMA RestrictOk ==
  ASSUME NEW t, IsTable(t), NEW S \in SUBSET DOMAIN t
  PROVE  /\ IsTable(Restrict(t, S))
         /\ DOMAIN Restrict(t, S) = S
         /\ \A i \in S : Restrict(t, S)[i] = t[i]
BY DEF IsTable, Restrict

LEMMA HiddenOk ==
  ASSUME NEW t, IsTable(t), NEW c \in Hiding
  PROVE  /\ IsTable(Hidden(t, c))
         /\ DOMAIN Hidden(t, c) = DOMAIN t
         /\ \A i \in DOMAIN t :
              /\ Hidden(t, c)[i].server = t[i].server
              /\ Hidden(t, c)[i].state = t[i].state
              /\ Hidden(t, c)[i].hidden = IF i = c.id THEN c.hidden ELSE t[i].hidden
<1>1. ASSUME NEW i \in DOMAIN t
      PROVE  /\ Hidden(t, c)[i] \in Row
             /\ Hidden(t, c)[i].server = t[i].server
             /\ Hidden(t, c)[i].state = t[i].state
             /\ Hidden(t, c)[i].hidden = IF i = c.id THEN c.hidden ELSE t[i].hidden
  <2>1. t[i] \in Row
    BY DEF IsTable
  <2>2. Hidden(t, c)[i] = IF i = c.id THEN [t[i] EXCEPT !.hidden = c.hidden] ELSE t[i]
    BY DEF Hidden
  <2>3. c.hidden \in BOOLEAN
    BY DEF Hiding
  <2> QED BY <2>1, <2>2, <2>3 DEF Row
<1>2. DOMAIN Hidden(t, c) = DOMAIN t
      /\ Hidden(t, c) = [i \in DOMAIN t |-> Hidden(t, c)[i]]
  BY DEF Hidden
<1> QED BY <1>1, <1>2 DEF IsTable

LEMMA JumpedOk ==
  ASSUME NEW t, IsTable(t), NEW c
  PROVE  /\ IsTable(Jumped(t, c))
         /\ DOMAIN Jumped(t, c) = DOMAIN t
         /\ \A i \in DOMAIN t :
              /\ Jumped(t, c)[i].server = t[i].server
              /\ Jumped(t, c)[i].state = t[i].state
              /\ Jumped(t, c)[i].hidden = t[i].hidden
<1>1. ASSUME NEW i \in DOMAIN t
      PROVE  /\ Jumped(t, c)[i] \in Row
             /\ Jumped(t, c)[i].server = t[i].server
             /\ Jumped(t, c)[i].state = t[i].state
             /\ Jumped(t, c)[i].hidden = t[i].hidden
  <2>1. t[i] \in Row
    BY DEF IsTable
  <2>2. Jumped(t, c)[i] = IF i = c.id THEN [t[i] EXCEPT !.jumped = TRUE] ELSE t[i]
    BY DEF Jumped
  <2> QED BY <2>1, <2>2 DEF Row
<1>2. DOMAIN Jumped(t, c) = DOMAIN t
      /\ Jumped(t, c) = [i \in DOMAIN t |-> Jumped(t, c)[i]]
  BY DEF Jumped
<1> QED BY <1>1, <1>2 DEF IsTable

\* Recovery closes the live rows of its server, and no other.
LEMMA RecoveredOk ==
  ASSUME NEW t, IsTable(t), NEW h
  PROVE  /\ IsTable(Recovered(t, h))
         /\ DOMAIN Recovered(t, h) = DOMAIN t
         /\ \A i \in DOMAIN t :
              /\ Recovered(t, h)[i].server = t[i].server
              /\ Recovered(t, h)[i].hidden = t[i].hidden
              /\ Recovered(t, h)[i].state =
                   IF IsLive(t[i]) /\ t[i].server = ServerOf[h] THEN "interrupted"
                   ELSE t[i].state
<1>1. ASSUME NEW i \in DOMAIN t
      PROVE  /\ Recovered(t, h)[i] \in Row
             /\ Recovered(t, h)[i].server = t[i].server
             /\ Recovered(t, h)[i].hidden = t[i].hidden
             /\ Recovered(t, h)[i].state =
                  IF IsLive(t[i]) /\ t[i].server = ServerOf[h] THEN "interrupted"
                  ELSE t[i].state
  <2>1. t[i] \in Row
    BY DEF IsTable
  <2>2. Recovered(t, h)[i] = IF IsLive(t[i]) /\ t[i].server = ServerOf[h]
                             THEN [t[i] EXCEPT !.state = "interrupted"] ELSE t[i]
    BY DEF Recovered
  <2> QED BY <2>1, <2>2 DEF Row, States
<1>2. DOMAIN Recovered(t, h) = DOMAIN t
      /\ Recovered(t, h) = [i \in DOMAIN t |-> Recovered(t, h)[i]]
  BY DEF Recovered
<1> QED BY <1>1, <1>2 DEF IsTable

\* A row that is written keeps the marks it has, and the others stay.
LEMMA UpsertedOk ==
  ASSUME NEW t, IsTable(t), NEW h \in Handles, NEW c \in Snapshot
  PROVE  /\ IsTable(Upserted(t, h, c))
         /\ DOMAIN Upserted(t, h, c) = DOMAIN t \cup {c.id}
         /\ Upserted(t, h, c)[c.id].server = ServerOf[h]
         /\ Upserted(t, h, c)[c.id].state = c.state
         /\ c.id \in DOMAIN t => Upserted(t, h, c)[c.id].hidden = t[c.id].hidden
         /\ \A i \in DOMAIN t : i # c.id => Upserted(t, h, c)[i] = t[i]
<1> DEFINE old == c.id \in DOMAIN t
           new == [server |-> ServerOf[h], state |-> c.state,
                   hidden |-> old /\ t[c.id].hidden, jumped |-> old /\ t[c.id].jumped]
<1>1. Upserted(t, h, c) = [i \in DOMAIN t \cup {c.id} |-> IF i = c.id THEN new ELSE t[i]]
  BY DEF Upserted, With
<1>2. c.id \in Ids /\ c.state \in States
  BY DEF Snapshot, States
<1>3. old => t[c.id] \in Row
  BY DEF IsTable
<1>4. new \in Row
  <2>1. (old /\ t[c.id].hidden) \in BOOLEAN /\ (old /\ t[c.id].jumped) \in BOOLEAN
    OBVIOUS
  <2> QED BY <1>2, <2>1 DEF Row
<1>5. new.server = ServerOf[h] /\ new.state = c.state /\ (old => new.hidden = t[c.id].hidden)
  <2>1. old => t[c.id].hidden \in BOOLEAN
    BY <1>3 DEF Row
  <2> QED BY <2>1
<1> HIDE DEF new
<1> QED BY <1>1, <1>2, <1>4, <1>5 DEF IsTable

-----------------------------------------------------------------------------
(* Retention.                                                              *)

LEMMA IdsAreFinite == IsFiniteSet(Ids) /\ Ids \subseteq Nat
<1>1. 0 \in Int /\ MaxIds - 1 \in Int
  BY HistoryConstants
<1> QED BY <1>1, FS_Interval DEF Ids

\* The order of retention is total.
LEMMA GoesBeforeOrders ==
  ASSUME NEW t, IsTable(t)
  PROVE  /\ \A i \in DOMAIN t : ~GoesBefore(t, i, i)
         /\ \A i, j \in DOMAIN t : i # j => GoesBefore(t, i, j) \/ GoesBefore(t, j, i)
         /\ \A h, i, j \in DOMAIN t :
              GoesBefore(t, h, i) /\ GoesBefore(t, i, j) => GoesBefore(t, h, j)
<1>1. \A i \in DOMAIN t : i \in Nat /\ t[i].hidden \in BOOLEAN
  BY IdsAreFinite DEF IsTable, Row
<1> QED BY <1>1 DEF GoesBefore

\* What is taken goes before what is left; and if anything is taken, as many
\* rows are left as there may be.
LEMMA RetainedOk ==
  ASSUME NEW t, IsTable(t), NEW limit \in Nat \ {0}
  PROVE  /\ DOMAIN Retained(t, limit) \subseteq DOMAIN t
         /\ IsTable(Retained(t, limit))
         /\ \A i \in DOMAIN Retained(t, limit) : Retained(t, limit)[i] = t[i]
         /\ Cardinality(DOMAIN Retained(t, limit)) <= limit
         /\ \A i \in DOMAIN t \ DOMAIN Retained(t, limit),
               j \in DOMAIN Retained(t, limit) : GoesBefore(t, i, j)
         /\ DOMAIN t # DOMAIN Retained(t, limit) =>
              Cardinality(DOMAIN Retained(t, limit)) = limit
<1> DEFINE S == DOMAIN t
           behind(i) == {j \in S : GoesBefore(t, i, j)}
           f == [i \in S |-> Cardinality(behind(i))]
           K == {i \in S : f[i] < limit}
           n == Cardinality(S)
           T == 0 .. n - 1
           L == 0 .. limit - 1
<1>1. IsFiniteSet(S) /\ n \in Nat
  <2>1. S \in SUBSET Ids
    BY DEF IsTable
  <2>2. IsFiniteSet(S)
    BY <2>1, IdsAreFinite, FS_Subset
  <2> QED BY <2>2, FS_CardinalityType
<1>2. ASSUME NEW i \in S
      PROVE  IsFiniteSet(behind(i)) /\ f[i] = Cardinality(behind(i)) /\ f[i] \in T
  <2>1. behind(i) \in SUBSET S /\ i \notin behind(i)
    BY GoesBeforeOrders
  <2>2. /\ IsFiniteSet(behind(i)) /\ Cardinality(behind(i)) <= n
        /\ n = Cardinality(behind(i)) => S = behind(i)
    BY <1>1, <2>1, FS_Subset
  <2>3. Cardinality(behind(i)) \in Nat
    BY <2>2, FS_CardinalityType
  <2> HIDE DEF behind
  <2> QED BY <1>1, <2>1, <2>2, <2>3
<1>2a. \A i \in S : f[i] \in Nat
  <2> HIDE DEF f, behind
  <2> QED BY <1>1, <1>2
<1>3. ASSUME NEW i \in S, NEW j \in S, GoesBefore(t, i, j)
      PROVE  f[j] < f[i]
  <2>1. behind(j) \in SUBSET behind(i) /\ j \in behind(i) /\ j \notin behind(j)
    BY <1>3, GoesBeforeOrders
  <2>2. f[i] \in Nat /\ f[j] \in Nat /\ f[i] = Cardinality(behind(i))
        /\ f[j] = Cardinality(behind(j)) /\ IsFiniteSet(behind(i))
    <3> HIDE DEF behind, f
    <3> QED BY <1>2, <1>2a
  <2> HIDE DEF behind, f
  <2>3. /\ Cardinality(behind(j)) <= Cardinality(behind(i))
        /\ Cardinality(behind(i)) = Cardinality(behind(j)) => behind(i) = behind(j)
    BY <2>1, <2>2, FS_Subset
  <2> QED BY <2>1, <2>2, <2>3
<1>4. f \in Bijection(S, T)
  <2>1. f \in [S -> T]
    <3> HIDE DEF behind, T
    <3> QED BY <1>2
  <2>2. ASSUME NEW i \in S, NEW j \in S, f[i] = f[j]
        PROVE  i = j
    <3> HIDE DEF f, behind
    <3> QED BY <2>2, <1>2a, <1>3, GoesBeforeOrders
  <2>3. IsFiniteSet(T) /\ Cardinality(T) = n
    <3>1. 0 \in Int /\ n - 1 \in Int
      BY <1>1
    <3>2. IsFiniteSet(T) /\ Cardinality(T) = IF 0 > n - 1 THEN 0 ELSE n - 1 - 0 + 1
      BY <3>1, FS_Interval
    <3> QED BY <3>2, <1>1
  <2> HIDE DEF f, T
  <2>4. f \in Injection(S, T)
    BY <2>1, <2>2 DEF Injection, IsInjective
  <2>5. f \in Surjection(S, T)
    BY <2>3, <2>4, FS_Injection
  <2> QED BY <2>4, <2>5 DEF Bijection
<1>5. Retained(t, limit) = Restrict(t, K)
  BY DEF Retained
<1>6. K \in SUBSET S
  OBVIOUS
<1>7. /\ DOMAIN Retained(t, limit) = K /\ IsTable(Retained(t, limit))
      /\ \A i \in K : Retained(t, limit)[i] = t[i]
  <2> HIDE DEF K
  <2> QED BY <1>5, <1>6, RestrictOk
<1>8. ASSUME NEW i \in S \ K, NEW j \in K
      PROVE  GoesBefore(t, i, j)
  <2>1. i # j /\ i \in S /\ j \in S
    OBVIOUS
  <2>2. f[i] >= limit /\ f[j] < limit /\ f[i] \in Nat /\ f[j] \in Nat
    <3> HIDE DEF f, behind
    <3> QED BY <1>2a
  <2> HIDE DEF f, K
  <2> QED BY <2>1, <2>2, <1>3, GoesBeforeOrders
<1> DEFINE g == [i \in K |-> f[i]]
<1>9. IsFiniteSet(L) /\ Cardinality(L) = limit
  <2>1. 0 \in Int /\ limit - 1 \in Int
    OBVIOUS
  <2>2. IsFiniteSet(L) /\ Cardinality(L) = IF 0 > limit - 1 THEN 0 ELSE limit - 1 - 0 + 1
    BY <2>1, FS_Interval
  <2> QED BY <2>2
<1>10. g \in Injection(K, L)
  <2>1. \A i \in K : f[i] \in L
    <3> SUFFICES ASSUME NEW i \in K PROVE f[i] \in L
      OBVIOUS
    <3> HIDE DEF f, behind
    <3> QED BY <1>2a
  <2>2. \A i, j \in S : f[i] = f[j] => i = j
    BY <1>4 DEF Bijection, Injection, IsInjective
  <2> HIDE DEF f, L
  <2> QED BY <2>1, <2>2, <1>6 DEF Injection, IsInjective
<1>11. Cardinality(K) <= limit
  <2> HIDE DEF g, K, L
  <2> QED BY <1>9, <1>10, FS_Injection
<1>12. ASSUME S # K
       PROVE  Cardinality(K) = limit
  <2>1. PICK i \in S : i \notin K
    BY <1>12
  <2>2. f[i] >= limit /\ f[i] \in T
    <3> HIDE DEF f, behind
    <3> QED BY <1>2, <1>2a, <2>1
  <2>3. L \subseteq T
    BY <1>1, <2>2
  <2>4. ASSUME NEW y \in L
        PROVE  \E j \in K : g[j] = y
    <3>1. y \in T /\ y < limit
      BY <2>3
    <3>2. PICK j \in S : f[j] = y
      <4> HIDE DEF f, T
      <4> QED BY <1>4, <3>1 DEF Bijection, Surjection
    <3>3. j \in K
      BY <3>1, <3>2
    <3> QED BY <3>2, <3>3
  <2>5. g \in Surjection(K, L)
    <3> HIDE DEF g, K, L
    <3> QED BY <2>4, <1>10 DEF Surjection, Injection
  <2> HIDE DEF g, K, L
  <2> QED BY <1>9, <1>10, <2>5, FS_Injection
<1> QED BY <1>7, <1>8, <1>11, <1>12

-----------------------------------------------------------------------------
(* The first state.                                                        *)

LEMMA InitOk == Init => IInv
<1> SUFFICES ASSUME Init PROVE IInv
  OBVIOUS
<1>1. \A h \in Handles : handle[h] = Closed
  BY DEF Init
<1>2. HandlesOk
  <2>1. <<>> \in Seq(Command) /\ Len(<<>>) = 0 /\ DOMAIN <<>> = {}
    BY EmptyOk
  <2>2. 0 \in 0 .. MaxAttempts - 1 /\ QueueCapacity \in Nat
    BY HistoryConstants
  <2>3. DOMAIN handle = Handles
    BY DEF Init
  <2>4. ASSUME NEW h \in Handles
        PROVE  HandleOk(h)
    <3>1. handle[h] = [pc |-> "closed", queue |-> <<>>, tries |-> 0, answer |-> None]
      BY <1>1 DEF Closed
    <3>2. /\ handle[h].pc = "closed" /\ handle[h].queue = <<>>
          /\ handle[h].tries = 0 /\ handle[h].answer = None
      BY <3>1
    <3>3. handle[h] = [pc |-> handle[h].pc, queue |-> handle[h].queue,
                       tries |-> handle[h].tries, answer |-> handle[h].answer]
      BY <3>1, <3>2
    <3> QED BY <2>1, <2>2, <3>2, <3>3 DEF HandleOk, IsAnswer
  <2> QED BY <2>3, <2>4 DEF HandlesOk
<1>3. DOMAIN rows = {} /\ DOMAIN known = {} /\ version = 0
      /\ rows \in [DOMAIN rows -> Row] /\ known \in [DOMAIN known -> Fact]
  BY DEF Init
<1>4. DataOk
  <2>1. Numbered
    <3>1. 0 \in 0 .. MaxIds /\ 0 .. 0 - 1 = {}
      BY HistoryConstants
    <3> QED BY <1>3, <3>1 DEF Numbered
  <2>2. spent \in [crashes : 0 .. MaxCrashes, questions : 0 .. MaxQuestions]
    BY HistoryConstants DEF Init
  <2> QED BY <1>3, <2>1, <2>2 DEF DataOk
<1>5. \A d \in Daemons : QueueOk(d)
  <2>1. Daemons \subseteq Handles
    BY DEF Handles
  <2>2. \A d \in Daemons : DOMAIN handle[d].queue = {}
    BY <1>1, <2>1, EmptyOk DEF Closed
  <2> QED BY <1>3, <2>2 DEF QueueOk
<1>6. RowIsCurrent /\ NoStaleLive
  BY <1>3 DEF RowIsCurrent, NoStaleLive
<1> QED BY <1>2, <1>3, <1>4, <1>5, <1>6 DEF IInv

-----------------------------------------------------------------------------
(* The steps that only edit.                                               *)

LEMMA DaemonsAreHandles ==
  /\ Daemons \subseteq Handles /\ Readers \subseteq Handles
  /\ \A h \in Handles : h \in Daemons \/ h \in Readers
  /\ \A h \in Daemons : h \notin Readers
BY HistoryConstants DEF Handles

\* Who may be at which job.
LEMMA JobOfWhom ==
  ASSUME HandlesOk, NEW h \in Handles
  PROVE  /\ Job(h).op \in {"migrate", "recover", "retain", "closed"} =>
              ~At(h, "open") /\ handle[h].pc = Job(h).op /\ handle[h].queue = <<>>
         /\ Job(h).op = "recover" => h \in Daemons
         /\ Job(h).op \in ReaderOps => At(h, "open") /\ h \in Readers /\ Job(h) \in Command
         /\ Job(h).op = "persist" =>
              At(h, "open") /\ h \in Daemons /\ handle[h].queue # <<>>
                /\ Job(h) \in Snapshot /\ Job(h) = handle[h].queue[1]
<1>1. HandleOk(h)
  BY DEF HandlesOk
<1>2. h \in Daemons \/ h \in Readers
  BY DaemonsAreHandles
<1>3. Job(h).op \in {"migrate", "recover", "retain", "closed"} => ~At(h, "open")
  BY JobOk, <1>2, CommandForms DEF ReaderOps
<1>4. Job(h).op \in ReaderOps \cup {"persist"} => At(h, "open") /\ handle[h].queue # <<>>
  BY JobOk, <1>1 DEF ReaderOps, HandleOk
<1> QED BY JobOk, <1>1, <1>2, <1>3, <1>4, CommandForms, DaemonsAreHandles
        DEF HandleOk, ReaderOps, At

\* What becomes of the table when the job is no snapshot.
LEMMA OutcomesOk ==
  ASSUME HandlesOk, DataOk, NEW h \in Handles, Writing(h), Job(h).op # "persist",
         NEW t \in Outcomes(h)
  PROVE  /\ IsTable(t) /\ DOMAIN t \subseteq DOMAIN rows
         /\ Job(h).op \notin {"retain", "clear"} => DOMAIN t = DOMAIN rows
         /\ Job(h).op = "retain" => t = Retained(rows, LimitOf[h])
         /\ \A i \in DOMAIN t :
              /\ t[i].server = rows[i].server
              /\ t[i].state = IF /\ Job(h).op = "recover" /\ IsLive(rows[i])
                                 /\ rows[i].server = ServerOf[h]
                              THEN "interrupted" ELSE rows[i].state
              /\ t[i].hidden = IF Job(h).op = "hide" /\ i = Job(h).id
                               THEN Job(h).hidden ELSE rows[i].hidden
<1>1. IsTable(rows)
  BY DEF DataOk, IsTable
<1>2. Job(h).op \in {"migrate", "recover", "retain", "hide", "jumped", "clear"}
  BY DEF Writing, Writes
<1>3. CASE Job(h).op = "migrate"
  <2>1. t = rows
    BY <1>3 DEF Outcomes
  <2> QED BY <1>1, <1>3, <2>1
<1>4. CASE Job(h).op = "recover"
  <2>1. t = Recovered(rows, h)
    BY <1>4 DEF Outcomes
  <2> QED BY <1>1, <1>4, <2>1, RecoveredOk
<1>5. CASE Job(h).op = "retain"
  <2>1. t = Retained(rows, LimitOf[h])
    BY <1>5 DEF Outcomes
  <2>2. LimitOf[h] \in Nat \ {0}
    BY HistoryConstants
  <2> QED BY <1>1, <1>5, <2>1, <2>2, RetainedOk
<1>6. CASE Job(h).op = "hide"
  <2>1. t = Hidden(rows, Job(h))
    BY <1>6 DEF Outcomes
  <2>2. Job(h) \in Hiding
    BY <1>6, JobOfWhom, CommandForms DEF ReaderOps
  <2>3. /\ IsTable(t) /\ DOMAIN t = DOMAIN rows
        /\ \A i \in DOMAIN t :
             /\ t[i].server = rows[i].server /\ t[i].state = rows[i].state
             /\ t[i].hidden = IF i = Job(h).id THEN Job(h).hidden ELSE rows[i].hidden
    <3> PICK c \in Hiding : c = Job(h)
      BY <2>2
    <3>1. /\ IsTable(Hidden(rows, c)) /\ DOMAIN Hidden(rows, c) = DOMAIN rows
          /\ \A i \in DOMAIN rows :
               /\ Hidden(rows, c)[i].server = rows[i].server
               /\ Hidden(rows, c)[i].state = rows[i].state
               /\ Hidden(rows, c)[i].hidden = IF i = c.id THEN c.hidden ELSE rows[i].hidden
      BY <1>1, HiddenOk
    <3> QED BY <2>1, <3>1
  <2> QED BY <1>6, <2>3
<1>7. CASE Job(h).op = "jumped"
  <2>1. t = Jumped(rows, Job(h))
    BY <1>7 DEF Outcomes
  <2> QED BY <1>1, <1>7, <2>1, JumpedOk
<1>8. CASE Job(h).op = "clear"
  <2>1. PICK gone : t = Restrict(rows, DOMAIN rows \ gone)
    BY <1>8 DEF Outcomes
  <2> QED BY <1>1, <1>8, <2>1, RestrictOk
<1> QED BY <1>2, <1>3, <1>4, <1>5, <1>6, <1>7, <1>8

\* A reader that asks.
LEMMA AskOk ==
  ASSUME HandlesOk, NEW r \in Readers, NEW c \in Command, c.op \in ReaderOps, Ask(r, c)
  PROVE  /\ HandlesOk' /\ \A g \in Handles \ {r} : handle'[g] = handle[g]
         /\ handle'[r].pc = "open" /\ handle'[r].queue = <<c>> /\ handle'[r].answer = None
<1>0. HandleOk(r) /\ DOMAIN handle = Handles /\ r \in Handles /\ r \notin Daemons
  BY DaemonsAreHandles DEF HandlesOk
<1>1. handle' = [handle EXCEPT ![r].queue = <<c>>, ![r].answer = None]
      /\ handle[r].pc = "open"
  BY DEF Ask, At
<1>2. handle'[r] = [pc |-> handle[r].pc, queue |-> <<c>>, tries |-> handle[r].tries,
                    answer |-> None]
  BY <1>0, <1>1 DEF HandleOk
<1>3. DOMAIN handle' = Handles /\ \A g \in Handles \ {r} : handle'[g] = handle[g]
  BY <1>0, <1>1
<1>4. <<c>> \in Seq(Command) /\ Len(<<c>>) = 1 /\ DOMAIN <<c>> = {1} /\ <<c>>[1] = c
  BY SingleOk
<1>5. 1 <= QueueCapacity
  BY HistoryConstants
<1>6. /\ handle'[r].pc = "open" /\ handle'[r].queue = <<c>>
      /\ handle'[r].tries = handle[r].tries /\ handle'[r].answer = None
  <2> PICK q : q = <<c>>
    OBVIOUS
  <2>1. handle'[r] = [pc |-> handle[r].pc, queue |-> q, tries |-> handle[r].tries,
                      answer |-> None]
    BY <1>2
  <2>2. handle[r].pc = "open"
    BY <1>1
  <2> QED BY <2>1, <2>2
<1>7. HandleOk(r)'
  <2>1. handle'[r] = [pc |-> handle'[r].pc, queue |-> handle'[r].queue,
                      tries |-> handle'[r].tries, answer |-> handle'[r].answer]
    BY <1>1, <1>2, <1>6
  <2> QED BY <1>0, <1>4, <1>5, <1>6, <2>1 DEF HandleOk, IsAnswer
<1>8. \A g \in Handles \ {r} : HandleOk(g)'
  BY <1>0, <1>3 DEF HandlesOk, HandleOk
<1> QED BY <1>3, <1>6, <1>7, <1>8 DEF HandlesOk

\* The end of a job that is no snapshot.
LEMMA CommitEdits ==
  ASSUME IInv, NEW h \in Handles, Commit(h), Job(h).op # "persist"
  PROVE  HandlesOk' /\ DataOk' /\ Edited
<1>1. HandlesOk /\ DataOk
  BY DEF IInv
<1>2. Writing(h) /\ Done(h, TRUE, None) /\ known' = known /\ spent' = spent
  BY DEF Commit, Settled
<1>3. Job(h).op \in Writes \cup {"list", "count"}
  BY <1>2 DEF Writing
<1>4. /\ HandlesOk'
      /\ \A g \in Handles \ {h} : handle'[g] = handle[g]
      /\ ~At(h, "open") =>
           /\ handle'[h].queue = <<>>
           /\ handle[h].pc \in {"migrate", "recover", "retain"}
           /\ handle'[h].pc = AfterJob(h, TRUE)
  BY <1>1, <1>2, <1>3, DoneOk
<1>5. /\ IsTable(rows') /\ DOMAIN rows' \subseteq DOMAIN rows
      /\ \A i \in DOMAIN rows' :
           /\ rows'[i].server = rows[i].server
           /\ rows'[i].state = IF /\ Job(h).op = "recover" /\ IsLive(rows[i])
                                  /\ rows[i].server = ServerOf[h]
                               THEN "interrupted" ELSE rows[i].state
  <2>1. rows' \in Outcomes(h)
    BY DEF Commit
  <2> QED BY <1>1, <1>2, <2>1, OutcomesOk
<1>6. DataOk'
  <2>1. version' \in {0, 1}
    BY <1>1 DEF Commit, DataOk
  <2>2. Numbered'
    BY <1>1, <1>2 DEF DataOk, Numbered
  <2> QED BY <1>1, <1>2, <1>5, <2>1, <2>2 DEF DataOk, IsTable
<1>7. h \in Daemons => ~At(h, "open") /\ handle[h].queue = <<>>
  BY <1>1, <1>2, JobOfWhom, DaemonsAreHandles DEF Writing, Writes, ReaderOps
<1>8. ASSUME NEW d \in Daemons
      PROVE  /\ handle'[d].queue = handle[d].queue
             /\ \/ handle'[d].pc = handle[d].pc
                \/ /\ handle[d].pc # "open"
                   /\ handle'[d].pc \in {"retain", "open"} =>
                        \/ handle[d].pc = "retain"
                        \/ \A i \in DOMAIN rows' :
                             rows'[i].server = ServerOf[d] => ~IsLive(rows'[i])
  <2>1. CASE d # h
    BY <1>4, <2>1, DaemonsAreHandles
  <2>2. CASE d = h
    <3>1. /\ ~At(h, "open") /\ handle[h].queue = <<>> /\ handle'[h].queue = <<>>
          /\ handle[h].pc \in {"migrate", "recover", "retain"}
          /\ handle'[h].pc = AfterJob(h, TRUE)
      BY <1>4, <1>7, <2>2
    <3>2. CASE handle[h].pc = "migrate"
      BY <2>2, <3>1, <3>2 DEF AfterJob, AfterMigration
    <3>3. CASE handle[h].pc = "recover"
      <4>1. Job(h).op = "recover"
        BY <1>1, <3>1, <3>3, JobOk
      <4>2. ASSUME NEW i \in DOMAIN rows', rows'[i].server = ServerOf[d]
            PROVE  ~IsLive(rows'[i])
        BY <1>5, <2>2, <4>1, <4>2 DEF IsLive, LiveStates
      <4> QED BY <2>2, <3>1, <3>3, <4>2 DEF At
    <3>4. CASE handle[h].pc = "retain"
      BY <2>2, <3>1, <3>4
    <3> QED BY <3>1, <3>2, <3>3, <3>4
  <2> QED BY <2>1, <2>2
<1>9. ASSUME NEW i \in DOMAIN rows'
      PROVE  \/ rows'[i].state = rows[i].state
             \/ IsLive(rows[i]) /\ known[i].past /\ rows'[i].state = "interrupted"
  <2> SUFFICES ASSUME Job(h).op = "recover", IsLive(rows[i]), rows[i].server = ServerOf[h]
               PROVE  known[i].past
    BY <1>5
  <2>1. h \in Daemons /\ ~At(h, "open") /\ QueueOk(h)
    BY <1>1, <1>7, JobOfWhom DEF IInv
  <2>2. i \in DOMAIN known /\ rows[i].server = ServerOf[known[i].by]
    BY <1>5 DEF IInv, RowOk
  <2>3. known[i].by \in Daemons
    BY <1>1, <2>2 DEF DataOk, Fact
  <2>4. known[i].by = h
    BY <2>1, <2>2, <2>3, HistoryConstants
  <2> QED BY <2>1, <2>2, <2>4 DEF QueueOk
<1> QED BY <1>2, <1>4, <1>5, <1>6, <1>8, <1>9 DEF Edited

\* A job that is no snapshot and is given up.
LEMMA FailureEdits ==
  ASSUME IInv, NEW h \in Handles, Writing(h), Job(h).op # "persist",
         Done(h, FALSE, None), Settled(h, FALSE), UNCHANGED <<version, rows, spent>>
  PROVE  HandlesOk' /\ DataOk' /\ Edited
<1>1. HandlesOk /\ DataOk
  BY DEF IInv
<1>2. known' = known
  BY DEF Settled
<1>3. Job(h).op \in Writes \cup {"list", "count"}
  BY DEF Writing
<1>4. /\ HandlesOk'
      /\ \A g \in Handles \ {h} : handle'[g] = handle[g]
      /\ ~At(h, "open") => handle'[h].queue = <<>> /\ handle'[h].pc = AfterJob(h, FALSE)
  BY <1>1, <1>3, DoneOk
<1>5. h \in Daemons => ~At(h, "open") /\ handle[h].queue = <<>>
  BY <1>1, JobOfWhom, DaemonsAreHandles DEF Writing, Writes, ReaderOps
<1>6. DataOk'
  BY <1>1, <1>2 DEF DataOk, Numbered
<1>7. ASSUME NEW d \in Daemons
      PROVE  /\ handle'[d].queue = handle[d].queue
             /\ \/ handle'[d].pc = handle[d].pc
                \/ handle[d].pc # "open" /\ handle'[d].pc \notin {"retain", "open"}
  <2>1. CASE d # h
    BY <1>4, <2>1, DaemonsAreHandles
  <2>2. CASE d = h
    BY <1>4, <1>5, <2>2 DEF At, AfterJob
  <2> QED BY <2>1, <2>2
<1> QED BY <1>2, <1>4, <1>6, <1>7 DEF Edited

\* A worker that waits for the lock.
LEMMA RetryEdits ==
  ASSUME IInv, NEW h \in Handles, handle[h].tries + 1 < MaxAttempts,
         handle' = [handle EXCEPT ![h].tries = @ + 1],
         UNCHANGED <<version, rows, known, spent>>
  PROVE  HandlesOk' /\ DataOk' /\ Edited
<1>1. HandlesOk /\ DataOk
  BY DEF IInv
<1>2. HandleOk(h) /\ DOMAIN handle = Handles
  BY <1>1 DEF HandlesOk
<1>3. handle'[h] = [pc |-> handle[h].pc, queue |-> handle[h].queue,
                    tries |-> handle[h].tries + 1, answer |-> handle[h].answer]
  BY <1>2 DEF HandleOk
<1>4. DOMAIN handle' = Handles /\ \A g \in Handles \ {h} : handle'[g] = handle[g]
  BY <1>2
<1>5. handle[h].tries + 1 \in 0 .. MaxAttempts - 1
  BY <1>2, HistoryConstants DEF HandleOk
<1>6. /\ handle'[h].pc = handle[h].pc /\ handle'[h].queue = handle[h].queue
      /\ handle'[h].tries = handle[h].tries + 1 /\ handle'[h].answer = handle[h].answer
  BY <1>3
<1>7. HandleOk(h)'
  BY <1>2, <1>3, <1>5, <1>6 DEF HandleOk
<1>8. \A g \in Handles \ {h} : HandleOk(g)'
  BY <1>1, <1>4 DEF HandlesOk, HandleOk
<1>9. HandlesOk'
  BY <1>4, <1>7, <1>8 DEF HandlesOk
<1>10. DataOk'
  BY <1>1 DEF DataOk, Numbered
<1>11. \A d \in Daemons : handle'[d].queue = handle[d].queue /\ handle'[d].pc = handle[d].pc
  BY <1>4, <1>6, DaemonsAreHandles
<1> QED BY <1>9, <1>10, <1>11 DEF Edited

LEMMA ReadEdits ==
  ASSUME IInv, NEW h \in Handles, Read(h)
  PROVE  HandlesOk' /\ DataOk' /\ Edited
<1>1. HandlesOk /\ DataOk
  BY DEF IInv
<1>2. PICK value : Done(h, TRUE, value)
  BY DEF Read
<1>3. Job(h).op \in {"list", "count"}
  BY DEF Read
<1>4. HandlesOk' /\ \A g \in Handles \ {h} : handle'[g] = handle[g]
  BY <1>1, <1>2, <1>3, DoneOk
<1>5. h \notin Daemons
  BY <1>1, <1>3, JobOfWhom, DaemonsAreHandles DEF ReaderOps
<1>6. DataOk'
  BY <1>1 DEF DataOk, Numbered, Read
<1>7. \A d \in Daemons : handle'[d] = handle[d]
  BY <1>4, <1>5, DaemonsAreHandles
<1> QED BY <1>4, <1>6, <1>7 DEF Edited, Read

LEMMA OpenEdits ==
  ASSUME IInv, NEW h \in Handles, Open(h)
  PROVE  HandlesOk' /\ DataOk' /\ Edited
<1> DEFINE pc == IF version = 0 THEN "migrate" ELSE AfterMigration(h)
<1>1. HandlesOk /\ DataOk /\ HandleOk(h) /\ DOMAIN handle = Handles
  BY DEF IInv, HandlesOk
<1>2. /\ pc \in {"migrate", "recover", "retain"}
      /\ h \in Readers => pc # "recover"
      /\ h \in Daemons => pc # "retain"
  BY DaemonsAreHandles DEF AfterMigration
<1>3. handle' = [handle EXCEPT ![h].pc = pc] /\ handle[h].queue = <<>>
      /\ handle[h].pc = "closed"
  BY <1>1 DEF Open, HandleOk, At
<1> HIDE DEF pc
<1>4. handle'[h] = [pc |-> pc, queue |-> handle[h].queue,
                    tries |-> handle[h].tries, answer |-> handle[h].answer]
  BY <1>1, <1>3 DEF HandleOk
<1>5. DOMAIN handle' = Handles /\ \A g \in Handles \ {h} : handle'[g] = handle[g]
  BY <1>1, <1>3
<1>6. /\ handle'[h].pc = pc /\ handle'[h].queue = handle[h].queue
      /\ handle'[h].tries = handle[h].tries /\ handle'[h].answer = handle[h].answer
  BY <1>4
<1>7. HandleOk(h)'
  BY <1>1, <1>2, <1>3, <1>4, <1>6 DEF HandleOk
<1>8. \A g \in Handles \ {h} : HandleOk(g)'
  BY <1>1, <1>5 DEF HandlesOk, HandleOk
<1>9. HandlesOk'
  BY <1>5, <1>7, <1>8 DEF HandlesOk
<1>10. DataOk'
  BY <1>1 DEF DataOk, Numbered, Open
<1>11. \A d \in Daemons :
         /\ handle'[d].queue = handle[d].queue
         /\ \/ handle'[d].pc = handle[d].pc
            \/ handle[d].pc # "open" /\ handle'[d].pc \notin {"retain", "open"}
  BY <1>2, <1>3, <1>5, <1>6, DaemonsAreHandles
<1> QED BY <1>9, <1>10, <1>11 DEF Edited, Open

\* A reader that asks or leaves.
LEMMA ReaderEdits ==
  ASSUME IInv, NEW r \in Readers, Reader(r)
  PROVE  HandlesOk' /\ DataOk' /\ Edited
<1>1. HandlesOk /\ DataOk /\ HandleOk(r) /\ DOMAIN handle = Handles /\ r \in Handles
      /\ r \notin Daemons
  BY DaemonsAreHandles DEF IInv, HandlesOk
<1>2. ASSUME NEW c \in Command, c.op \in ReaderOps, Ask(r, c)
      PROVE  HandlesOk' /\ \A g \in Handles \ {r} : handle'[g] = handle[g]
  BY <1>1, <1>2, AskOk
<1>3. ASSUME NEW c \in Command, c.op \in ReaderOps, AskOnce(r, c)
      PROVE  HandlesOk' /\ DataOk' /\ Edited
  <2>1. HandlesOk' /\ \A g \in Handles \ {r} : handle'[g] = handle[g]
    BY <1>2, <1>3 DEF AskOnce
  <2>2. spent' \in [crashes : 0 .. MaxCrashes, questions : 0 .. MaxQuestions]
    <3>1. spent \in [crashes : 0 .. MaxCrashes, questions : 0 .. MaxQuestions]
      BY <1>1 DEF DataOk
    <3>2. spent.questions + 1 \in 0 .. MaxQuestions
      BY <1>3, <3>1, HistoryConstants DEF AskOnce
    <3> QED BY <1>3, <3>1, <3>2 DEF AskOnce
  <2>3. UNCHANGED <<version, rows, known>>
    BY <1>3 DEF AskOnce, Ask
  <2>4. DataOk'
    BY <1>1, <2>2, <2>3 DEF DataOk, Numbered
  <2>5. \A d \in Daemons : handle'[d] = handle[d]
    BY <1>1, <2>1, DaemonsAreHandles
  <2> QED BY <2>1, <2>3, <2>4, <2>5 DEF Edited
<1>4. CASE Mutate(r)
  <2>0. PICK i \in DOMAIN rows, hidden \in BOOLEAN :
          \E c \in {[op |-> "hide", id |-> i, hidden |-> hidden], [op |-> "jumped", id |-> i]} :
            AskOnce(r, c)
    BY <1>4 DEF Mutate
  <2>1. PICK c \in {[op |-> "hide", id |-> i, hidden |-> hidden], [op |-> "jumped", id |-> i]} :
          AskOnce(r, c)
    BY <2>0
  <2>2. i \in Ids
    BY <1>1 DEF DataOk
  <2>3. c \in Command /\ c.op \in ReaderOps
    <3>1. CASE c = [op |-> "hide", id |-> i, hidden |-> hidden]
      <4>1. c \in Hiding
        BY <2>2, <3>1 DEF Hiding
      <4> QED BY <3>1, <4>1, CommandForms DEF ReaderOps
    <3>2. CASE c = [op |-> "jumped", id |-> i]
      <4>1. c \in Jumping
        BY <2>2, <3>2 DEF Jumping
      <4> QED BY <3>2, <4>1, CommandForms DEF ReaderOps
    <3> QED BY <3>1, <3>2
  <2> QED BY <1>3, <2>1, <2>3
<1>5. CASE List(r)
  <2>1. PICK hidden \in BOOLEAN, all \in BOOLEAN :
          AskOnce(r, [op |-> "list", hidden |-> hidden, all |-> all])
    BY <1>5 DEF List
  <2>2. [op |-> "list", hidden |-> hidden, all |-> all] \in Listing
    BY DEF Listing
  <2> QED BY <1>3, <2>1, <2>2, CommandForms DEF ReaderOps
<1>6. CASE Count(r)
  <2>1. PICK filter \in Filters, all \in BOOLEAN :
          AskOnce(r, [op |-> "count", filter |-> filter, all |-> all])
    BY <1>6 DEF Count
  <2>2. [op |-> "count", filter |-> filter, all |-> all] \in Choosing
    BY DEF Choosing
  <2> QED BY <1>3, <2>1, <2>2, CommandForms DEF ReaderOps
<1>7. CASE Clear(r)
  <2> DEFINE c == [handle[r].answer.asked EXCEPT !.op = "clear"]
  <2>1. handle[r].answer.asked \in Choosing
    <3>1. handle[r].answer.asked \in Command /\ handle[r].answer.asked.op = "count"
      BY <1>1, <1>7 DEF Clear, HandleOk, IsAnswer
    <3> QED BY <3>1, CommandForms
  <2>2. c \in Choosing /\ c.op = "clear" /\ Ask(r, c)
    BY <1>7, <2>1, CommandForms DEF Clear, Choosing
  <2> HIDE DEF c
  <2>3. c \in Command /\ c.op \in ReaderOps
    BY <2>2, CommandForms DEF ReaderOps
  <2>4. HandlesOk' /\ \A g \in Handles \ {r} : handle'[g] = handle[g]
    BY <1>2, <2>2, <2>3
  <2>5. UNCHANGED <<version, rows, known, spent>>
    BY <1>7, <2>2 DEF Clear, Ask
  <2>6. DataOk'
    BY <1>1, <2>5 DEF DataOk, Numbered
  <2>7. \A d \in Daemons : handle'[d] = handle[d]
    BY <1>1, <2>4, DaemonsAreHandles
  <2> QED BY <2>4, <2>5, <2>6, <2>7 DEF Edited
<1>8. CASE Leave(r)
  <2>1. handle' = [handle EXCEPT ![r] = Closed] /\ UNCHANGED <<version, rows, known, spent>>
    BY <1>8 DEF Leave
  <2>2. /\ handle'[r] = [pc |-> "closed", queue |-> <<>>, tries |-> 0, answer |-> None]
        /\ DOMAIN handle' = Handles /\ \A g \in Handles \ {r} : handle'[g] = handle[g]
    BY <1>1, <2>1 DEF Closed
  <2>3. HandleOk(r)'
    <3>1. <<>> \in Seq(Command) /\ Len(<<>>) = 0 /\ DOMAIN <<>> = {}
      BY EmptyOk
    <3>2. 0 \in 0 .. MaxAttempts - 1 /\ QueueCapacity \in Nat
      BY HistoryConstants
    <3>3. /\ handle'[r].pc = "closed" /\ handle'[r].queue = <<>>
          /\ handle'[r].tries = 0 /\ handle'[r].answer = None
      BY <2>2
    <3>4. handle'[r] = [pc |-> handle'[r].pc, queue |-> handle'[r].queue,
                        tries |-> handle'[r].tries, answer |-> handle'[r].answer]
      BY <2>2, <3>3
    <3> QED BY <3>1, <3>2, <3>3, <3>4 DEF HandleOk, IsAnswer
  <2>4. \A g \in Handles \ {r} : HandleOk(g)'
    BY <1>1, <2>2 DEF HandlesOk, HandleOk
  <2>5. HandlesOk'
    BY <2>2, <2>3, <2>4 DEF HandlesOk
  <2>6. DataOk'
    BY <1>1, <2>1 DEF DataOk, Numbered
  <2>7. \A d \in Daemons : handle'[d] = handle[d]
    BY <1>1, <2>2, DaemonsAreHandles
  <2> QED BY <2>1, <2>5, <2>6, <2>7 DEF Edited
<1> QED BY <1>4, <1>5, <1>6, <1>7, <1>8 DEF Reader

-----------------------------------------------------------------------------
(* The end of a snapshot.                                                  *)

\* Rank tells the states of a Notification apart.
LEMMA RankOk ==
  \A s \in States : /\ Rank(s) \in Nat
                    /\ \A t \in States \ {"interrupted"} :
                         s # "interrupted" /\ Rank(s) = Rank(t) => s = t
BY DEF Rank, States, LiveStates

LEMMA SnapshotEnds ==
  ASSUME IInv, NEW h \in Handles, Job(h).op = "persist", NEW ok \in BOOLEAN,
         Done(h, ok, None), Settled(h, ok), UNCHANGED <<version, spent>>,
         ok => rows' = Retained(Upserted(rows, h, Job(h)), LimitOf[h]),
         ~ok => rows' = rows
  PROVE  IInv'
<1> PICK q : q = handle[h].queue
  OBVIOUS
<1> PICK c : c = q[1]
  OBVIOUS
<1>1. HandlesOk /\ DataOk /\ HandleOk(h)
  BY DEF IInv, HandlesOk
<1>2. /\ At(h, "open") /\ h \in Daemons /\ q # <<>> /\ c \in Snapshot /\ Job(h) = c
  BY <1>1, JobOfWhom
<1>3. /\ HandlesOk'
      /\ \A g \in Handles \ {h} : handle'[g] = handle[g]
      /\ handle'[h].pc = "open" /\ handle'[h].queue = Tail(q)
  BY <1>1, <1>2, DoneOk DEF Writes
<1>4. /\ q \in Seq(Command) /\ 1 \in DOMAIN q /\ DOMAIN q \subseteq Nat
      /\ DOMAIN Tail(q) \subseteq Nat
      /\ \A n \in DOMAIN Tail(q) : n + 1 \in DOMAIN q /\ n > 0 /\ Tail(q)[n] = q[n + 1]
      /\ \A n \in DOMAIN q : n # 1 => n - 1 \in DOMAIN Tail(q) /\ Tail(q)[n - 1] = q[n]
  <2>1. q \in Seq(Command)
    BY <1>1 DEF HandleOk
  <2>2. /\ Len(q) \in Nat \ {0} /\ DOMAIN q = 1 .. Len(q)
        /\ DOMAIN Tail(q) = 1 .. Len(q) - 1
        /\ \A n \in DOMAIN Tail(q) : n + 1 \in DOMAIN q /\ Tail(q)[n] = q[n + 1]
    BY <1>2, <2>1, TailOk
  <2>3. ASSUME NEW n \in DOMAIN q, n # 1
        PROVE  n - 1 \in DOMAIN Tail(q) /\ Tail(q)[n - 1] = q[n]
    <3>1. n - 1 \in DOMAIN Tail(q)
      BY <2>2, <2>3
    <3>2. Tail(q)[n - 1] = q[(n - 1) + 1] /\ (n - 1) + 1 = n
      BY <2>2, <3>1
    <3> QED BY <3>1, <3>2
  <2> QED BY <2>1, <2>2, <2>3
<1>5. ASSUME NEW n \in DOMAIN q
      PROVE  q[n] \in Snapshot /\ q[n].state \in States \ {"interrupted"}
  <2>1. q[n] \in Command /\ q[n].op = "persist"
    BY <1>1, <1>2, <1>4 DEF HandleOk
  <2>2. q[n] \in Snapshot
    BY <2>1, CommandForms
  <2> QED BY <2>2 DEF Snapshot
<1>6. /\ c.id \in DOMAIN known /\ known[c.id].by = h /\ ~known[c.id].past
      /\ Rank(c.state) <= Rank(known[c.id].state)
      /\ c.state \in States \ {"interrupted"}
  BY <1>2, <1>4, <1>5 DEF IInv, QueueOk
<1>7. known \in [DOMAIN known -> Fact]
  BY <1>1 DEF DataOk
<1>8. /\ DOMAIN known' = DOMAIN known
      /\ known' \in [DOMAIN known -> Fact]
      /\ \A i \in DOMAIN known \ {c.id} : known'[i] = known[i]
      /\ \A i \in DOMAIN known : /\ known'[i].by = known[i].by
                                 /\ known'[i].state = known[i].state
                                 /\ known'[i].past = known[i].past
      /\ ~known'[c.id].lost =>
           ok /\ (c.state = known[c.id].state \/ ~known[c.id].lost)
  <2> DEFINE lost == IF ~ok THEN TRUE
                     ELSE IF c.state = known[c.id].state THEN FALSE ELSE known[c.id].lost
  <2>1. known' = [known EXCEPT ![c.id].lost = lost]
    BY <1>2 DEF Settled
  <2>2. lost \in BOOLEAN /\ (~lost => ok /\ (c.state = known[c.id].state \/ ~known[c.id].lost))
    <3>1. known[c.id].lost \in BOOLEAN
      BY <1>6, <1>7 DEF Fact
    <3> QED BY <3>1
  <2> HIDE DEF lost
  <2>3. known[c.id] \in Fact
    BY <1>6, <1>7
  <2>4. known'[c.id] = [known[c.id] EXCEPT !.lost = lost]
    BY <1>6, <2>1
  <2>5. /\ known'[c.id] \in Fact /\ known'[c.id].by = known[c.id].by
        /\ known'[c.id].state = known[c.id].state
        /\ known'[c.id].past = known[c.id].past /\ known'[c.id].lost = lost
    BY <2>2, <2>3, <2>4 DEF Fact
  <2>6. /\ DOMAIN known' = DOMAIN known
        /\ \A i \in DOMAIN known \ {c.id} : known'[i] = known[i]
        /\ known' = [i \in DOMAIN known |-> known'[i]]
    BY <2>1
  <2> QED BY <1>6, <1>7, <2>2, <2>5, <2>6
<1>9. /\ IsTable(rows')
      /\ \A i \in DOMAIN rows' :
           \/ i \in DOMAIN rows /\ rows'[i] = rows[i] /\ (ok => i # c.id)
           \/ ok /\ i = c.id /\ rows'[i].server = ServerOf[h] /\ rows'[i].state = c.state
  <2>1. IsTable(rows)
    BY <1>1 DEF DataOk, IsTable
  <2>2. CASE ok
    <3>0. PICK u : u = Upserted(rows, h, c)
      OBVIOUS
    <3>1. /\ IsTable(u) /\ DOMAIN u = DOMAIN rows \cup {c.id}
          /\ u[c.id].server = ServerOf[h] /\ u[c.id].state = c.state
          /\ \A i \in DOMAIN rows : i # c.id => u[i] = rows[i]
      <4>1. c \in Snapshot /\ h \in Handles
        BY <1>2
      <4>2. /\ IsTable(Upserted(rows, h, c))
            /\ DOMAIN Upserted(rows, h, c) = DOMAIN rows \cup {c.id}
            /\ Upserted(rows, h, c)[c.id].server = ServerOf[h]
            /\ Upserted(rows, h, c)[c.id].state = c.state
            /\ \A i \in DOMAIN rows : i # c.id => Upserted(rows, h, c)[i] = rows[i]
        BY <2>1, <4>1, UpsertedOk
      <4> QED BY <3>0, <4>2
    <3>2. rows' = Retained(u, LimitOf[h])
      BY <1>2, <2>2, <3>0
    <3>3. LimitOf[h] \in Nat \ {0}
      BY HistoryConstants
    <3>4. /\ DOMAIN rows' \subseteq DOMAIN u /\ IsTable(rows')
          /\ \A i \in DOMAIN rows' : rows'[i] = u[i]
      BY <3>1, <3>2, <3>3, RetainedOk
    <3> QED BY <2>2, <3>1, <3>4
  <2>3. CASE ~ok
    BY <2>1, <2>3
  <2> QED BY <2>2, <2>3
<1>10. DataOk'
  BY <1>1, <1>8, <1>9 DEF DataOk, IsTable, Numbered
<1>11. \A i \in DOMAIN known : known[i].by \in Daemons /\ known[i].by \in Handles
  BY <1>7, DaemonsAreHandles DEF Fact
<1>12. /\ \A i \in DOMAIN known : known[i].by = h =>
            /\ Waiting(i) = {n \in DOMAIN q : q[n].id = i}
            /\ Waiting(i)' = {n \in DOMAIN Tail(q) : Tail(q)[n].id = i}
            /\ \A n \in Waiting(i)' : n + 1 \in Waiting(i) /\ Tail(q)[n] = q[n + 1]
            /\ \A n \in Waiting(i) : n # 1 => n - 1 \in Waiting(i)' /\ Tail(q)[n - 1] = q[n]
       /\ \A i \in DOMAIN known : known[i].by # h =>
            Waiting(i)' = Waiting(i) /\ handle'[known[i].by] = handle[known[i].by]
  <2>1. ASSUME NEW i \in DOMAIN known, known[i].by = h
        PROVE  /\ Waiting(i) = {n \in DOMAIN q : q[n].id = i}
               /\ Waiting(i)' = {n \in DOMAIN Tail(q) : Tail(q)[n].id = i}
    <3>1. known'[i].by = h
      BY <1>8, <2>1
    <3> QED BY <1>3, <2>1, <3>1 DEF Waiting
  <2>2. ASSUME NEW i \in DOMAIN known, known[i].by = h
        PROVE  /\ \A n \in Waiting(i)' : n + 1 \in Waiting(i) /\ Tail(q)[n] = q[n + 1]
               /\ \A n \in Waiting(i) : n # 1 =>
                    n - 1 \in Waiting(i)' /\ Tail(q)[n - 1] = q[n]
    <3> PICK w : w = Tail(q)
      OBVIOUS
    <3>1. /\ \A n \in DOMAIN w : n + 1 \in DOMAIN q /\ w[n] = q[n + 1]
          /\ \A n \in DOMAIN q : n # 1 => n - 1 \in DOMAIN w /\ w[n - 1] = q[n]
      BY <1>4
    <3>2. Waiting(i) = {n \in DOMAIN q : q[n].id = i}
          /\ Waiting(i)' = {n \in DOMAIN w : w[n].id = i}
      BY <2>1, <2>2
    <3>3. /\ \A n \in Waiting(i)' : n + 1 \in Waiting(i) /\ w[n] = q[n + 1]
          /\ \A n \in Waiting(i) : n # 1 => n - 1 \in Waiting(i)' /\ w[n - 1] = q[n]
      BY <3>1, <3>2
    <3> QED BY <3>3
  <2>3. ASSUME NEW i \in DOMAIN known, known[i].by # h
        PROVE  Waiting(i)' = Waiting(i) /\ handle'[known[i].by] = handle[known[i].by]
    <3>1. known'[i].by = known[i].by /\ handle'[known[i].by] = handle[known[i].by]
      BY <1>3, <1>8, <1>11, <2>3
    <3> QED BY <3>1 DEF Waiting
  <2> QED BY <2>1, <2>2, <2>3
<1>13. \A n \in Waiting(c.id)' : Rank(c.state) < Rank(q[n + 1].state)
  <2> SUFFICES ASSUME NEW n \in Waiting(c.id)'
               PROVE  Rank(q[1].state) < Rank(q[n + 1].state)
    OBVIOUS
  <2>1. n \in DOMAIN Tail(q) /\ q[n + 1].id = q[1].id
    BY <1>6, <1>12
  <2>2. 1 \in DOMAIN q /\ n + 1 \in DOMAIN q /\ 1 < n + 1
    BY <1>4, <2>1
  <2> QED BY <1>2, <2>1, <2>2 DEF IInv, QueueOk
<1>14. ASSUME NEW d \in Daemons
       PROVE  QueueOk(d)'
  <2>1. QueueOk(d)
    BY DEF IInv
  <2>2. CASE d # h
    <3>1. handle'[d] = handle[d]
      BY <1>3, <2>2, DaemonsAreHandles
    <3> QED BY <1>8, <2>1, <3>1 DEF QueueOk, At
  <2>3. CASE d = h
    <3>1. /\ \A n \in DOMAIN q :
               /\ q[n].id \in DOMAIN known /\ known[q[n].id].by = h
               /\ ~known[q[n].id].past /\ Rank(q[n].state) <= Rank(known[q[n].id].state)
          /\ \A m, n \in DOMAIN q :
               m < n /\ q[m].id = q[n].id => Rank(q[m].state) < Rank(q[n].state)
      BY <2>1, <2>3 DEF QueueOk
    <3>2. \A m, n \in DOMAIN Tail(q) :
            m < n /\ Tail(q)[m].id = Tail(q)[n].id
              => Rank(Tail(q)[m].state) < Rank(Tail(q)[n].state)
      <4> SUFFICES ASSUME NEW m \in DOMAIN Tail(q), NEW n \in DOMAIN Tail(q), m < n,
                          Tail(q)[m].id = Tail(q)[n].id
                   PROVE  Rank(Tail(q)[m].state) < Rank(Tail(q)[n].state)
        OBVIOUS
      <4>1. /\ m + 1 \in DOMAIN q /\ n + 1 \in DOMAIN q /\ m + 1 < n + 1
            /\ Tail(q)[m] = q[m + 1] /\ Tail(q)[n] = q[n + 1]
        BY SMTT(20), <1>4
      <4> QED BY <3>1, <4>1
    <3>3. \A n \in DOMAIN Tail(q) :
            /\ Tail(q)[n].id \in DOMAIN known' /\ known'[Tail(q)[n].id].by = h
            /\ ~known'[Tail(q)[n].id].past
            /\ Rank(Tail(q)[n].state) <= Rank(known'[Tail(q)[n].id].state)
      <4> SUFFICES ASSUME NEW n \in DOMAIN Tail(q), NEW x, x = Tail(q)[n]
                   PROVE  /\ x.id \in DOMAIN known' /\ known'[x.id].by = h
                          /\ ~known'[x.id].past
                          /\ Rank(x.state) <= Rank(known'[x.id].state)
        OBVIOUS
      <4>1. n + 1 \in DOMAIN q /\ x = q[n + 1]
        BY <1>4
      <4>2. /\ x.id \in DOMAIN known /\ known[x.id].by = h /\ ~known[x.id].past
            /\ Rank(x.state) <= Rank(known[x.id].state)
        BY <3>1, <4>1
      <4> QED BY <1>8, <4>2
    <3>4. handle'[h].queue = Tail(q) /\ At(h, "open")'
      BY <1>3 DEF At
    <3>5. QueueOk(h)'
      <4> PICK w : w = Tail(q)
        OBVIOUS
      <4>1. /\ \A m, n \in DOMAIN w :
                 m < n /\ w[m].id = w[n].id => Rank(w[m].state) < Rank(w[n].state)
            /\ \A n \in DOMAIN w :
                 /\ w[n].id \in DOMAIN known' /\ known'[w[n].id].by = h
                 /\ ~known'[w[n].id].past
                 /\ Rank(w[n].state) <= Rank(known'[w[n].id].state)
        BY <3>2, <3>3
      <4>2. handle'[h].queue = w /\ At(h, "open")'
        BY <3>4
      <4> QED BY <4>1, <4>2 DEF QueueOk
    <3> QED BY <2>3, <3>5
  <2> QED BY <2>2, <2>3
<1>15. ASSUME NEW i \in DOMAIN rows'
       PROVE  RowOk(i)'
  <2>1. CASE i \in DOMAIN rows /\ rows'[i] = rows[i] /\ (ok => i # c.id)
    <3>1. RowOk(i) /\ i \in DOMAIN known
      BY <2>1 DEF IInv, RowOk
    <3>2. CASE known[i].by # h
      BY <1>8, <1>11, <1>12, <2>1, <3>1, <3>2 DEF RowOk
    <3>3. CASE known[i].by = h
      <4>1. rows[i].state # "interrupted" =>
              \A n \in Waiting(i)' : Rank(rows[i].state) < Rank(Tail(q)[n].state)
        BY <1>12, <3>1, <3>3 DEF RowOk
      <4>2. known'[i].by = h /\ handle'[h].queue = Tail(q)
        BY <1>3, <1>8, <3>1, <3>3
      <4> QED BY <1>8, <2>1, <3>1, <4>1, <4>2 DEF RowOk
    <3> QED BY <3>2, <3>3
  <2>2. CASE ok /\ i = c.id /\ rows'[i].server = ServerOf[h] /\ rows'[i].state = c.state
    <3>1. /\ i \in DOMAIN known' /\ known'[i].by = h /\ known'[i].state = known[i].state
          /\ handle'[h].queue = Tail(q)
      BY <1>3, <1>6, <1>8, <2>2
    <3>2. \A n \in Waiting(i)' : Rank(c.state) < Rank(Tail(q)[n].state)
      BY <1>6, <1>12, <1>13, <2>2
    <3> QED BY <1>6, <2>2, <3>1, <3>2 DEF RowOk
  <2> QED BY <1>9, <2>1, <2>2
<1>16. ASSUME ~known'[c.id].lost
       PROVE  \/ c.state = known[c.id].state /\ Waiting(c.id)' = {}
              \/ \E n \in Waiting(c.id)' : Tail(q)[n].state = known[c.id].state
  <2>1. CASE c.state = known[c.id].state
    <3> SUFFICES ASSUME NEW n \in Waiting(c.id)' PROVE FALSE
      BY <2>1
    <3>1. n + 1 \in Waiting(c.id) /\ n + 1 \in DOMAIN q /\ q[n + 1].id = c.id
      BY <1>6, <1>12
    <3>2. Rank(q[n + 1].state) <= Rank(known[c.id].state)
      BY <1>2, <3>1 DEF IInv, QueueOk
    <3>3. Rank(c.state) < Rank(q[n + 1].state)
      BY <1>13
    <3>4. Rank(c.state) \in Nat /\ Rank(q[n + 1].state) \in Nat
      BY <1>5, <1>6, <3>1, RankOk
    <3> QED BY <2>1, <3>2, <3>3, <3>4
  <2>2. CASE c.state # known[c.id].state
    <3>1. ~known[c.id].lost
      BY <1>8, <1>16, <2>2
    <3>2. 1 \in Waiting(c.id)
      BY <1>4, <1>6, <1>12
    <3>3. PICK n \in Waiting(c.id) : q[n].state = known[c.id].state
      BY <1>6, <3>1, <3>2 DEF IInv, LatestWaits
    <3>4. n # 1
      BY <2>2, <3>3
    <3> QED BY <1>6, <1>12, <3>3, <3>4
  <2> QED BY <2>1, <2>2
<1>17. ASSUME NEW i \in DOMAIN known'
       PROVE  LatestWaits(i)'
  <2>1. i \in DOMAIN known /\ LatestWaits(i)
    BY <1>8 DEF IInv
  <2>2. CASE i = c.id
    <3>1. handle'[known'[i].by].queue = Tail(q) /\ known'[i].state = known[i].state
      BY <1>3, <1>6, <1>8, <2>2
    <3> QED BY <1>16, <2>2, <3>1 DEF LatestWaits
  <2>3. CASE i # c.id /\ known[i].by # h
    BY <1>8, <1>12, <2>1, <2>3 DEF LatestWaits
  <2>4. CASE i # c.id /\ known[i].by = h
    <3>1. known'[i] = known[i] /\ handle'[h].queue = Tail(q)
      BY <1>3, <1>8, <2>1, <2>4
    <3>2. 1 \notin Waiting(i)
      BY <1>12, <2>1, <2>4
    <3>3. ~known[i].lost /\ Waiting(i) # {} =>
            \E n \in Waiting(i)' : Tail(q)[n].state = known[i].state
      BY <1>12, <2>1, <2>4, <3>2 DEF LatestWaits
    <3>4. Waiting(i)' # {} => Waiting(i) # {}
      BY <1>12, <2>1, <2>4
    <3> QED BY <2>4, <3>1, <3>3, <3>4 DEF LatestWaits
  <2> QED BY <2>2, <2>3, <2>4
<1>18. RowIsCurrent'
  <2> SUFFICES ASSUME NEW i \in DOMAIN known', i \in DOMAIN rows', ~known'[i].lost,
                      ~known'[i].past \/ known'[i].state = "closed",
                      known'[i].past \/ Waiting(i)' = {}
               PROVE  rows'[i].state = known'[i].state
    BY DEF RowIsCurrent
  <2>1. i \in DOMAIN known
    BY <1>8
  <2>2. CASE i = c.id
    BY <1>6, <1>8, <1>9, <1>16, <2>2
  <2>3. CASE i # c.id
    <3>1. known'[i] = known[i] /\ i \in DOMAIN rows /\ rows'[i] = rows[i]
      BY <1>8, <1>9, <2>1, <2>3
    <3>2. Waiting(i)' = {} => Waiting(i) = {}
      <4>1. CASE known[i].by # h
        BY <1>12, <2>1, <4>1
      <4>2. CASE known[i].by = h
        <5>1. 1 \notin Waiting(i)
          BY <1>12, <2>1, <2>3, <4>2
        <5> QED BY <1>12, <2>1, <4>2, <5>1
      <4> QED BY <4>1, <4>2
    <3> QED BY <2>1, <3>1, <3>2 DEF IInv, RowIsCurrent
  <2> QED BY <2>2, <2>3
<1>19. NoStaleLive'
  <2> SUFFICES ASSUME NEW d \in Daemons, NEW i \in DOMAIN rows',
                      handle'[d].pc \in {"retain", "open"},
                      rows'[i].server = ServerOf[d], IsLive(rows'[i])
               PROVE  known'[i].by = d /\ ~known'[i].past
    BY DEF NoStaleLive, IsLive
  <2>1. handle[d].pc \in {"retain", "open"}
    BY <1>2, <1>3, DaemonsAreHandles DEF At
  <2>2. CASE i \in DOMAIN rows /\ rows'[i] = rows[i]
    <3>1. known[i].by = d /\ ~known[i].past /\ i \in DOMAIN known
      BY <2>1, <2>2 DEF IInv, NoStaleLive, RowOk, IsLive
    <3> QED BY <1>8, <3>1
  <2>3. CASE i = c.id /\ rows'[i].server = ServerOf[h]
    <3>1. d = h
      BY <1>2, <2>3, HistoryConstants
    <3> QED BY <1>6, <1>8, <2>3, <3>1
  <2> QED BY <1>9, <2>2, <2>3
<1> QED BY <1>3, <1>10, <1>14, <1>15, <1>17, <1>18, <1>19 DEF IInv

-----------------------------------------------------------------------------
(* A daemon that tells of a change.                                        *)

\* Notification i of daemon d becomes `fact`: it is new, or goes on from the
\* state it has.
LEMMA SubmitOk ==
  ASSUME IInv, NEW d \in Daemons, NEW i \in Ids, NEW fact \in Fact,
         At(d, "open"), fact.by = d, ~fact.past,
         \/ i \notin DOMAIN known
         \/ /\ i \in DOMAIN known
            /\ known[i].by = d /\ ~known[i].past
            /\ Rank(known[i].state) < Rank(fact.state),
         Numbered', Submit(d, i, fact), UNCHANGED <<version, rows, spent>>
  PROVE  IInv'
<1> PICK q : q = handle[d].queue
  OBVIOUS
<1> PICK c : c = [op |-> "persist", id |-> i, state |-> fact.state]
  OBVIOUS
<1>1. /\ HandlesOk /\ DataOk /\ HandleOk(d) /\ d \in Handles /\ DOMAIN handle = Handles
      /\ d \notin Readers
  BY DaemonsAreHandles DEF IInv, HandlesOk
<1>2. /\ c \in Snapshot /\ c \in Command /\ c.id = i /\ c.state = fact.state
      /\ c.op = "persist"
  <2>1. fact.state \in States \ {"interrupted"}
    BY DEF Fact, States, LiveStates
  <2>2. c \in Snapshot
    BY <2>1 DEF Snapshot
  <2> QED BY <2>2, CommandForms
<1>3. /\ DOMAIN known' = DOMAIN known \cup {i}
      /\ \A j \in DOMAIN known \ {i} : known'[j] = known[j]
      /\ known'[i] \in Fact /\ known'[i].by = d /\ known'[i].state = fact.state
      /\ ~known'[i].past
      /\ ~HasRoom(d) => known'[i].lost
      /\ known' = [j \in DOMAIN known' |-> known'[j]]
  <2>1. CASE HasRoom(d)
    <3>1. known' = [j \in DOMAIN known \cup {i} |-> IF j = i THEN fact ELSE known[j]]
      BY <2>1 DEF Submit, With
    <3> QED BY <2>1, <3>1
  <2>2. CASE ~HasRoom(d)
    <3> PICK x : x = [fact EXCEPT !.lost = TRUE]
      OBVIOUS
    <3>1. known' = [j \in DOMAIN known \cup {i} |-> IF j = i THEN x ELSE known[j]]
      BY <2>2 DEF Submit, With
    <3>2. /\ x \in Fact /\ x.by = fact.by /\ x.state = fact.state /\ x.past = fact.past
          /\ x.lost
      BY DEF Fact
    <3> QED BY <3>1, <3>2
  <2> QED BY <2>1, <2>2
<1>4. DataOk'
  <2>1. known \in [DOMAIN known -> Fact]
    BY <1>1 DEF DataOk
  <2>2. known' \in [DOMAIN known' -> Fact]
    BY <1>3, <2>1
  <2> QED BY <1>1, <2>2 DEF DataOk
<1>5. \A j \in DOMAIN known : known[j].by \in Daemons /\ known[j].by \in Handles
  BY <1>1, DaemonsAreHandles DEF DataOk, Fact
<1>6. /\ \A n \in DOMAIN q :
           /\ q[n].id \in DOMAIN known /\ known[q[n].id].by = d /\ ~known[q[n].id].past
           /\ Rank(q[n].state) <= Rank(known[q[n].id].state)
      /\ \A m, n \in DOMAIN q :
           m < n /\ q[m].id = q[n].id => Rank(q[m].state) < Rank(q[n].state)
      /\ \A n \in DOMAIN q : q[n].state \in States \ {"interrupted"}
  <2>1. QueueOk(d)
    BY DEF IInv
  <2>2. ASSUME NEW n \in DOMAIN q
        PROVE  q[n].state \in States \ {"interrupted"}
    <3>1. q[n] \in Command /\ q[n].op = "persist"
      BY <1>1 DEF HandleOk
    <3>2. q[n] \in Snapshot
      BY <3>1, CommandForms
    <3> QED BY <3>2 DEF Snapshot
  <2> QED BY <2>1, <2>2 DEF QueueOk
\* What was waiting for i is behind what i is now.
<1>7. \A n \in DOMAIN q : q[n].id = i => Rank(q[n].state) < Rank(fact.state)
  <2> SUFFICES ASSUME NEW n \in DOMAIN q, q[n].id = i
               PROVE  Rank(q[n].state) < Rank(fact.state)
    OBVIOUS
  <2>1. /\ i \in DOMAIN known /\ Rank(q[n].state) <= Rank(known[i].state)
        /\ Rank(known[i].state) < Rank(fact.state)
    BY <1>6
  <2>2. q[n].state \in States /\ fact.state \in States /\ known[i].state \in States
    BY <1>1, <1>6, <2>1 DEF DataOk, Fact, States
  <2> QED BY <2>1, <2>2, RankOk
<1>8. \A g \in Handles \ {d} : handle'[g] = handle[g]
  BY <1>1 DEF Submit, Push
<1>9. At(d, "open")' /\ HandlesOk'
  <2>1. CASE HasRoom(d)
    <3>1. handle' = [handle EXCEPT ![d].queue = Append(@, c)]
      BY <1>1, <2>1 DEF Submit, Push
    <3>2. handle'[d] = [pc |-> handle[d].pc, queue |-> Append(q, c),
                        tries |-> handle[d].tries, answer |-> handle[d].answer]
      BY <1>1, <3>1 DEF HandleOk
    <3>3. /\ q \in Seq(Command) /\ Len(q) + 1 <= QueueCapacity
          /\ \A n \in DOMAIN q : q[n].op = "persist"
      BY <1>1, <2>1, HistoryConstants DEF HandleOk, HasRoom
    <3> PICK w : w = Append(q, c)
      OBVIOUS
    <3>4. /\ w \in Seq(Command) /\ Len(w) <= QueueCapacity
          /\ \A n \in DOMAIN w : w[n].op = "persist"
      BY <1>2, <3>3, AppendOk
    <3>5. /\ handle'[d].pc = handle[d].pc /\ handle'[d].queue = w
          /\ handle'[d].tries = handle[d].tries /\ handle'[d].answer = handle[d].answer
      BY <3>2
    <3>6. handle'[d] = [pc |-> handle'[d].pc, queue |-> handle'[d].queue,
                        tries |-> handle'[d].tries, answer |-> handle'[d].answer]
      BY <3>2, <3>5
    <3>7. handle[d].pc = "open"
      BY DEF At
    <3>8. HandleOk(d)'
      BY <1>1, <3>4, <3>5, <3>6, <3>7 DEF HandleOk
    <3>9. DOMAIN handle' = Handles
      BY <1>1, <3>1
    <3>10. \A g \in Handles \ {d} : HandleOk(g)'
      BY <1>1, <1>8 DEF HandlesOk, HandleOk
    <3> QED BY <3>5, <3>7, <3>8, <3>9, <3>10 DEF HandlesOk, At
  <2>2. CASE ~HasRoom(d)
    <3>1. handle' = handle
      BY <2>2 DEF Submit
    <3>2. HandlesOk'
      BY <1>1, <3>1 DEF HandlesOk, HandleOk
    <3> QED BY <3>1, <3>2 DEF At
  <2> QED BY <2>1, <2>2
\* The queue afterwards: the same, or with the snapshot at its end.
<1>10. PICK w : w = handle'[d].queue
  OBVIOUS
<1>11. /\ DOMAIN q \subseteq Nat /\ DOMAIN q \subseteq DOMAIN w
       /\ \A n \in DOMAIN q : w[n] = q[n]
       /\ \A n \in DOMAIN w \ DOMAIN q : w[n] = c /\ \A m \in DOMAIN q : m < n
       /\ \A m, n \in DOMAIN w \ DOMAIN q : m = n
       /\ DOMAIN w \subseteq Nat
       /\ HasRoom(d) => \E n \in DOMAIN w : n \notin DOMAIN q /\ w[n] = c
       /\ ~HasRoom(d) => w = q
  <2>0. q \in Seq(Command)
    BY <1>1 DEF HandleOk
  <2>1. CASE HasRoom(d)
    <3>1. w = Append(q, c)
      <4>1. handle' = [handle EXCEPT ![d].queue = Append(@, c)]
        BY <1>1, <2>1 DEF Submit, Push
      <4>2. handle'[d] = [pc |-> handle[d].pc, queue |-> Append(q, c),
                          tries |-> handle[d].tries, answer |-> handle[d].answer]
        BY <1>1, <4>1 DEF HandleOk
      <4> QED BY <1>10, <4>2
    <3>2. /\ Len(q) \in Nat /\ DOMAIN q = 1 .. Len(q) /\ DOMAIN w = 1 .. Len(q) + 1
          /\ \A n \in DOMAIN q : w[n] = q[n]
          /\ w[Len(q) + 1] = c
      BY <1>2, <2>0, <3>1, AppendOk
    <3> QED BY <2>1, <3>2
  <2>2. CASE ~HasRoom(d)
    <3>1. w = q
      BY <1>10, <2>2 DEF Submit
    <3>2. DOMAIN q \subseteq Nat
      BY <2>0
    <3> QED BY <2>2, <3>1, <3>2
  <2> QED BY <2>1, <2>2
<1>12. ASSUME NEW j \in DOMAIN known', known'[j].by = d
       PROVE  /\ Waiting(j)' = {n \in DOMAIN w : w[n].id = j}
              /\ j # i => Waiting(j)' = Waiting(j)
  <2>1. Waiting(j)' = {n \in DOMAIN w : w[n].id = j}
    BY <1>10, <1>12 DEF Waiting
  <2>2. ASSUME j # i
        PROVE  Waiting(j)' = Waiting(j)
    <3>1. known[j].by = d
      BY <1>3, <1>12, <2>2
    <3>2. Waiting(j) = {n \in DOMAIN q : q[n].id = j}
      BY <3>1 DEF Waiting
    <3>3. \A n : (n \in DOMAIN w /\ w[n].id = j) <=> (n \in DOMAIN q /\ q[n].id = j)
      BY <1>2, <1>11, <2>2
    <3> QED BY <2>1, <3>2, <3>3
  <2> QED BY <2>1, <2>2
<1>13. ASSUME NEW j \in DOMAIN known', known'[j].by # d
       PROVE  /\ j \in DOMAIN known /\ j # i /\ known'[j] = known[j]
              /\ handle'[known[j].by] = handle[known[j].by]
              /\ Waiting(j)' = Waiting(j)
  <2>1. j \in DOMAIN known /\ j # i /\ known'[j] = known[j]
    BY <1>3, <1>13
  <2>2. handle'[known[j].by] = handle[known[j].by]
    BY <1>5, <1>8, <1>13, <2>1
  <2> QED BY <2>1, <2>2 DEF Waiting
<1>14. ASSUME NEW e \in Daemons
       PROVE  QueueOk(e)'
  <2>1. QueueOk(e)
    BY DEF IInv
  <2>2. CASE e # d
    <3>1. handle'[e] = handle[e]
      BY <1>8, <2>2, DaemonsAreHandles
    <3>2. \A j \in DOMAIN known : known[j].by = e => j # i
      BY <2>2
    <3>3. \A j \in DOMAIN known' : known'[j].by = e => j \in DOMAIN known /\ known'[j] = known[j]
      BY <1>3, <2>2
    <3>4. \A n \in DOMAIN handle[e].queue :
            /\ handle[e].queue[n].id \in DOMAIN known'
            /\ known'[handle[e].queue[n].id] = known[handle[e].queue[n].id]
      BY <1>3, <2>1, <3>2 DEF QueueOk
    <3> QED BY <2>1, <3>1, <3>3, <3>4 DEF QueueOk, At
  <2>3. CASE e = d
    <3>1. \A n \in DOMAIN w :
            /\ w[n].id \in DOMAIN known' /\ known'[w[n].id].by = d
            /\ ~known'[w[n].id].past
            /\ Rank(w[n].state) <= Rank(known'[w[n].id].state)
      <4> SUFFICES ASSUME NEW n \in DOMAIN w
                   PROVE  /\ w[n].id \in DOMAIN known' /\ known'[w[n].id].by = d
                          /\ ~known'[w[n].id].past
                          /\ Rank(w[n].state) <= Rank(known'[w[n].id].state)
        OBVIOUS
      <4>1. fact.state \in States /\ Rank(fact.state) \in Nat
        BY RankOk DEF Fact, States
      <4>2. CASE n \in DOMAIN q
        <5>1. CASE q[n].id = i
          <6>1. Rank(q[n].state) < Rank(fact.state) /\ Rank(q[n].state) \in Nat
            BY <1>6, <1>7, <4>2, <5>1, RankOk
          <6> QED BY <1>3, <1>11, <4>1, <4>2, <5>1, <6>1
        <5>2. CASE q[n].id # i
          BY <1>3, <1>6, <1>11, <4>2, <5>2
        <5> QED BY <5>1, <5>2
      <4>3. CASE n \notin DOMAIN q
        BY <1>2, <1>3, <1>11, <4>1, <4>3
      <4> QED BY <4>2, <4>3
    <3>2. \A m, n \in DOMAIN w :
            m < n /\ w[m].id = w[n].id => Rank(w[m].state) < Rank(w[n].state)
      <4> SUFFICES ASSUME NEW m \in DOMAIN w, NEW n \in DOMAIN w, m < n, w[m].id = w[n].id
                   PROVE  Rank(w[m].state) < Rank(w[n].state)
        OBVIOUS
      <4>1. CASE n \in DOMAIN q
        <5>1. m \in DOMAIN q
          BY <1>11, <4>1
        <5> QED BY <1>6, <1>11, <4>1, <5>1
      <4>2. CASE n \notin DOMAIN q
        <5>1. w[n] = c /\ m \in DOMAIN q
          BY <1>11, <4>2
        <5> QED BY <1>2, <1>7, <1>11, <5>1
      <4> QED BY <4>1, <4>2
    <3>3. QueueOk(d)'
      BY <1>9, <1>10, <3>1, <3>2 DEF QueueOk
    <3> QED BY <2>3, <3>3
  <2> QED BY <2>2, <2>3
<1>15. ASSUME NEW j \in DOMAIN rows'
       PROVE  RowOk(j)'
  <2>1. j \in DOMAIN rows /\ rows' = rows /\ RowOk(j) /\ j \in DOMAIN known
        /\ j \in DOMAIN known'
    BY <1>3 DEF IInv, RowOk
  <2>2. CASE j # i /\ known[j].by # d
    <3>1. known'[j] = known[j]
      BY <1>3, <2>1, <2>2
    <3>2. handle'[known[j].by] = handle[known[j].by] /\ Waiting(j)' = Waiting(j)
      BY <1>13, <2>1, <2>2, <3>1
    <3> QED BY <2>1, <3>1, <3>2 DEF RowOk
  <2>3. CASE j # i /\ known[j].by = d
    <3>1. known'[j] = known[j]
      BY <1>3, <2>1, <2>3
    <3>2. Waiting(j)' = Waiting(j) /\ \A n \in Waiting(j) : n \in DOMAIN q
      BY <1>12, <2>1, <2>3, <3>1 DEF Waiting
    <3>3. handle'[known'[j].by].queue = w /\ handle[known[j].by].queue = q
      BY <1>10, <2>3, <3>1
    <3> QED BY <1>11, <2>1, <3>1, <3>2, <3>3 DEF RowOk
  <2>4. CASE j = i
    <3>1. known[i].by = d /\ ~known[i].past /\ Rank(known[i].state) < Rank(fact.state)
      BY <2>1, <2>4
    <3>2. /\ rows[i].server = ServerOf[d] /\ rows[i].state # "interrupted"
          /\ Rank(rows[i].state) <= Rank(known[i].state)
          /\ \A n \in DOMAIN q : q[n].id = i => Rank(rows[i].state) < Rank(q[n].state)
      BY <2>1, <2>4, <3>1 DEF RowOk, Waiting
    <3>3. rows[i].state \in States /\ known[i].state \in States /\ fact.state \in States
      BY <1>1, <2>1, <2>4 DEF DataOk, Row, Fact, States
    <3>4. Rank(rows[i].state) < Rank(fact.state)
          /\ Rank(rows[i].state) \in Nat /\ Rank(fact.state) \in Nat
      BY <3>1, <3>2, <3>3, RankOk
    <3>5. \A n \in DOMAIN w : w[n].id = i => Rank(rows[i].state) < Rank(w[n].state)
      BY <1>2, <1>11, <3>2, <3>4
    <3>6. Waiting(i)' = {n \in DOMAIN w : w[n].id = i} /\ handle'[known'[i].by].queue = w
      BY <1>3, <1>10, <1>12, <2>1, <2>4
    <3> QED BY <1>3, <2>1, <2>4, <3>2, <3>4, <3>5, <3>6 DEF RowOk
  <2> QED BY <2>2, <2>3, <2>4
<1>16. ASSUME NEW j \in DOMAIN known'
       PROVE  LatestWaits(j)'
  <2>1. CASE j = i
    <3>1. CASE HasRoom(d)
      <4>1. PICK n \in DOMAIN w : w[n] = c
        BY <1>11, <3>1
      <4>2. n \in Waiting(i)' /\ handle'[known'[i].by].queue = w
        BY <1>2, <1>3, <1>10, <1>12, <2>1, <4>1
      <4> QED BY <1>2, <1>3, <2>1, <4>1, <4>2 DEF LatestWaits
    <3>2. CASE ~HasRoom(d)
      BY <1>3, <2>1, <3>2 DEF LatestWaits
    <3> QED BY <3>1, <3>2
  <2>2. CASE j # i
    <3>1. j \in DOMAIN known /\ LatestWaits(j) /\ known'[j] = known[j]
      BY <1>3, <2>2 DEF IInv
    <3>2. CASE known[j].by # d
      <4>1. handle'[known[j].by] = handle[known[j].by] /\ Waiting(j)' = Waiting(j)
        BY <1>13, <3>1, <3>2
      <4> QED BY <3>1, <4>1 DEF LatestWaits
    <3>3. CASE known[j].by = d
      <4>1. Waiting(j)' = Waiting(j) /\ \A n \in Waiting(j) : n \in DOMAIN q
        BY <1>12, <2>2, <3>1, <3>3 DEF Waiting
      <4>2. handle'[known'[j].by].queue = w /\ handle[known[j].by].queue = q
        BY <1>10, <3>1, <3>3
      <4> QED BY <1>11, <3>1, <4>1, <4>2 DEF LatestWaits
    <3> QED BY <3>2, <3>3
  <2> QED BY <2>1, <2>2
<1>17. RowIsCurrent'
  <2> SUFFICES ASSUME NEW j \in DOMAIN known', j \in DOMAIN rows', ~known'[j].lost,
                      ~known'[j].past \/ known'[j].state = "closed",
                      known'[j].past \/ Waiting(j)' = {}
               PROVE  rows'[j].state = known'[j].state
    BY DEF RowIsCurrent
  <2>1. j # i
    <3> SUFFICES ASSUME j = i PROVE FALSE
      OBVIOUS
    <3>1. HasRoom(d) /\ Waiting(i)' = {}
      BY <1>3
    <3>2. PICK n \in DOMAIN w : w[n] = c
      BY <1>11, <3>1
    <3>3. n \in Waiting(i)'
      BY <1>2, <1>3, <1>12, <3>2
    <3> QED BY <3>1, <3>3
  <2>2. j \in DOMAIN known /\ known'[j] = known[j] /\ rows' = rows
    BY <1>3, <2>1
  <2>3. Waiting(j)' = Waiting(j)
    BY <1>12, <1>13, <2>1
  <2> QED BY <2>2, <2>3 DEF IInv, RowIsCurrent
<1>18. NoStaleLive'
  <2> SUFFICES ASSUME NEW e \in Daemons, NEW j \in DOMAIN rows',
                      handle'[e].pc \in {"retain", "open"},
                      rows'[j].server = ServerOf[e], IsLive(rows'[j])
               PROVE  known'[j].by = e /\ ~known'[j].past
    BY DEF NoStaleLive, IsLive
  <2>1. rows' = rows /\ IsLive(rows[j])
    BY DEF IsLive
  <2>2. handle[e].pc \in {"retain", "open"}
    BY <1>8, DaemonsAreHandles DEF At
  <2>3. known[j].by = e /\ ~known[j].past /\ j \in DOMAIN known
    BY <2>1, <2>2 DEF IInv, NoStaleLive, RowOk
  <2>4. CASE j # i
    BY <1>3, <2>3, <2>4
  <2>5. CASE j = i
    BY <1>3, <2>3, <2>5
  <2> QED BY <2>4, <2>5
<1> QED BY <1>4, <1>9, <1>14, <1>15, <1>16, <1>17, <1>18 DEF IInv

\* An id is not used twice.
LEMMA NewId ==
  ASSUME Numbered, Cardinality(DOMAIN known) < MaxIds
  PROVE  LET i == Cardinality(DOMAIN known)
         IN  /\ i \in Ids /\ i \notin DOMAIN known
             /\ \E n \in 0 .. MaxIds : DOMAIN known \cup {i} = 0 .. n - 1
<1>1. PICK n \in 0 .. MaxIds : DOMAIN known = 0 .. n - 1
  BY DEF Numbered
<1>2. MaxIds \in Nat /\ n \in Nat
  BY <1>1, HistoryConstants
<1>3. Cardinality(0 .. n - 1) = IF 0 > n - 1 THEN 0 ELSE n - 1 - 0 + 1
  <2>1. 0 \in Int /\ n - 1 \in Int
    BY <1>2
  <2> QED BY <2>1, FS_Interval
<1>4. Cardinality(DOMAIN known) = n
  BY <1>1, <1>2, <1>3
<1>5. n + 1 \in 0 .. MaxIds /\ (0 .. n - 1) \cup {n} = 0 .. (n + 1) - 1
      /\ n \in 0 .. MaxIds - 1 /\ n \notin 0 .. n - 1
  BY <1>2, <1>4
<1> QED BY <1>1, <1>4, <1>5 DEF Ids

LEMMA AcceptOk ==
  ASSUME IInv, NEW d \in Daemons, Accept(d)
  PROVE  IInv'
<1> PICK i : i = Cardinality(DOMAIN known)
  OBVIOUS
<1> PICK fact : fact = [by |-> d, state |-> "pending", past |-> FALSE, lost |-> FALSE]
  OBVIOUS
<1>1. /\ i \in Ids /\ i \notin DOMAIN known
      /\ \E n \in 0 .. MaxIds : DOMAIN known \cup {i} = 0 .. n - 1
  BY NewId DEF IInv, DataOk, Accept
<1>2. fact \in Fact /\ fact.by = d /\ ~fact.past
  BY DEF Fact, LiveStates
<1>3. Submit(d, i, fact) /\ At(d, "open") /\ UNCHANGED <<version, rows, spent>>
  BY DEF Accept
<1>4. Numbered'
  <2>1. DOMAIN known' = DOMAIN known \cup {i}
    BY <1>3 DEF Submit, With
  <2> QED BY <1>1, <2>1 DEF Numbered
<1> QED BY <1>1, <1>2, <1>3, <1>4, SubmitOk

LEMMA ChangeOk ==
  ASSUME IInv, NEW d \in Daemons, NEW i \in DOMAIN known, Change(d, i)
  PROVE  IInv'
<1>1. PICK state \in {"visible", "closed"} \ {known[i].state} :
        Submit(d, i, [known[i] EXCEPT !.state = state])
  BY DEF Change
<1> PICK fact : fact = [known[i] EXCEPT !.state = state]
  OBVIOUS
<1>2. /\ known[i] \in Fact /\ known[i].by = d /\ ~known[i].past
      /\ known[i].state \in LiveStates
  BY DEF IInv, DataOk, Change
<1>3. fact \in Fact /\ fact.by = d /\ ~fact.past /\ fact.state = state
  BY <1>2 DEF Fact, LiveStates
<1>4. Rank(known[i].state) < Rank(fact.state)
  BY <1>2, <1>3 DEF Rank, LiveStates
<1>5. i \in Ids
  <2>1. PICK n \in 0 .. MaxIds : DOMAIN known = 0 .. n - 1
    BY DEF IInv, DataOk, Numbered
  <2> QED BY <2>1, HistoryConstants DEF Ids
<1>6. Submit(d, i, fact) /\ UNCHANGED <<version, rows, spent>>
  BY <1>1 DEF Change
<1>7. Numbered'
  <2>1. DOMAIN known' = DOMAIN known
    BY <1>6 DEF Submit, With
  <2> QED BY <2>1 DEF IInv, DataOk, Numbered
<1>8. At(d, "open")
  BY <1>2 DEF IInv, QueueOk
<1> QED BY <1>2, <1>3, <1>4, <1>5, <1>6, <1>7, <1>8, SubmitOk

-----------------------------------------------------------------------------
(* The end of a daemon.                                                    *)

LEMMA CrashOk ==
  ASSUME IInv, NEW d \in Daemons, Crash(d)
  PROVE  IInv'
<1>1. /\ HandlesOk /\ DataOk /\ d \in Handles /\ DOMAIN handle = Handles
      /\ d \notin Readers
  BY DaemonsAreHandles DEF IInv, HandlesOk
<1>2. /\ handle'[d] = [pc |-> "closed", queue |-> <<>>, tries |-> 0, answer |-> None]
      /\ DOMAIN handle' = Handles /\ \A g \in Handles \ {d} : handle'[g] = handle[g]
  BY <1>1 DEF Crash, Closed
<1>3. /\ handle'[d].pc = "closed" /\ handle'[d].queue = <<>>
      /\ handle'[d].tries = 0 /\ handle'[d].answer = None
  BY <1>2
<1>4. <<>> \in Seq(Command) /\ Len(<<>>) = 0 /\ DOMAIN <<>> = {}
  BY EmptyOk
<1>5. HandlesOk'
  <2>1. 0 \in 0 .. MaxAttempts - 1 /\ QueueCapacity \in Nat
    BY HistoryConstants
  <2>2. handle'[d] = [pc |-> handle'[d].pc, queue |-> handle'[d].queue,
                      tries |-> handle'[d].tries, answer |-> handle'[d].answer]
    BY <1>2, <1>3
  <2>3. HandleOk(d)'
    BY <1>3, <1>4, <2>1, <2>2 DEF HandleOk, IsAnswer
  <2>4. \A g \in Handles \ {d} : HandleOk(g)'
    BY <1>1, <1>2 DEF HandlesOk, HandleOk
  <2> QED BY <1>2, <2>3, <2>4 DEF HandlesOk
<1>6. known \in [DOMAIN known -> Fact]
  BY <1>1 DEF DataOk
<1>7. /\ DOMAIN known' = DOMAIN known
      /\ known' \in [DOMAIN known -> Fact]
      /\ \A i \in DOMAIN known :
           /\ known'[i].by = known[i].by /\ known'[i].state = known[i].state
           /\ known[i].by # d => known'[i] = known[i]
           /\ known[i].by = d =>
                /\ known'[i].past
                /\ ~known'[i].lost => ~known[i].lost /\ Waiting(i) = {}
  <2>1. ASSUME NEW i \in DOMAIN known
        PROVE  /\ known'[i] \in Fact
               /\ known'[i].by = known[i].by /\ known'[i].state = known[i].state
               /\ known[i].by # d => known'[i] = known[i]
               /\ known[i].by = d =>
                    /\ known'[i].past
                    /\ ~known'[i].lost => ~known[i].lost /\ Waiting(i) = {}
    <3>1. CASE known[i].by # d
      <4>1. known'[i] = known[i]
        BY <3>1 DEF Crash
      <4> QED BY <1>6, <3>1, <4>1
    <3>2. CASE known[i].by = d
      <4> DEFINE lost == known[i].lost \/ \E n \in DOMAIN handle[d].queue :
                                            handle[d].queue[n].id = i
      <4>1. known'[i] = [by |-> d, state |-> known[i].state, past |-> TRUE, lost |-> lost]
        BY <3>2 DEF Crash
      <4>2. lost \in BOOLEAN
        BY <1>6 DEF Fact
      <4>3. ~lost => ~known[i].lost /\ Waiting(i) = {}
        BY <3>2 DEF Waiting
      <4> HIDE DEF lost
      <4>4. known[i].state \in LiveStates \cup {"closed"}
        BY <1>6 DEF Fact
      <4> QED BY <3>2, <4>1, <4>2, <4>3, <4>4 DEF Fact
    <3> QED BY <3>1, <3>2
  <2>2. DOMAIN known' = DOMAIN known /\ known' = [i \in DOMAIN known |-> known'[i]]
    BY DEF Crash
  <2> QED BY <2>1, <2>2
<1>8. rows' = rows /\ version' = version
  BY DEF Crash
<1>9. DataOk'
  <2>1. spent' \in [crashes : 0 .. MaxCrashes, questions : 0 .. MaxQuestions]
    <3>1. spent \in [crashes : 0 .. MaxCrashes, questions : 0 .. MaxQuestions]
      BY <1>1 DEF DataOk
    <3>2. spent.crashes + 1 \in 0 .. MaxCrashes
      BY <3>1, HistoryConstants DEF Crash
    <3> QED BY <3>1, <3>2 DEF Crash
  <2> QED BY <1>1, <1>7, <1>8, <2>1 DEF DataOk, Numbered
<1>10. \A i \in DOMAIN known : known[i].by \in Daemons /\ known[i].by \in Handles
  BY <1>6, DaemonsAreHandles DEF Fact
<1>11. \A i \in DOMAIN known :
         /\ known[i].by = d => Waiting(i)' = {}
         /\ known[i].by # d => /\ Waiting(i)' = Waiting(i)
                               /\ handle'[known[i].by] = handle[known[i].by]
  BY <1>2, <1>3, <1>4, <1>7, <1>10 DEF Waiting
<1>12. ASSUME NEW e \in Daemons
       PROVE  QueueOk(e)'
  <2>1. CASE e = d
    BY <1>3, <1>4, <1>7, <2>1 DEF QueueOk
  <2>2. CASE e # d
    <3>1. QueueOk(e) /\ handle'[e] = handle[e]
      BY <1>2, <2>2, DaemonsAreHandles DEF IInv
    <3>2. \A i \in DOMAIN known : known[i].by = e => known'[i] = known[i]
      BY <1>7, <2>2
    <3> QED BY <1>7, <3>1, <3>2 DEF QueueOk, At
  <2> QED BY <2>1, <2>2
<1>13. ASSUME NEW i \in DOMAIN rows'
       PROVE  RowOk(i)'
  <2>1. RowOk(i) /\ i \in DOMAIN known /\ i \in DOMAIN rows
    BY <1>8 DEF IInv, RowOk
  <2>2. CASE known[i].by = d
    BY <1>7, <1>8, <1>11, <2>1, <2>2 DEF RowOk
  <2>3. CASE known[i].by # d
    BY <1>7, <1>8, <1>11, <2>1, <2>3 DEF RowOk
  <2> QED BY <2>2, <2>3
<1>14. ASSUME NEW i \in DOMAIN known'
       PROVE  LatestWaits(i)'
  <2>1. LatestWaits(i) /\ i \in DOMAIN known
    BY <1>7 DEF IInv
  <2> QED BY <1>7, <1>11, <2>1 DEF LatestWaits
<1>15. RowIsCurrent'
  <2> SUFFICES ASSUME NEW i \in DOMAIN known', i \in DOMAIN rows', ~known'[i].lost,
                      ~known'[i].past \/ known'[i].state = "closed",
                      known'[i].past \/ Waiting(i)' = {}
               PROVE  rows'[i].state = known'[i].state
    BY DEF RowIsCurrent
  <2>1. CASE known[i].by = d
    <3>1. ~known[i].lost /\ Waiting(i) = {} /\ known'[i].state = known[i].state
          /\ known[i].state = "closed"
      BY <1>7, <2>1
    <3> QED BY <1>7, <1>8, <3>1 DEF IInv, RowIsCurrent
  <2>2. CASE known[i].by # d
    BY <1>7, <1>8, <1>11, <2>2 DEF IInv, RowIsCurrent
  <2> QED BY <2>1, <2>2
<1>16. NoStaleLive'
  <2> SUFFICES ASSUME NEW e \in Daemons, NEW i \in DOMAIN rows,
                      handle'[e].pc \in {"retain", "open"},
                      rows[i].server = ServerOf[e], IsLive(rows[i])
               PROVE  known'[i].by = e /\ ~known'[i].past
    BY <1>8 DEF NoStaleLive, IsLive
  <2>1. e # d /\ handle'[e] = handle[e]
    BY <1>2, <1>3, DaemonsAreHandles
  <2>2. known[i].by = e /\ ~known[i].past /\ i \in DOMAIN known
    BY <2>1 DEF IInv, NoStaleLive, RowOk
  <2> QED BY <1>7, <2>1, <2>2
<1> QED BY <1>5, <1>9, <1>12, <1>13, <1>14, <1>15, <1>16 DEF IInv

-----------------------------------------------------------------------------
(* Every step.                                                             *)

LEMMA WorkerOk ==
  ASSUME IInv, NEW h \in Handles, Worker(h)
  PROVE  IInv'
<1>1. CASE Job(h).op = "persist"
  <2>1. Commit(h) \/ (/\ Done(h, FALSE, None) /\ Settled(h, FALSE)
                      /\ UNCHANGED <<version, rows, spent>>)
          \/ (/\ handle[h].tries + 1 < MaxAttempts
              /\ handle' = [handle EXCEPT ![h].tries = @ + 1]
              /\ UNCHANGED <<version, rows, known, spent>>)
    BY <1>1 DEF Worker, Busy, Fail, Read
  <2>2. CASE Commit(h)
    <3>1. /\ Done(h, TRUE, None) /\ Settled(h, TRUE) /\ UNCHANGED <<version, spent>>
          /\ rows' \in Outcomes(h)
      BY <1>1, <2>2 DEF Commit
    <3>2. rows' = Retained(Upserted(rows, h, Job(h)), LimitOf[h])
      BY <1>1, <3>1 DEF Outcomes, Persisted
    <3> QED BY <1>1, <3>1, <3>2, SnapshotEnds
  <2>3. CASE /\ Done(h, FALSE, None) /\ Settled(h, FALSE)
             /\ UNCHANGED <<version, rows, spent>>
    BY <1>1, <2>3, SnapshotEnds
  <2>4. CASE /\ handle[h].tries + 1 < MaxAttempts
             /\ handle' = [handle EXCEPT ![h].tries = @ + 1]
             /\ UNCHANGED <<version, rows, known, spent>>
    BY <2>4, RetryEdits, EditedStep
  <2> QED BY <2>1, <2>2, <2>3, <2>4
<1>2. CASE Job(h).op # "persist"
  <2>1. CASE Commit(h)
    BY <1>2, <2>1, CommitEdits, EditedStep
  <2>2. CASE Fail(h)
    BY <1>2, <2>2, FailureEdits, EditedStep DEF Fail
  <2>3. CASE Read(h)
    BY <2>3, ReadEdits, EditedStep
  <2>4. CASE Busy(h)
    <3>1. CASE handle[h].tries + 1 < MaxAttempts
      BY <2>4, <3>1, RetryEdits, EditedStep DEF Busy
    <3>2. CASE ~(handle[h].tries + 1 < MaxAttempts)
      BY <1>2, <2>4, <3>2, FailureEdits, EditedStep DEF Busy
    <3> QED BY <3>1, <3>2
  <2> QED BY <2>1, <2>2, <2>3, <2>4 DEF Worker
<1> QED BY <1>1, <1>2

LEMMA StepOk == IInv /\ [Next]_vars => IInv'
<1> SUFFICES ASSUME IInv, [Next]_vars PROVE IInv'
  OBVIOUS
<1>1. CASE UNCHANGED vars
  <2>1. UNCHANGED <<version, rows, handle, known, spent>>
    BY <1>1 DEF vars
  <2>2. HandlesOk' /\ DataOk'
    BY <2>1 DEF IInv, HandlesOk, HandleOk, DataOk, Numbered
  <2>3. Edited
    BY <2>1 DEF Edited
  <2> QED BY <2>2, <2>3, EditedStep
<1>2. ASSUME NEW h \in Handles, Open(h)
      PROVE  IInv'
  BY <1>2, OpenEdits, EditedStep
<1>3. ASSUME NEW h \in Handles, Worker(h)
      PROVE  IInv'
  BY <1>3, WorkerOk
<1>4. ASSUME NEW d \in Daemons, Daemon(d)
      PROVE  IInv'
  BY <1>4, AcceptOk, ChangeOk, CrashOk DEF Daemon
<1>5. ASSUME NEW r \in Readers, Reader(r)
      PROVE  IInv'
  BY <1>5, ReaderEdits, EditedStep
<1> QED BY <1>1, <1>2, <1>3, <1>4, <1>5 DEF Next

LEMMA Invariant == Spec => []IInv
<1> QED BY InitOk, StepOk, PTL DEF Spec

-----------------------------------------------------------------------------
(* What holds of every behaviour.                                          *)

\* The rows of living Notifications are those of the daemons that serve, and
\* say what they know, whatever readers, other daemons, retention, lost locks
\* and crashes do (persist, recover_stale and the worker of src/history.rs).
THEOREM LiveRowsStayTrue == Spec => []LiveRowsAreTrue
<1>1. IInv => LiveRowsAreTrue
  <2> SUFFICES ASSUME IInv PROVE TypeOK
    BY DEF IInv, LiveRowsAreTrue
  <2>1. DOMAIN known \subseteq Ids
    <3>1. PICK n \in 0 .. MaxIds : DOMAIN known = 0 .. n - 1
      BY DEF IInv, DataOk, Numbered
    <3> QED BY <3>1, HistoryConstants DEF Ids
  <2> QED BY <2>1 DEF IInv, HandlesOk, HandleOk, DataOk, TypeOK
<1> QED BY <1>1, Invariant, PTL

\* Only a commit changes the table, and it ends its handle's job.
LEMMA RowsChange ==
  ASSUME IInv, [Next]_vars, rows' # rows
  PROVE  \E h \in Handles :
           /\ Commit(h) /\ Ends(h)
           /\ \A g \in Handles \ {h} : ~Ends(g)
<1>1. PICK h \in Handles : Commit(h)
  <2>1. \A d \in Daemons, i \in DOMAIN known : Change(d, i) => rows' = rows
    BY DEF Change
  <2>2. \A d \in Daemons : Daemon(d) => rows' = rows
    BY <2>1 DEF Daemon, Accept, Crash
  <2>3. \A r \in Readers : Reader(r) => rows' = rows
    BY DEF Reader, Mutate, List, Count, Clear, Leave, AskOnce, Ask
  <2>4. \A h \in Handles : Open(h) \/ Busy(h) \/ Fail(h) \/ Read(h) => rows' = rows
    BY DEF Open, Busy, Fail, Read
  <2> QED BY <2>2, <2>3, <2>4 DEF Next, Worker, vars
<1>2. HandlesOk /\ Done(h, TRUE, None) /\ Writing(h)
  BY <1>1 DEF IInv, Commit
<1>3. handle'[h] # handle[h] /\ \A g \in Handles \ {h} : handle'[g] = handle[g]
  BY <1>2, DoneOk DEF Writing
<1> QED BY <1>1, <1>2, <1>3 DEF Ends

\* What the commit of a snapshot makes of the table.
LEMMA SnapshotCommits ==
  ASSUME IInv, NEW h \in Handles, Commit(h), Job(h).op = "persist"
  PROVE  \E u \in {Upserted(rows, h, Job(h))} :
           /\ IsTable(u) /\ DOMAIN rows \subseteq DOMAIN u
           /\ \A i \in DOMAIN rows : /\ u[i].hidden = rows[i].hidden
                                     /\ ~IsLive(rows[i]) => u[i].state = rows[i].state
           /\ rows' = Retained(u, LimitOf[h])
<1> PICK c : c = Job(h)
  OBVIOUS
<1> PICK u : u = Upserted(rows, h, c)
  OBVIOUS
<1>1. HandlesOk /\ DataOk /\ IsTable(rows) /\ LimitOf[h] \in Nat \ {0}
  BY HistoryConstants DEF IInv, DataOk, IsTable
<1>2. /\ h \in Daemons /\ handle[h].queue # <<>> /\ c \in Snapshot
      /\ c = handle[h].queue[1]
  BY <1>1, JobOfWhom
<1>3. /\ IsTable(u) /\ DOMAIN u = DOMAIN rows \cup {c.id}
      /\ u[c.id].state = c.state
      /\ c.id \in DOMAIN rows => u[c.id].hidden = rows[c.id].hidden
      /\ \A i \in DOMAIN rows : i # c.id => u[i] = rows[i]
  <2>1. IsTable(rows) /\ c \in Snapshot
    BY <1>1, <1>2
  <2>2. ASSUME c.id \in DOMAIN rows
        PROVE  Upserted(rows, h, c)[c.id].hidden = rows[c.id].hidden
    BY <2>1, <2>2, UpsertedOk
  <2>3. /\ IsTable(Upserted(rows, h, c))
        /\ DOMAIN Upserted(rows, h, c) = DOMAIN rows \cup {c.id}
        /\ Upserted(rows, h, c)[c.id].state = c.state
    BY <2>1, UpsertedOk
  <2>4. \A i \in DOMAIN rows : i # c.id => Upserted(rows, h, c)[i] = rows[i]
    BY <2>1, UpsertedOk
  <2> QED BY <2>2, <2>3, <2>4
<1>4. rows' = Retained(u, LimitOf[h])
  BY DEF Commit, Outcomes, Persisted
<1>5. 1 \in DOMAIN handle[h].queue
  BY <1>1, <1>2, TailOk DEF HandlesOk, HandleOk
<1>6. c.id \in DOMAIN known /\ known[c.id].by = h /\ ~known[c.id].past
  BY <1>2, <1>5 DEF IInv, QueueOk
<1>7. ASSUME c.id \in DOMAIN rows
      PROVE  IsLive(rows[c.id])
  <2>1. RowOk(c.id)
    BY <1>7 DEF IInv
  <2>2. 1 \in Waiting(c.id)
    BY <1>2, <1>5, <1>6 DEF Waiting
  <2>3. rows[c.id].state # "interrupted" /\ Rank(rows[c.id].state) < Rank(c.state)
    BY <1>2, <1>6, <2>1, <2>2 DEF RowOk
  <2>4. rows[c.id].state \in States
    BY <1>1, <1>7 DEF IsTable, Row
  <2> QED BY <2>3, <2>4 DEF Rank, States, LiveStates, IsLive
<1> QED BY <1>3, <1>4, <1>7

\* What a user hid stays hidden until an Unhide, and a row that is closed keeps
\* its close reason (the ON CONFLICT of upsert_in, set_hidden, recover_stale).
THEOREM RecordsStandProved == Spec => RecordsStand
<1>1. ASSUME IInv, [Next]_vars
      PROVE  /\ \A i \in Kept : rows[i].hidden /\ ~rows'[i].hidden =>
                  \E h \in Readers : Ends(h) /\ Job(h).op = "hide" /\ ~Job(h).hidden
             /\ \A i \in Kept : ~IsLive(rows[i]) => rows'[i].state = rows[i].state
  <2>1. CASE rows' = rows
    BY <2>1 DEF Kept
  <2>2. CASE rows' # rows
    <3>1. PICK h \in Handles : Commit(h) /\ Ends(h)
      BY <1>1, <2>2, RowsChange
    <3>2. HandlesOk /\ DataOk /\ Writing(h) /\ LimitOf[h] \in Nat \ {0}
      BY <1>1, <3>1, HistoryConstants DEF IInv, Commit
    <3>3. CASE Job(h).op = "persist"
      <4>1. PICK u : /\ IsTable(u) /\ DOMAIN rows \subseteq DOMAIN u
                     /\ \A i \in DOMAIN rows :
                          /\ u[i].hidden = rows[i].hidden
                          /\ ~IsLive(rows[i]) => u[i].state = rows[i].state
                     /\ rows' = Retained(u, LimitOf[h])
        BY <1>1, <3>1, <3>3, SnapshotCommits
      <4>2. \A i \in DOMAIN rows' : rows'[i] = u[i]
        BY <3>2, <4>1, RetainedOk
      <4> QED BY <4>1, <4>2 DEF Kept
    <3>4. CASE Job(h).op # "persist"
      <4>1. \A i \in DOMAIN rows' :
              /\ rows'[i].state = IF /\ Job(h).op = "recover" /\ IsLive(rows[i])
                                     /\ rows[i].server = ServerOf[h]
                                  THEN "interrupted" ELSE rows[i].state
              /\ rows'[i].hidden = IF Job(h).op = "hide" /\ i = Job(h).id
                                   THEN Job(h).hidden ELSE rows[i].hidden
        BY <3>1, <3>2, <3>4, OutcomesOk DEF Commit
      <4>2. Job(h).op = "hide" => h \in Readers
        BY <3>2, JobOfWhom DEF ReaderOps
      <4>3. \A i \in Kept : rows[i].hidden /\ ~rows'[i].hidden =>
              \E g \in Readers : Ends(g) /\ Job(g).op = "hide" /\ ~Job(g).hidden
        BY <3>1, <4>1, <4>2 DEF Kept
      <4> QED BY <4>1, <4>3 DEF Kept
    <3> QED BY <3>3, <3>4
  <2> QED BY <2>1, <2>2
<1>2. IInv /\ [Next]_vars =>
        [\A i \in Kept : rows[i].hidden /\ ~rows'[i].hidden =>
           \E h \in Readers : Ends(h) /\ Job(h).op = "hide" /\ ~Job(h).hidden]_vars
  BY <1>1
<1>3. IInv /\ [Next]_vars =>
        [\A i \in Kept : ~IsLive(rows[i]) => rows'[i].state = rows[i].state]_vars
  BY <1>1
<1> QED BY <1>2, <1>3, Invariant, PTL DEF Spec, RecordsStand, HiddenStaysHidden, ClosedIsFinal

\* Rows are deleted for room in the order of retention, hidden ones first, then
\* the oldest, and no more of them than must go (enforce_retention_in).
THEOREM RetentionStaysFair == Spec => RetentionIsFair
<1>1. ASSUME IInv, [Next]_vars, NEW h \in Handles, Ends(h), Job(h).op = "persist",
             rows' # rows
      PROVE  Cardinality(DOMAIN rows') <= LimitOf[h]
  <2>1. Commit(h)
    BY <1>1, RowsChange
  <2>2. PICK u : IsTable(u) /\ rows' = Retained(u, LimitOf[h])
    BY <1>1, <2>1, SnapshotCommits
  <2>3. LimitOf[h] \in Nat \ {0}
    BY HistoryConstants
  <2> QED BY <2>2, <2>3, RetainedOk
<1>2. ASSUME IInv, [Next]_vars, ~Clearing, Gone # {}
      PROVE  /\ \A i \in Gone, j \in Kept :
                  IF rows[j].hidden THEN rows[i].hidden /\ i < j
                  ELSE rows[i].hidden \/ i < j
             /\ \E h \in Handles : Cardinality(DOMAIN rows') = LimitOf[h]
  <2>1. rows' # rows
    BY <1>2 DEF Gone
  <2>2. PICK h \in Handles : Commit(h) /\ Ends(h)
    BY <1>2, <2>1, RowsChange
  <2>3. HandlesOk /\ DataOk /\ IsTable(rows) /\ Writing(h) /\ LimitOf[h] \in Nat \ {0}
    BY <1>2, <2>2, HistoryConstants DEF IInv, Commit, DataOk, IsTable
  <2>4. Job(h).op # "clear"
    BY <1>2, <2>2 DEF Clearing
  <2>5. PICK u : /\ IsTable(u) /\ DOMAIN rows \subseteq DOMAIN u
                 /\ \A i \in DOMAIN rows : u[i].hidden = rows[i].hidden
                 /\ rows' = Retained(u, LimitOf[h])
    <3>1. CASE Job(h).op = "persist"
      BY <1>2, <2>2, <3>1, SnapshotCommits
    <3>2. CASE Job(h).op # "persist"
      <4>1. Job(h).op = "retain" => rows' = Retained(rows, LimitOf[h])
        BY <2>2, <2>3, <3>2, OutcomesOk DEF Commit
      <4>2. Job(h).op # "retain" => DOMAIN rows' = DOMAIN rows
        BY <2>2, <2>3, <2>4, <3>2, OutcomesOk DEF Commit
      <4>3. Job(h).op = "retain"
        BY <1>2, <4>2 DEF Gone
      <4> QED BY <2>3, <4>1, <4>3
    <3> QED BY <3>1, <3>2
  <2>6. /\ \A i \in DOMAIN u \ DOMAIN rows', j \in DOMAIN rows' : GoesBefore(u, i, j)
        /\ DOMAIN rows' \subseteq DOMAIN u
        /\ DOMAIN u # DOMAIN rows' => Cardinality(DOMAIN rows') = LimitOf[h]
    BY <2>3, <2>5, RetainedOk
  <2>7. ASSUME NEW i \in Gone, NEW j \in Kept
        PROVE  IF rows[j].hidden THEN rows[i].hidden /\ i < j
               ELSE rows[i].hidden \/ i < j
    <3>1. /\ i \in DOMAIN rows /\ j \in DOMAIN rows
          /\ i \in DOMAIN u \ DOMAIN rows' /\ j \in DOMAIN rows'
      BY <2>5 DEF Gone, Kept
    <3>2. rows[i].hidden \in BOOLEAN /\ rows[j].hidden \in BOOLEAN
          /\ u[i].hidden = rows[i].hidden /\ u[j].hidden = rows[j].hidden
      BY <2>3, <2>5, <3>1 DEF IsTable, Row
    <3>3. GoesBefore(u, i, j)
      BY <2>6, <3>1
    <3> QED BY <3>2, <3>3 DEF GoesBefore
  <2>8. DOMAIN u # DOMAIN rows'
    BY <1>2, <2>5 DEF Gone
  <2> QED BY <2>6, <2>7, <2>8
<1>3. IInv /\ [Next]_vars =>
        [\A h \in Handles :
           Ends(h) /\ Job(h).op = "persist" /\ rows' # rows =>
             Cardinality(DOMAIN rows') <= LimitOf[h]]_vars
  BY <1>1
<1>4. IInv /\ [Next]_vars =>
        [~Clearing /\ Gone # {} =>
           /\ \A i \in Gone, j \in Kept :
                IF rows[j].hidden THEN rows[i].hidden /\ i < j
                ELSE rows[i].hidden \/ i < j
           /\ \E h \in Handles : Cardinality(DOMAIN rows') = LimitOf[h]]_vars
  BY <1>2
<1> QED BY <1>3, <1>4, Invariant, PTL DEF Spec, RetentionIsFair, RoomIsMade, RetentionOrder

-----------------------------------------------------------------------------
(* The rows of the viewer.                                                 *)

\* An index is that of one row.
LEMMA IdAtOk ==
  ASSUME NEW S \in SUBSET Ids, NEW n \in Nat
  PROVE  /\ Cardinality(S) \in Nat /\ IsFiniteSet(S)
         /\ n < Cardinality(S) => IdAt(S, n) \in S
         /\ n >= Cardinality(S) => IdAt(S, n) = None
<1> DEFINE newer(i) == {j \in S : j > i}
           f == [i \in S |-> Cardinality(newer(i))]
           T == 0 .. Cardinality(S) - 1
<1>1. S \subseteq Nat /\ IsFiniteSet(S) /\ Cardinality(S) \in Nat
  BY IdsAreFinite, FS_Subset, FS_CardinalityType
<1>2. ASSUME NEW i \in S
      PROVE  IsFiniteSet(newer(i)) /\ f[i] = Cardinality(newer(i)) /\ f[i] \in T /\ f[i] \in Nat
  <2>1. newer(i) \in SUBSET S /\ i \notin newer(i)
    BY <1>1
  <2>2. /\ IsFiniteSet(newer(i)) /\ Cardinality(newer(i)) <= Cardinality(S)
        /\ Cardinality(S) = Cardinality(newer(i)) => S = newer(i)
    BY <1>1, <2>1, FS_Subset
  <2>3. Cardinality(newer(i)) \in Nat
    BY <2>2, FS_CardinalityType
  <2> HIDE DEF newer
  <2> QED BY <1>1, <2>1, <2>2, <2>3
<1>3. ASSUME NEW i \in S, NEW j \in S, i < j
      PROVE  f[j] < f[i]
  <2>1. newer(j) \in SUBSET newer(i) /\ j \in newer(i) /\ j \notin newer(j)
    <3>1. \A k \in S : k > j => k > i
      BY <1>1, <1>3
    <3>2. j > i /\ ~(j > j)
      BY <1>1, <1>3
    <3> HIDE DEF f
    <3> QED BY <3>1, <3>2
  <2>2. f[i] \in Nat /\ f[j] \in Nat /\ f[i] = Cardinality(newer(i))
        /\ f[j] = Cardinality(newer(j)) /\ IsFiniteSet(newer(i))
    <3> HIDE DEF newer, f
    <3> QED BY <1>2
  <2> HIDE DEF newer, f
  <2>3. /\ Cardinality(newer(j)) <= Cardinality(newer(i))
        /\ Cardinality(newer(i)) = Cardinality(newer(j)) => newer(i) = newer(j)
    BY <2>1, <2>2, FS_Subset
  <2> QED BY <2>1, <2>2, <2>3
<1>4. IsFiniteSet(T) /\ Cardinality(T) = Cardinality(S)
  <2>1. 0 \in Int /\ Cardinality(S) - 1 \in Int
    BY <1>1
  <2>2. IsFiniteSet(T) /\ Cardinality(T) = IF 0 > Cardinality(S) - 1 THEN 0
                                           ELSE Cardinality(S) - 1 - 0 + 1
    BY <2>1, FS_Interval
  <2> QED BY <2>2, <1>1
<1>5. f \in Surjection(S, T)
  <2>1. f \in [S -> T]
    <3> HIDE DEF newer, T
    <3> QED BY <1>2
  <2>2. ASSUME NEW i \in S, NEW j \in S, f[i] = f[j]
        PROVE  i = j
    <3>1. i \in Nat /\ j \in Nat /\ f[i] \in Nat
      <4> HIDE DEF f, newer
      <4> QED BY <1>1, <1>2
    <3> HIDE DEF f, newer
    <3> QED BY <2>2, <3>1, <1>3
  <2> HIDE DEF f, T
  <2>3. f \in Injection(S, T)
    BY <2>1, <2>2 DEF Injection, IsInjective
  <2> QED BY <1>1, <1>4, <2>3, FS_Injection
<1>6. ASSUME n < Cardinality(S)
      PROVE  IdAt(S, n) \in S
  <2>1. n \in T
    BY <1>1, <1>6
  <2>2. PICK i \in S : f[i] = n
    <3> HIDE DEF f, T
    <3> QED BY <1>5, <2>1 DEF Surjection
  <2>3. \E j \in S : Cardinality({k \in S : k > j}) = n
    BY <2>2
  <2>4. IdAt(S, n) = CHOOSE j \in S : Cardinality({k \in S : k > j}) = n
    <3>1. ~(n >= Cardinality(S))
      BY <1>1, <1>6
    <3> QED BY <3>1, Zenon DEF IdAt
  <2> QED BY <2>3, <2>4
<1>7. n >= Cardinality(S) => IdAt(S, n) = None
  BY DEF IdAt
<1> QED BY <1>1, <1>6, <1>7

LEMMA IndexOfOk ==
  ASSUME NEW S \in SUBSET Ids, NEW i \in Ids
  PROVE  IndexOf(S, i) \in 0 .. (IF S = {} THEN 0 ELSE Cardinality(S) - 1)
<1>1. S \subseteq Nat /\ IsFiniteSet(S) /\ Cardinality(S) \in Nat
  BY IdsAreFinite, FS_Subset, FS_CardinalityType
<1>2. S # {} => Cardinality(S) # 0
  BY <1>1, FS_EmptySet
<1>3. CASE i \in S
  <2> DEFINE newer == {j \in S : j > i}
  <2>1. newer \in SUBSET S /\ i \notin newer
    BY <1>1
  <2> HIDE DEF newer
  <2>2. /\ IsFiniteSet(newer) /\ Cardinality(newer) <= Cardinality(S)
        /\ Cardinality(S) = Cardinality(newer) => S = newer
    BY <1>1, <2>1, FS_Subset
  <2>3. Cardinality(newer) \in Nat
    BY <2>2, FS_CardinalityType
  <2>4. IndexOf(S, i) = Cardinality(newer)
    BY <1>3 DEF IndexOf, newer
  <2> QED BY <1>1, <1>3, <2>1, <2>2, <2>3, <2>4
<1>4. CASE i \notin S
  BY <1>1, <1>2, <1>4 DEF IndexOf
<1> QED BY <1>3, <1>4

View == [pc : {"apply", "key", "over"}, load : {"loading", "ready", "error"},
         entries : SUBSET Ids, selected : Nat, filtered : BOOLEAN,
         hidden : Seq(Ids), confirm : Ids \cup {None}, listed : SUBSET Ids]

Consistent(v) ==
  /\ v.entries \cap Range(v.hidden) = {}
  /\ v.entries \cup Range(v.hidden) = v.listed
  /\ IsInjective(v.hidden)

LEMMA LastIndexOk ==
  ASSUME NEW v \in View
  PROVE  /\ Shown(v) \in SUBSET Ids /\ Shown(v) \subseteq v.entries
         /\ IsFiniteSet(Shown(v)) /\ Cardinality(Shown(v)) \in Nat
         /\ LastIndex(v) \in Nat
         /\ LastIndex(v) = IF Shown(v) = {} THEN 0 ELSE Cardinality(Shown(v)) - 1
<1>1. Shown(v) \in SUBSET Ids /\ Shown(v) \subseteq v.entries
  BY DEF View, Shown
<1>2. IsFiniteSet(Shown(v)) /\ Cardinality(Shown(v)) \in Nat
  BY <1>1, IdsAreFinite, FS_Subset, FS_CardinalityType
<1>3. Shown(v) # {} => Cardinality(Shown(v)) # 0
  BY <1>2, FS_EmptySet
<1> QED BY <1>1, <1>2, <1>3 DEF LastIndex

LEMMA ChosenOk ==
  ASSUME NEW v \in View
  PROVE  /\ Chosen(v) \in v.entries \cup {None}
         /\ v.entries = {} => Chosen(v) = None
<1>1. /\ v.selected < Cardinality(Shown(v)) => IdAt(Shown(v), v.selected) \in Shown(v)
      /\ v.selected >= Cardinality(Shown(v)) => IdAt(Shown(v), v.selected) = None
  BY LastIndexOk, IdAtOk DEF View
<1>2. Cardinality(Shown(v)) \in Nat /\ v.selected \in Nat /\ Shown(v) \subseteq v.entries
  BY LastIndexOk DEF View
<1>3. None \notin Nat /\ Ids \subseteq Nat
  BY HistoryConstants, IdsAreFinite
<1> QED BY <1>1, <1>2 DEF Chosen

\* The selection is on a row whenever there is one.
Placed(v) == v.selected \in 0 .. LastIndex(v)

LEMMA ClampedOk ==
  ASSUME NEW v \in View
  PROVE  /\ Clamped(v) \in View /\ Placed(Clamped(v))
         /\ Clamped(v) = [v EXCEPT !.selected = Clamped(v).selected]
<1> DEFINE n == IF v.selected <= LastIndex(v) THEN v.selected ELSE LastIndex(v)
<1>1. v.selected \in Nat /\ LastIndex(v) \in Nat
  BY LastIndexOk DEF View
<1>2. n \in 0 .. LastIndex(v)
  BY <1>1
<1>3. Clamped(v) = [v EXCEPT !.selected = n]
  BY DEF Clamped
<1> HIDE DEF n
<1>4. Clamped(v) \in View /\ Clamped(v).selected = n
  BY <1>1, <1>2, <1>3 DEF View
<1>5. LastIndex(Clamped(v)) = LastIndex(v)
  BY <1>3 DEF LastIndex, Shown, View
<1> QED BY <1>2, <1>3, <1>4, <1>5 DEF Placed

\* What can be taken back, when one more can and when one no longer can.
LEMMA MoreHidden ==
  ASSUME NEW s \in Seq(Ids), NEW i \in Ids, i \notin Range(s), IsInjective(s)
  PROVE  /\ Append(s, i) \in Seq(Ids) /\ IsInjective(Append(s, i))
         /\ Range(Append(s, i)) = Range(s) \cup {i}
<1>1. /\ Append(s, i) \in Seq(Ids) /\ Len(s) \in Nat
      /\ DOMAIN s = 1 .. Len(s) /\ DOMAIN Append(s, i) = 1 .. Len(s) + 1
      /\ \A n \in DOMAIN s : Append(s, i)[n] = s[n]
      /\ Append(s, i)[Len(s) + 1] = i
  BY AppendOk
<1> DEFINE t == Append(s, i)
<1> HIDE DEF t
<1>2. t \in Seq(Ids)
  BY <1>1 DEF t
<1>3. /\ DOMAIN t = 1 .. Len(s) + 1 /\ \A n \in 1 .. Len(s) : t[n] = s[n]
      /\ t[Len(s) + 1] = i
  BY <1>1 DEF t
<1>4. \A n \in 1 .. Len(s) : s[n] # i
  BY <1>1 DEF Range
<1>5. IsInjective(t)
  BY <1>1, <1>3, <1>4 DEF IsInjective
<1>6. Range(t) = Range(s) \cup {i}
  <2>1. ASSUME NEW n \in 1 .. Len(s) + 1
        PROVE  t[n] \in Range(s) \cup {i}
    <3>1. n \in 1 .. Len(s) \/ n = Len(s) + 1
      BY <1>1
    <3> QED BY <1>1, <1>3, <3>1 DEF Range
  <2>2. ASSUME NEW x \in Range(s) \cup {i}
        PROVE  x \in Range(t)
    <3>1. CASE x = i
      <4>1. Len(s) + 1 \in DOMAIN t
        BY <1>1, <1>3
      <4> QED BY <1>3, <3>1, <4>1 DEF Range
    <3>2. CASE x \in Range(s)
      <4>1. PICK n \in 1 .. Len(s) : x = s[n]
        BY <1>1, <3>2 DEF Range
      <4>2. n \in DOMAIN t /\ t[n] = x
        BY <1>1, <1>3, <4>1
      <4> QED BY <4>2 DEF Range
    <3> QED BY <3>1, <3>2
  <2> QED BY <1>3, <2>1, <2>2 DEF Range
<1> QED BY <1>2, <1>5, <1>6 DEF t

LEMMA LastHidden ==
  ASSUME NEW s \in Seq(Ids), s # <<>>, IsInjective(s)
  PROVE  /\ Front(s) \in Seq(Ids) /\ IsInjective(Front(s))
         /\ Last(s) \in Range(s) /\ Last(s) \in Ids
         /\ Range(Front(s)) = Range(s) \ {Last(s)}
<1> DEFINE t == Front(s)
<1>1. Len(s) \in Nat \ {0} /\ DOMAIN s = 1 .. Len(s) /\ Len(s) \in DOMAIN s
      /\ Last(s) = s[Len(s)] /\ \A n \in 1 .. Len(s) : s[n] \in Ids
  BY DEF Last
<1>2. t \in Seq(Ids) /\ DOMAIN t = 1 .. Len(s) - 1 /\ \A n \in 1 .. Len(s) - 1 : t[n] = s[n]
  BY <1>1 DEF Front
<1> HIDE DEF t
<1>3. IsInjective(t)
  BY <1>1, <1>2 DEF IsInjective
<1>4. \A n \in 1 .. Len(s) - 1 : s[n] # Last(s)
  BY <1>1 DEF IsInjective
<1>5. Range(t) = Range(s) \ {Last(s)}
  <2>1. \A x \in Range(t) : x \in Range(s) \ {Last(s)}
    BY <1>1, <1>2, <1>4 DEF Range
  <2>2. ASSUME NEW x \in Range(s) \ {Last(s)}
        PROVE  x \in Range(t)
    <3>1. PICK n \in 1 .. Len(s) : x = s[n]
      BY <1>1 DEF Range
    <3>2. n \in 1 .. Len(s) - 1
      BY <1>1, <3>1
    <3> QED BY <1>2, <3>1, <3>2 DEF Range
  <2> QED BY <2>1, <2>2
<1> QED BY <1>1, <1>2, <1>3, <1>5 DEF t, Range

LEMMA FewerHidden ==
  ASSUME NEW s \in Seq(Ids), NEW i \in Range(s), IsInjective(s)
  PROVE  /\ RemoveFirst(s, i) \in Seq(Ids) /\ IsInjective(RemoveFirst(s, i))
         /\ Range(RemoveFirst(s, i)) = Range(s) \ {i}
<1> DEFINE I == {n \in 1 .. Len(s) : s[n] = i}
<1>1. Len(s) \in Nat /\ DOMAIN s = 1 .. Len(s) /\ \A n \in 1 .. Len(s) : s[n] \in Ids
  OBVIOUS
<1>2. PICK k \in 1 .. Len(s) : s[k] = i
  BY <1>1 DEF Range
<1>3. \A n \in 1 .. Len(s) : s[n] = i <=> n = k
  BY <1>1, <1>2 DEF IsInjective
<1>4. I = {k}
  BY <1>2, <1>3
<1>5. Min(I) = k
  <2> HIDE DEF I
  <2>1. k \in I /\ (\A y \in I : k <= y) /\ \A x \in I : x = k
    BY <1>2, <1>4
  <2> QED BY <2>1, Zenon DEF Min
<1>6. SelectInSeq(s, LAMBDA v : v = i) = k
  BY <1>4, <1>5 DEF SelectInSeq
<1>7. RemoveFirst(s, i) = RemoveAt(s, k)
  BY <1>2, <1>6 DEF RemoveFirst
<1> DEFINE t == SubSeq(s, 1, k - 1) \o SubSeq(s, k + 1, Len(s))
<1>8. RemoveFirst(s, i) = t
  BY <1>7 DEF RemoveAt
<1>9. /\ t \in Seq(Ids) /\ DOMAIN t = 1 .. Len(s) - 1
      /\ \A n \in 1 .. Len(s) - 1 : t[n] = IF n < k THEN s[n] ELSE s[n + 1]
  <2> DEFINE a == SubSeq(s, 1, k - 1)
             b == SubSeq(s, k + 1, Len(s))
  <2>1. /\ k - 1 \in Int /\ k + 1 \in Int /\ Len(s) \in Int /\ 1 \in Int
        /\ \A n \in 1 .. k - 1 : s[n] \in Ids
        /\ \A n \in k + 1 .. Len(s) : s[n] \in Ids
    BY <1>1, <1>2
  <2>2. /\ a \in Seq(Ids) /\ Len(a) = IF 1 <= k - 1 THEN k - 1 - 1 + 1 ELSE 0
        /\ \A n \in 1 .. k - 1 - 1 + 1 : a[n] = s[1 + n - 1]
    BY <2>1, SubSeqProperties
  <2>3. /\ b \in Seq(Ids) /\ Len(b) = IF k + 1 <= Len(s) THEN Len(s) - (k + 1) + 1 ELSE 0
        /\ \A n \in 1 .. Len(s) - (k + 1) + 1 : b[n] = s[k + 1 + n - 1]
    BY <2>1, SubSeqProperties
  <2> HIDE DEF a, b
  <2>4. /\ a \o b \in Seq(Ids) /\ Len(a \o b) = Len(a) + Len(b)
        /\ \A n \in 1 .. Len(a) + Len(b) :
             (a \o b)[n] = IF n <= Len(a) THEN a[n] ELSE b[n - Len(a)]
    BY <2>2, <2>3, ConcatProperties
  <2> DEFINE c == a \o b
  <2> HIDE DEF c
  <2>5. Len(a) = k - 1 /\ Len(b) = Len(s) - k
    <3>1. k \in Nat /\ 1 <= k /\ k <= Len(s) /\ Len(s) \in Nat
      BY <1>1
    <3>2. Len(a) = IF 1 <= k - 1 THEN k - 1 - 1 + 1 ELSE 0
      BY <2>2
    <3>3. Len(b) = IF k + 1 <= Len(s) THEN Len(s) - (k + 1) + 1 ELSE 0
      BY <2>3
    <3>4. Len(a) = k - 1
      BY <3>1, <3>2
    <3>5. Len(b) = Len(s) - k
      BY <3>1, <3>3
    <3> QED BY <3>4, <3>5
  <2>6. DOMAIN c = 1 .. Len(s) - 1 /\ c \in Seq(Ids)
    <3>1. c \in Seq(Ids)
      BY <2>4 DEF c
    <3>2. Len(c) = Len(s) - 1
      BY <1>1, <2>4, <2>5 DEF c
    <3> HIDE DEF c
    <3> QED BY <3>1, <3>2
  <2>7. ASSUME NEW n \in 1 .. Len(s) - 1
        PROVE  c[n] = IF n < k THEN s[n] ELSE s[n + 1]
    <3>1. c[n] = IF n <= k - 1 THEN a[n] ELSE b[n - (k - 1)]
      BY <1>1, <1>2, <2>4, <2>5 DEF c
    <3>2. CASE n < k
      <4>1. n \in 1 .. k - 1 - 1 + 1 /\ 1 + n - 1 = n /\ n <= k - 1
        BY <1>1, <1>2, <3>2
      <4> QED BY <2>2, <3>1, <3>2, <4>1
    <3>3. CASE ~(n < k)
      <4>1. /\ n - (k - 1) \in 1 .. Len(s) - (k + 1) + 1 /\ ~(n <= k - 1)
            /\ k + 1 + (n - (k - 1)) - 1 = n + 1
        BY <1>1, <1>2, <3>3
      <4> QED BY <2>3, <3>1, <3>3, <4>1
    <3> QED BY <3>2, <3>3
  <2> QED BY <2>6, <2>7 DEF a, b, c
<1> HIDE DEF t, I
<1>10. IsInjective(t)
  <2> DEFINE at(n) == IF n < k THEN n ELSE n + 1
  <2>1. ASSUME NEW m \in 1 .. Len(s) - 1, NEW n \in 1 .. Len(s) - 1, t[m] = t[n]
        PROVE  m = n
    <3>1. s[at(m)] = s[at(n)]
      BY <1>9, <2>1
    <3>2. at(m) \in DOMAIN s /\ at(n) \in DOMAIN s
      BY <1>1
    <3>3. at(m) = at(n)
      <4> HIDE DEF at
      <4> QED BY <3>1, <3>2 DEF IsInjective
    <3> QED BY <1>1, <3>3
  <2> QED BY <1>9, <2>1 DEF IsInjective
<1>11. Range(t) = Range(s) \ {i}
  <2>1. ASSUME NEW n \in 1 .. Len(s) - 1
        PROVE  t[n] \in Range(s) \ {i}
    <3>1. CASE n < k
      BY <1>1, <1>2, <1>3, <1>9, <3>1 DEF Range
    <3>2. CASE ~(n < k)
      BY <1>1, <1>2, <1>3, <1>9, <3>2 DEF Range
    <3> QED BY <3>1, <3>2
  <2>2. ASSUME NEW x \in Range(s) \ {i}
        PROVE  x \in Range(t)
    <3>1. PICK n \in 1 .. Len(s) : x = s[n] /\ n # k
      BY <1>1, <1>2 DEF Range
    <3>2. CASE n < k
      <4>1. n \in DOMAIN t /\ t[n] = x
        BY <1>1, <1>2, <1>9, <3>1, <3>2
      <4> QED BY <4>1 DEF Range
    <3>3. CASE ~(n < k)
      <4>1. n - 1 \in DOMAIN t /\ t[n - 1] = x
        BY <1>1, <1>2, <1>9, <3>1, <3>3
      <4> QED BY <4>1 DEF Range
    <3> QED BY <3>2, <3>3
  <2> QED BY <1>9, <2>1, <2>2 DEF Range
<1> QED BY <1>8, <1>9, <1>10, <1>11

GoodView(v) == v \in View /\ Placed(v) /\ Consistent(v)

\* The view w is v but for its rows and its selection.
SameRest(v, w) ==
  /\ w.pc = v.pc /\ w.load = v.load /\ w.confirm = v.confirm
  /\ w.listed = v.listed /\ w.filtered = v.filtered

LEMMA TakenOutOk ==
  ASSUME NEW v \in View, Consistent(v), NEW i \in v.entries
  PROVE  /\ GoodView(TakenOut(v, i)) /\ SameRest(v, TakenOut(v, i))
         /\ TakenOut(v, i).entries = v.entries \ {i}
         /\ Range(TakenOut(v, i).hidden) = Range(v.hidden) \cup {i}
<1> DEFINE w == [v EXCEPT !.entries = @ \ {i}, !.hidden = Append(@, i)]
           n == Clamped(w).selected
<1>1. v.hidden \in Seq(Ids) /\ i \in Ids /\ i \notin Range(v.hidden) /\ IsInjective(v.hidden)
  BY DEF View, Consistent
<1>2. /\ Append(v.hidden, i) \in Seq(Ids) /\ IsInjective(Append(v.hidden, i))
      /\ Range(Append(v.hidden, i)) = Range(v.hidden) \cup {i}
  BY <1>1, MoreHidden
<1>3. /\ w \in View /\ w.entries = v.entries \ {i} /\ w.hidden = Append(v.hidden, i)
      /\ SameRest(v, w)
  BY <1>2 DEF View, SameRest
<1> HIDE DEF w
<1>4. /\ Clamped(w) \in View /\ Placed(Clamped(w))
      /\ Clamped(w) = [w EXCEPT !.selected = n]
  BY <1>3, ClampedOk
<1> HIDE DEF n
<1>5. TakenOut(v, i) = Clamped(w)
  BY DEF TakenOut, w
<1>6. /\ Clamped(w).entries = w.entries /\ Clamped(w).hidden = w.hidden
      /\ Clamped(w).pc = w.pc /\ Clamped(w).load = w.load /\ Clamped(w).confirm = w.confirm
      /\ Clamped(w).listed = w.listed /\ Clamped(w).filtered = w.filtered
  BY <1>3, <1>4 DEF View
<1>7. Consistent(Clamped(w))
  BY <1>1, <1>2, <1>3, <1>6 DEF Consistent, SameRest
<1>8. SameRest(v, Clamped(w))
  BY <1>3, <1>6 DEF SameRest
<1> QED BY <1>2, <1>3, <1>4, <1>5, <1>6, <1>7, <1>8 DEF GoodView

LEMMA LoadedOk ==
  ASSUME NEW v \in View, v.hidden = <<>>, NEW ids \in SUBSET Ids
  PROVE  /\ GoodView(Loaded(v, ids))
         /\ Loaded(v, ids).load = "ready" /\ Loaded(v, ids).listed = ids
         /\ Loaded(v, ids).hidden = <<>>
         /\ Loaded(v, ids).pc = v.pc /\ Loaded(v, ids).confirm = v.confirm
<1> DEFINE w == [v EXCEPT !.entries = ids, !.load = "ready", !.listed = ids]
           n == Clamped(w).selected
<1>1. /\ w \in View /\ w.entries = ids /\ w.hidden = <<>> /\ w.load = "ready"
      /\ w.listed = ids /\ w.pc = v.pc /\ w.confirm = v.confirm
  BY DEF View
<1> HIDE DEF w
<1>2. /\ Clamped(w) \in View /\ Placed(Clamped(w))
      /\ Clamped(w) = [w EXCEPT !.selected = n]
  BY <1>1, ClampedOk
<1> HIDE DEF n
<1>3. Loaded(v, ids) = Clamped(w)
  BY DEF Loaded, w
<1>4. /\ Clamped(w).entries = ids /\ Clamped(w).hidden = <<>> /\ Clamped(w).load = "ready"
      /\ Clamped(w).listed = ids /\ Clamped(w).pc = v.pc /\ Clamped(w).confirm = v.confirm
  BY <1>1, <1>2 DEF View
<1>5. DOMAIN <<>> = {} /\ Range(<<>>) = {} /\ IsInjective(<<>>)
  <2>1. DOMAIN <<>> = {}
    OBVIOUS
  <2> QED BY <2>1 DEF Range, IsInjective
<1>6. Consistent(Clamped(w))
  BY <1>4, <1>5 DEF Consistent
<1> QED BY <1>2, <1>3, <1>4, <1>6 DEF GoodView

\* A row that comes back leaves the selection where it is.
LEMMA StillPlaced ==
  ASSUME NEW v \in View, NEW w \in View, Placed(v), w.selected = v.selected,
         w.filtered = v.filtered, v.entries \subseteq w.entries
  PROVE  Placed(w)
<1>1. Shown(v) \subseteq Shown(w)
  BY DEF Shown
<1>2. Cardinality(Shown(v)) <= Cardinality(Shown(w))
  BY <1>1, LastIndexOk, FS_Subset
<1>3. LastIndex(v) <= LastIndex(w)
  BY <1>1, <1>2, LastIndexOk
<1>4. v.selected \in 0 .. LastIndex(v) /\ LastIndex(v) \in Nat /\ LastIndex(w) \in Nat
  BY LastIndexOk DEF Placed
<1> QED BY <1>3, <1>4 DEF Placed

LEMMA RollbackHideOk ==
  ASSUME NEW v, GoodView(v), NEW i
  PROVE  /\ GoodView(RollbackHide(v, i)) /\ SameRest(v, RollbackHide(v, i))
         /\ Range(RollbackHide(v, i).hidden) = Range(v.hidden) \ {i}
<1> DEFINE w == [v EXCEPT !.hidden = RemoveFirst(@, i), !.entries = @ \cup {i}]
<1>1. v.hidden \in Seq(Ids) /\ v \in View /\ Placed(v) /\ Consistent(v)
  BY DEF GoodView, View
<1>2. i \in Range(v.hidden) <=> \E n \in DOMAIN v.hidden : v.hidden[n] = i
  BY DEF Range
<1>3. CASE i \in Range(v.hidden)
  <2>1. /\ RemoveFirst(v.hidden, i) \in Seq(Ids) /\ IsInjective(RemoveFirst(v.hidden, i))
        /\ Range(RemoveFirst(v.hidden, i)) = Range(v.hidden) \ {i}
    BY <1>1, <1>3, FewerHidden DEF Consistent
  <2>2. i \in Ids
    BY <1>1, <1>3 DEF Consistent, View
  <2>3. /\ w \in View /\ w.entries = v.entries \cup {i} /\ w.hidden = RemoveFirst(v.hidden, i)
        /\ w.selected = v.selected /\ SameRest(v, w)
    BY <1>1, <2>1, <2>2 DEF View, SameRest
  <2>4. RollbackHide(v, i) = w
    BY <1>2, <1>3 DEF RollbackHide
  <2> HIDE DEF w
  <2>5. Placed(w)
    BY <1>1, <2>3, StillPlaced DEF SameRest
  <2>6. Consistent(w)
    BY <1>1, <1>3, <2>1, <2>3 DEF Consistent, SameRest
  <2> QED BY <2>1, <2>3, <2>4, <2>5, <2>6 DEF GoodView
<1>4. CASE i \notin Range(v.hidden)
  <2>1. RollbackHide(v, i) = v
    BY <1>2, <1>4 DEF RollbackHide
  <2> QED BY <1>4, <2>1 DEF SameRest
<1> QED BY <1>3, <1>4

LEMMA RollbackUnhideOk ==
  ASSUME NEW v, GoodView(v), NEW i
  PROVE  /\ GoodView(RollbackUnhide(v, i)) /\ SameRest(v, RollbackUnhide(v, i))
         /\ Range(RollbackUnhide(v, i).hidden) =
              IF i \in v.entries THEN Range(v.hidden) \cup {i} ELSE Range(v.hidden)
<1>1. CASE i \in v.entries
  BY <1>1, TakenOutOk DEF GoodView, RollbackUnhide
<1>2. CASE i \notin v.entries
  BY <1>2 DEF RollbackUnhide, SameRest
<1> QED BY <1>1, <1>2

\* Undo.
TakenBack(v, i) == [v EXCEPT !.hidden = Front(@), !.entries = @ \cup {i}]

LEMMA TakenBackOk ==
  ASSUME NEW v, GoodView(v), v.hidden # <<>>, NEW i, i = Last(v.hidden), NEW w,
         w = [TakenBack(v, i) EXCEPT !.selected = IndexOf(Shown(TakenBack(v, i)), i)]
  PROVE  /\ GoodView(w) /\ SameRest(v, w)
         /\ i \in Range(v.hidden) /\ i \in Ids /\ Range(w.hidden) = Range(v.hidden) \ {i}
<1> DEFINE u == TakenBack(v, i)
           n == IndexOf(Shown(u), i)
<1>1. v.hidden \in Seq(Ids) /\ v \in View /\ Consistent(v)
  BY DEF GoodView, View
<1>2. /\ Front(v.hidden) \in Seq(Ids) /\ IsInjective(Front(v.hidden))
      /\ i \in Range(v.hidden) /\ i \in Ids
      /\ Range(Front(v.hidden)) = Range(v.hidden) \ {i}
  BY <1>1, LastHidden DEF Consistent
<1>3. /\ u \in View /\ u.entries = v.entries \cup {i} /\ u.hidden = Front(v.hidden)
      /\ SameRest(v, u)
  BY <1>1, <1>2 DEF View, SameRest, TakenBack
<1> HIDE DEF u
<1>4. n \in 0 .. LastIndex(u) /\ LastIndex(u) \in Nat
  BY <1>2, <1>3, IndexOfOk, LastIndexOk
<1> HIDE DEF n
<1>5. w = [u EXCEPT !.selected = n]
  BY DEF u, n
<1>6. w \in View /\ w.selected = n
  BY <1>3, <1>4, <1>5 DEF View
<1>7. /\ w.entries = u.entries /\ w.hidden = u.hidden /\ w.pc = u.pc /\ w.load = u.load
      /\ w.confirm = u.confirm /\ w.listed = u.listed /\ w.filtered = u.filtered
  BY <1>3, <1>5 DEF View
<1>8. Placed(w)
  BY <1>4, <1>6, <1>7 DEF Placed, LastIndex, Shown
<1>9. Consistent(w)
  BY <1>1, <1>2, <1>3, <1>7 DEF Consistent, SameRest
<1> QED BY <1>2, <1>3, <1>6, <1>7, <1>8, <1>9 DEF GoodView, SameRest

-----------------------------------------------------------------------------
(* The line of commands: replies, the one at work, commands.  An entry     *)
(* says what is asked and what has become of it.                           *)

CommandOps == {"load", "jump"} \cup Mutations

\* What is not done yet is behind what is.
IsLine(L, N) ==
  /\ N \in Nat /\ DOMAIN L = 1 .. N
  /\ \A n \in 1 .. N : L[n].op \in CommandOps /\ L[n].st \in {"ok", "failed", "todo"}
  /\ \A m, n \in 1 .. N : m < n /\ L[m].st = "todo" => L[n].st = "todo"

Edits(L, i) == {n \in DOMAIN L : L[n].op \in Mutations /\ L[n].id = i}

\* An edit failed and another is behind it: the row is in doubt, or will be.
Doomed(L, i) == \E m, n \in Edits(L, i) : m < n /\ L[m].st = "failed"

\* The list shows what the last edit makes of the row.
LastIsSeen(L, i, seen) ==
  \A n \in Edits(L, i) : (\A m \in Edits(L, i) : m <= n) => L[n].op = seen

\* Hide and Undo take turns.
Alternate(L, i) ==
  \A m, n \in Edits(L, i) :
    /\ m < n
    /\ L[m].st = "todo"
    /\ \A k \in Edits(L, i) : k <= m \/ n <= k
    => L[m].op # L[n].op

\* The next edit changes the row.
NextTurnsRow(L, i, row) ==
  \A n \in Edits(L, i) :
    L[n].st = "todo" /\ (\A m \in Edits(L, i) : m < n => L[m].st # "todo") => L[n].op # row

\* With nothing left to do, only an edit that failed keeps row and list apart.
DoneAgrees(L, i, row, seen) ==
  (\A n \in Edits(L, i) : L[n].st # "todo") =>
    IF \E n \in Edits(L, i) : L[n].st = "failed" THEN row # seen ELSE row = seen

Predicted(L, i, row, seen) ==
  \/ Doomed(L, i)
  \/ /\ LastIsSeen(L, i, seen)
     /\ Alternate(L, i)
     /\ NextTurnsRow(L, i, row)
     /\ DoneAgrees(L, i, row, seen)

\* A command is sent.
LEMMA LineGrows ==
  ASSUME NEW L, NEW N, IsLine(L, N), NEW M, IsLine(M, N + 1),
         \A n \in 1 .. N : M[n] = L[n], M[N + 1].st = "todo",
         NEW i, NEW row \in Mutations, NEW seen \in Mutations, Predicted(L, i, row, seen)
  PROVE  /\ N + 1 \notin Edits(M, i) => Predicted(M, i, row, seen)
         /\ N + 1 \in Edits(M, i) /\ M[N + 1].op # seen => Predicted(M, i, row, M[N + 1].op)
<1>1. N \in Nat /\ DOMAIN L = 1 .. N /\ DOMAIN M = 1 .. N + 1
      /\ \A n \in 1 .. N + 1 : n \in 1 .. N \/ n = N + 1
  BY DEF IsLine
<1>2. \A n \in 1 .. N : n \in Edits(M, i) <=> n \in Edits(L, i)
  BY <1>1 DEF Edits
<1>3. Edits(L, i) \subseteq 1 .. N /\ Edits(M, i) \subseteq 1 .. N + 1
  BY <1>1 DEF Edits
<1>4. Doomed(L, i) => Doomed(M, i)
  BY <1>1, <1>2, <1>3 DEF Doomed
<1>5. CASE N + 1 \notin Edits(M, i)
  <2>1. Edits(M, i) = Edits(L, i)
    BY <1>1, <1>2, <1>3, <1>5
  <2>2. \A n \in Edits(L, i) : M[n] = L[n]
    BY <1>3
  <2> QED BY <1>4, <1>5, <2>1, <2>2
          DEF Predicted, LastIsSeen, Alternate, NextTurnsRow, DoneAgrees
<1>6. CASE N + 1 \in Edits(M, i) /\ M[N + 1].op # seen /\ ~Doomed(M, i)
  <2>1. Edits(M, i) = Edits(L, i) \cup {N + 1}
    BY <1>1, <1>2, <1>3, <1>6
  <2>2. \A n \in Edits(L, i) : M[n] = L[n] /\ n < N + 1 /\ n \in Nat
    BY <1>1, <1>3
  <2>3. /\ LastIsSeen(L, i, seen) /\ Alternate(L, i)
        /\ NextTurnsRow(L, i, row) /\ DoneAgrees(L, i, row, seen)
    BY <1>4, <1>6 DEF Predicted
  <2>4. \A n \in Edits(L, i) : L[n].st # "failed"
    BY <1>6, <2>1, <2>2 DEF Doomed
  <2>5. LastIsSeen(M, i, M[N + 1].op)
    BY <1>1, <2>1, <2>2 DEF LastIsSeen
  <2>6. Alternate(M, i)
    <3> SUFFICES ASSUME NEW m \in Edits(M, i), NEW n \in Edits(M, i), m < n,
                        M[m].st = "todo", \A k \in Edits(M, i) : k <= m \/ n <= k
                 PROVE  M[m].op # M[n].op
      BY DEF Alternate
    <3>1. m \in Edits(L, i)
      BY <1>1, <2>1, <2>2
    <3>2. CASE n \in Edits(L, i)
      BY <2>1, <2>2, <2>3, <3>1, <3>2 DEF Alternate
    <3>3. CASE n = N + 1
      <4>1. \A k \in Edits(L, i) : k <= m
        BY <1>1, <2>1, <2>2, <3>3
      <4>2. L[m].op = seen
        BY <2>3, <3>1, <4>1 DEF LastIsSeen
      <4> QED BY <1>6, <2>2, <3>1, <3>3, <4>2
    <3> QED BY <2>1, <3>2, <3>3
  <2>7. NextTurnsRow(M, i, row)
    <3> SUFFICES ASSUME NEW n \in Edits(M, i), M[n].st = "todo",
                        \A m \in Edits(M, i) : m < n => M[m].st # "todo"
                 PROVE  M[n].op # row
      BY DEF NextTurnsRow
    <3>1. CASE n \in Edits(L, i)
      BY <2>1, <2>2, <2>3, <3>1 DEF NextTurnsRow
    <3>2. CASE n = N + 1
      <4>1. \A m \in Edits(L, i) : L[m].st # "todo"
        BY <2>1, <2>2, <3>2
      <4>2. row = seen
        BY <2>3, <2>4, <4>1 DEF DoneAgrees
      <4> QED BY <1>6, <3>2, <4>2
    <3> QED BY <2>1, <3>1, <3>2
  <2>8. DoneAgrees(M, i, row, M[N + 1].op)
    BY <2>1 DEF DoneAgrees
  <2> QED BY <1>6, <2>5, <2>6, <2>7, <2>8 DEF Predicted
<1> QED BY <1>5, <1>6 DEF Predicted

\* A command is done, or given up.
LEMMA LineMoves ==
  ASSUME NEW L, NEW N, IsLine(L, N), NEW M, IsLine(M, N),
         NEW k \in 1 .. N, L[k].st = "todo", \A n \in 1 .. N : n < k => L[n].st # "todo",
         \A n \in 1 .. N : n # k => M[n] = L[n],
         M[k].op = L[k].op, M[k].id = L[k].id, M[k].st \in {"ok", "failed"},
         NEW i, NEW row \in Mutations, NEW seen \in Mutations, Predicted(L, i, row, seen)
  PROVE  /\ k \notin Edits(L, i) => Predicted(M, i, row, seen)
         /\ k \in Edits(L, i) /\ M[k].st = "failed" => Predicted(M, i, row, seen)
         /\ k \in Edits(L, i) /\ M[k].st = "ok" => Predicted(M, i, L[k].op, seen)
<1>1. N \in Nat /\ DOMAIN L = 1 .. N /\ DOMAIN M = 1 .. N
  BY DEF IsLine
<1>2. Edits(M, i) = Edits(L, i) /\ Edits(L, i) \subseteq 1 .. N
      /\ \A n \in Edits(L, i) : n \in Nat
  BY <1>1 DEF Edits
<1>3. \A n \in Edits(L, i) : (n # k => M[n] = L[n]) /\ M[n].op = L[n].op
  BY <1>2
<1>4. Doomed(L, i) => Doomed(M, i)
  BY <1>2, <1>3 DEF Doomed
<1>5. CASE k \notin Edits(L, i)
  <2>1. \A n \in Edits(L, i) : M[n] = L[n]
    BY <1>2, <1>5
  <2> QED BY <1>4, <1>5, <1>2, <2>1
          DEF Predicted, LastIsSeen, Alternate, NextTurnsRow, DoneAgrees
<1>6. CASE k \in Edits(L, i) /\ ~Doomed(M, i)
  <2>1. /\ LastIsSeen(L, i, seen) /\ Alternate(L, i)
        /\ NextTurnsRow(L, i, row) /\ DoneAgrees(L, i, row, seen)
    BY <1>4, <1>6 DEF Predicted
  <2>2. \A n \in Edits(L, i) : n > k => L[n].st = "todo"
    BY <1>2 DEF IsLine
  <2>3. \A n \in Edits(L, i) : n < k => L[n].st # "todo"
    BY <1>2
  <2>4. LastIsSeen(M, i, seen)
    BY <1>2, <1>3, <2>1 DEF LastIsSeen
  <2>5. Alternate(M, i)
    BY <1>2, <1>3, <2>1 DEF Alternate
  <2>6. L[k].op # row /\ L[k].op \in Mutations
    BY <1>6, <2>1, <2>3 DEF NextTurnsRow, Edits
  <2>7. ASSUME NEW n \in Edits(M, i), M[n].st = "todo",
               \A m \in Edits(M, i) : m < n => M[m].st # "todo"
        PROVE  n > k /\ L[n].op # L[k].op
    <3>1. n # k /\ n \in Edits(L, i) /\ L[n].st = "todo"
      BY <1>2, <1>3, <2>7
    <3>2. n > k
      BY <1>2, <2>3, <3>1
    <3>3. \A j \in Edits(L, i) : j <= k \/ n <= j
      BY <1>2, <1>3, <2>2, <2>7
    <3> QED BY <1>6, <2>1, <3>1, <3>2, <3>3 DEF Alternate
  <2>8. CASE M[k].st = "ok"
    <3>1. NextTurnsRow(M, i, L[k].op)
      BY <1>2, <1>3, <2>7 DEF NextTurnsRow
    <3>2. DoneAgrees(M, i, L[k].op, seen)
      <4> SUFFICES ASSUME \A n \in Edits(M, i) : M[n].st # "todo"
                   PROVE  (\A n \in Edits(M, i) : M[n].st # "failed") /\ L[k].op = seen
        BY DEF DoneAgrees
      <4>1. \A n \in Edits(L, i) : n <= k
        BY <1>2, <1>3, <2>2
      <4>2. L[k].op = seen
        BY <1>6, <2>1, <4>1 DEF LastIsSeen
      <4>3. ASSUME NEW n \in Edits(M, i), M[n].st = "failed"
            PROVE  FALSE
        <5>1. n < k
          BY <1>2, <2>8, <4>1, <4>3
        <5> QED BY <1>2, <1>6, <4>3, <5>1 DEF Doomed
      <4> QED BY <4>2, <4>3
    <3> QED BY <1>6, <2>4, <2>5, <2>8, <3>1, <3>2 DEF Predicted
  <2>9. CASE M[k].st = "failed"
    <3>1. \A n \in Edits(L, i) : n <= k
      BY <1>2, <1>6, <2>9 DEF Doomed
    <3>2. NextTurnsRow(M, i, row)
      BY <1>2, <2>7, <3>1 DEF NextTurnsRow
    <3>3. L[k].op = seen
      BY <1>6, <2>1, <3>1 DEF LastIsSeen
    <3>4. DoneAgrees(M, i, row, seen)
      BY <1>2, <1>6, <2>6, <2>9, <3>3 DEF DoneAgrees
    <3> QED BY <1>6, <2>4, <2>5, <2>9, <3>2, <3>4 DEF Predicted
  <2> QED BY <2>8, <2>9
<1> QED BY <1>5, <1>6 DEF Predicted

\* A reply is applied: one of another row or of an edit that succeeded.
LEMMA LineShrinks ==
  ASSUME NEW L, NEW N, IsLine(L, N), N > 0, NEW M, IsLine(M, N - 1),
         \A n \in 1 .. N - 1 : M[n] = L[n + 1], L[1].st # "todo",
         NEW i, NEW row \in Mutations, NEW seen \in Mutations, Predicted(L, i, row, seen),
         ~(1 \in Edits(L, i) /\ L[1].st = "failed")
  PROVE  Predicted(M, i, row, seen)
<1>1. N \in Nat /\ DOMAIN L = 1 .. N /\ DOMAIN M = 1 .. N - 1
  BY DEF IsLine
<1>2. Edits(L, i) \subseteq 1 .. N /\ Edits(M, i) \subseteq 1 .. N - 1
  BY <1>1 DEF Edits
<1>3. \A n \in Edits(M, i) : n \in Nat /\ n + 1 \in Edits(L, i) /\ M[n] = L[n + 1]
  BY <1>1 DEF Edits
<1>4. \A n \in Edits(L, i) : n \in Nat /\ (n = 1 \/ (n - 1 \in Edits(M, i) /\ M[n - 1] = L[n]))
  <2> SUFFICES ASSUME NEW n \in Edits(L, i), n # 1
               PROVE  n - 1 \in Edits(M, i) /\ M[n - 1] = L[n]
    BY <1>1, <1>2
  <2>1. n - 1 \in 1 .. N - 1 /\ n - 1 + 1 = n
    BY <1>1, <1>2
  <2> QED BY <1>1, <2>1 DEF Edits
<1>5. Doomed(L, i) => Doomed(M, i)
  <2> SUFFICES ASSUME NEW m \in Edits(L, i), NEW n \in Edits(L, i), m < n, L[m].st = "failed"
               PROVE  Doomed(M, i)
    BY DEF Doomed
  <2>1. m # 1 /\ n # 1
    BY <1>1, <1>2
  <2>2. /\ m - 1 \in Edits(M, i) /\ n - 1 \in Edits(M, i) /\ m - 1 < n - 1
        /\ M[m - 1].st = "failed"
    BY <1>4, <2>1
  <2> QED BY <2>2 DEF Doomed
<1>6. CASE ~Doomed(M, i)
  <2>1. /\ LastIsSeen(L, i, seen) /\ Alternate(L, i)
        /\ NextTurnsRow(L, i, row) /\ DoneAgrees(L, i, row, seen)
    BY <1>5, <1>6 DEF Predicted
  <2>2. LastIsSeen(M, i, seen)
    <3> SUFFICES ASSUME NEW n \in Edits(M, i), \A m \in Edits(M, i) : m <= n
                 PROVE  M[n].op = seen
      BY DEF LastIsSeen
    <3>1. \A m \in Edits(L, i) : m <= n + 1
      BY <1>3, <1>4
    <3> QED BY <1>3, <2>1, <3>1 DEF LastIsSeen
  <2>3. Alternate(M, i)
    <3> SUFFICES ASSUME NEW m \in Edits(M, i), NEW n \in Edits(M, i), m < n,
                        M[m].st = "todo", \A k \in Edits(M, i) : k <= m \/ n <= k
                 PROVE  M[m].op # M[n].op
      BY DEF Alternate
    <3>1. \A k \in Edits(L, i) : k <= m + 1 \/ n + 1 <= k
      BY <1>3, <1>4
    <3>2. m + 1 < n + 1 /\ m + 1 \in Edits(L, i) /\ n + 1 \in Edits(L, i)
          /\ L[m + 1] = M[m] /\ L[n + 1] = M[n]
      BY <1>3
    <3> QED BY <2>1, <3>1, <3>2 DEF Alternate
  <2>4. NextTurnsRow(M, i, row)
    <3> SUFFICES ASSUME NEW n \in Edits(M, i), M[n].st = "todo",
                        \A m \in Edits(M, i) : m < n => M[m].st # "todo"
                 PROVE  M[n].op # row
      BY DEF NextTurnsRow
    <3>1. \A m \in Edits(L, i) : m < n + 1 => L[m].st # "todo"
      BY <1>3, <1>4
    <3> QED BY <1>3, <2>1, <3>1 DEF NextTurnsRow
  <2>5. DoneAgrees(M, i, row, seen)
    <3> SUFFICES ASSUME \A n \in Edits(M, i) : M[n].st # "todo"
                 PROVE  IF \E n \in Edits(M, i) : M[n].st = "failed"
                        THEN row # seen ELSE row = seen
      BY DEF DoneAgrees
    <3>1. \A n \in Edits(L, i) : L[n].st # "todo"
      BY <1>4
    <3>2. (\E n \in Edits(M, i) : M[n].st = "failed") <=> \E n \in Edits(L, i) : L[n].st = "failed"
      BY <1>3, <1>4
    <3> QED BY <2>1, <3>1, <3>2 DEF DoneAgrees
  <2> QED BY <2>2, <2>3, <2>4, <2>5 DEF Predicted
<1> QED BY <1>6 DEF Predicted

\* Or that of an edit that failed, with no other about the row under way.
LEMMA LineRollsBack ==
  ASSUME NEW L, NEW N, IsLine(L, N), N > 0, NEW M, IsLine(M, N - 1),
         \A n \in 1 .. N - 1 : M[n] = L[n + 1],
         NEW i, NEW row \in Mutations, NEW seen \in Mutations, Predicted(L, i, row, seen),
         Edits(L, i) = {1}, L[1].st = "failed"
  PROVE  L[1].op = seen /\ Predicted(M, i, row, row) /\ row # seen
<1>1. N \in Nat /\ DOMAIN L = 1 .. N /\ DOMAIN M = 1 .. N - 1
  BY DEF IsLine
<1>2. ~Doomed(L, i)
  BY DEF Doomed
<1>3. L[1].op = seen
  BY <1>2 DEF Predicted, LastIsSeen
<1>4. row # seen
  BY <1>2 DEF Predicted, DoneAgrees
<1>5. Edits(M, i) = {}
  <2> SUFFICES ASSUME NEW n \in Edits(M, i) PROVE FALSE
    OBVIOUS
  <2>1. n \in 1 .. N - 1 /\ M[n].op \in Mutations /\ M[n].id = i
    BY <1>1 DEF Edits
  <2>2. n + 1 \in Edits(L, i) /\ n + 1 # 1
    BY <1>1, <2>1 DEF Edits
  <2> QED BY <2>2
<1>6. Predicted(M, i, row, row)
  BY <1>5 DEF Predicted, LastIsSeen, Alternate, NextTurnsRow, DoneAgrees
<1> QED BY <1>3, <1>4, <1>6

-----------------------------------------------------------------------------
(* The worker of a reader.                                                 *)

Values == (SUBSET Ids) \cup {None}

StaysAsked(h) ==
  /\ rows' = rows
  /\ handle'[h].pc = handle[h].pc /\ handle'[h].queue = handle[h].queue
  /\ handle'[h].answer = handle[h].answer

\* The command at the front of the queue is over.
IsAnswered(h) ==
  /\ handle[h].pc = "open" /\ handle[h].queue # <<>>
  /\ handle'[h].pc = "open" /\ handle'[h].queue = Tail(handle[h].queue)
  /\ handle'[h].answer.ok \in BOOLEAN /\ handle'[h].answer.value \in Values
  /\ DOMAIN rows' \subseteq DOMAIN rows
  /\ ~handle'[h].answer.ok => rows' = rows
  /\ handle'[h].answer.ok =>
       \A i \in DOMAIN rows' :
         rows'[i].hidden = IF Head(handle[h].queue).op = "hide" /\ i = Head(handle[h].queue).id
                           THEN Head(handle[h].queue).hidden ELSE rows[i].hidden
  /\ handle'[h].answer.ok /\ Head(handle[h].queue).op = "list" =>
       rows' = rows /\ handle'[h].answer.value = Listed(rows, h, Head(handle[h].queue))

LEMMA ReaderEnds ==
  ASSUME HandlesOk, NEW h \in Readers, NEW ok \in BOOLEAN, NEW value \in Values,
         handle[h].pc \in {"open", "closed"}, Job(h).op \in Writes \cup {"list", "count"},
         Done(h, ok, value)
  PROVE  /\ HandlesOk' /\ \A g \in Handles \ {h} : handle'[g] = handle[g]
         /\ handle[h].pc = "open" /\ handle[h].queue # <<>>
         /\ handle'[h].pc = "open" /\ handle'[h].queue = Tail(handle[h].queue)
         /\ handle'[h].answer.ok = ok /\ handle'[h].answer.value = value
         /\ Job(h) = Head(handle[h].queue) /\ Job(h).op \in ReaderOps
<1>1. h \in Handles /\ h \notin Daemons /\ DOMAIN handle = Handles
  BY DaemonsAreHandles DEF HandlesOk
<1>2. /\ HandlesOk' /\ \A g \in Handles \ {h} : handle'[g] = handle[g]
      /\ At(h, "open") => /\ handle[h].queue # <<>>
                          /\ handle'[h].pc = "open"
                          /\ handle'[h].queue = Tail(handle[h].queue)
      /\ ~At(h, "open") => handle[h].pc \in {"migrate", "recover", "retain"}
  BY <1>1, DoneOk
<1>3. At(h, "open")
  BY <1>2 DEF At
<1>4. handle' = [handle EXCEPT ![h] =
        [pc |-> "open", queue |-> Tail(handle[h].queue), tries |-> 0,
         answer |-> [asked |-> Job(h), ok |-> ok, value |-> value]]]
  BY <1>1, <1>3 DEF Done
<1>5. handle'[h].answer = [asked |-> Job(h), ok |-> ok, value |-> value]
  BY <1>1, <1>4
<1>6. Job(h) = Head(handle[h].queue) /\ Job(h).op \in ReaderOps
  BY <1>1, <1>2, <1>3, JobOk
<1> QED BY <1>2, <1>3, <1>5, <1>6 DEF At

LEMMA ReaderWorks ==
  ASSUME HandlesOk, DataOk, NEW h \in Readers, handle[h].pc \in {"open", "closed"}, Worker(h)
  PROVE  /\ HandlesOk' /\ DataOk' /\ \A g \in Handles \ {h} : handle'[g] = handle[g]
         /\ StaysAsked(h) \/ IsAnswered(h)
<1>1. h \in Handles /\ h \notin Daemons /\ DOMAIN handle = Handles /\ HandleOk(h)
  BY DaemonsAreHandles DEF HandlesOk
<1>2. None \in Values /\ \A c : Listed(rows, h, c) \in Values
  <2>1. \A c : Listed(rows, h, c) \subseteq DOMAIN rows
    BY DEF Listed
  <2>2. DOMAIN rows \subseteq Ids
    BY DEF DataOk
  <2>3. ASSUME NEW c
        PROVE  Listed(rows, h, c) \in Values
    <3>1. Listed(rows, h, c) \subseteq Ids
      BY <2>1, <2>2
    <3> QED BY <3>1 DEF Values
  <2>4. None \in Values
    BY DEF Values
  <2> QED BY <2>3, <2>4
<1>3. CASE Busy(h) /\ handle[h].tries + 1 < MaxAttempts
  <2>1. /\ handle' = [handle EXCEPT ![h].tries = @ + 1]
        /\ UNCHANGED <<version, rows, known, spent>>
    BY <1>3 DEF Busy
  <2>2. handle'[h] = [pc |-> handle[h].pc, queue |-> handle[h].queue,
                      tries |-> handle[h].tries + 1, answer |-> handle[h].answer]
    BY <1>1, <2>1 DEF HandleOk
  <2>3. DOMAIN handle' = Handles /\ \A g \in Handles \ {h} : handle'[g] = handle[g]
    BY <1>1, <2>1
  <2>4. handle[h].tries + 1 \in 0 .. MaxAttempts - 1
    BY <1>1, <1>3, HistoryConstants DEF HandleOk
  <2>5. /\ handle'[h].pc = handle[h].pc /\ handle'[h].queue = handle[h].queue
        /\ handle'[h].tries = handle[h].tries + 1 /\ handle'[h].answer = handle[h].answer
    BY <2>2
  <2>6. HandleOk(h)'
    BY <1>1, <2>2, <2>4, <2>5 DEF HandleOk
  <2>7. \A g \in Handles \ {h} : HandleOk(g)'
    BY <2>3 DEF HandlesOk, HandleOk
  <2>8. HandlesOk'
    BY <2>3, <2>6, <2>7 DEF HandlesOk
  <2>9. DataOk'
    BY <2>1 DEF DataOk, Numbered
  <2> QED BY <2>1, <2>3, <2>5, <2>8, <2>9 DEF StaysAsked
<1>4. CASE (Busy(h) /\ ~(handle[h].tries + 1 < MaxAttempts)) \/ Fail(h)
  <2>1. /\ Writing(h) /\ Done(h, FALSE, None) /\ Settled(h, FALSE)
        /\ UNCHANGED <<version, rows, spent>>
    BY <1>4 DEF Busy, Fail
  <2>2. /\ HandlesOk' /\ \A g \in Handles \ {h} : handle'[g] = handle[g]
        /\ handle[h].pc = "open" /\ handle[h].queue # <<>>
        /\ handle'[h].pc = "open" /\ handle'[h].queue = Tail(handle[h].queue)
        /\ handle'[h].answer.ok = FALSE /\ handle'[h].answer.value = None
        /\ Job(h).op \in ReaderOps
    BY <1>2, <2>1, ReaderEnds DEF Writing
  <2>3. known' = known
    BY <2>1, <2>2 DEF Settled, ReaderOps
  <2>4. DataOk'
    BY <2>1, <2>3 DEF DataOk, Numbered
  <2> QED BY <1>2, <2>1, <2>2, <2>4 DEF IsAnswered
<1>5. CASE Commit(h)
  <2>1. /\ Writing(h) /\ Done(h, TRUE, None) /\ Settled(h, TRUE) /\ spent' = spent
        /\ rows' \in Outcomes(h)
    BY <1>5 DEF Commit
  <2>2. /\ HandlesOk' /\ \A g \in Handles \ {h} : handle'[g] = handle[g]
        /\ handle[h].pc = "open" /\ handle[h].queue # <<>>
        /\ handle'[h].pc = "open" /\ handle'[h].queue = Tail(handle[h].queue)
        /\ handle'[h].answer.ok = TRUE /\ handle'[h].answer.value = None
        /\ Job(h) = Head(handle[h].queue) /\ Job(h).op \in ReaderOps
    BY <1>2, <2>1, ReaderEnds DEF Writing
  <2>3. known' = known /\ version' = version
    BY <1>5, <2>1, <2>2 DEF Settled, Commit, ReaderOps
  <2>4. /\ IsTable(rows') /\ DOMAIN rows' \subseteq DOMAIN rows
        /\ \A i \in DOMAIN rows' :
             rows'[i].hidden = IF Job(h).op = "hide" /\ i = Job(h).id
                               THEN Job(h).hidden ELSE rows[i].hidden
    BY <1>1, <2>1, <2>2, OutcomesOk DEF ReaderOps
  <2>5. DataOk'
    BY <2>1, <2>3, <2>4 DEF DataOk, Numbered, IsTable
  <2>6. Job(h).op # "list"
    BY <2>1 DEF Writing, Writes
  <2> QED BY <1>2, <2>2, <2>4, <2>5, <2>6 DEF IsAnswered
<1>6. CASE Read(h)
  <2>1. /\ UNCHANGED <<version, rows, known, spent>>
        /\ Job(h).op \in {"list", "count"}
        /\ \E value \in Values :
             /\ Done(h, TRUE, value)
             /\ Job(h).op = "list" => value = Listed(rows, h, Job(h))
    BY <1>2, <1>6 DEF Read
  <2>2. PICK value \in Values : /\ Done(h, TRUE, value)
                                /\ Job(h).op = "list" => value = Listed(rows, h, Job(h))
    BY <2>1
  <2>3. /\ HandlesOk' /\ \A g \in Handles \ {h} : handle'[g] = handle[g]
        /\ handle[h].pc = "open" /\ handle[h].queue # <<>>
        /\ handle'[h].pc = "open" /\ handle'[h].queue = Tail(handle[h].queue)
        /\ handle'[h].answer.ok = TRUE /\ handle'[h].answer.value = value
        /\ Job(h) = Head(handle[h].queue)
    BY <2>1, <2>2, ReaderEnds
  <2>4. DataOk'
    BY <2>1 DEF DataOk, Numbered
  <2>5. Head(handle[h].queue).op # "hide"
    BY <2>1, <2>3
  <2> QED BY <2>1, <2>2, <2>3, <2>4, <2>5 DEF IsAnswered
<1> QED BY <1>3, <1>4, <1>5, <1>6 DEF Worker

-----------------------------------------------------------------------------
(* The bridge.  In these lemmas b is a bridge and x the viewer's handle.   *)

Orders == [op : {"load"}, id : {None}] \cup [op : {"jump"} \cup Mutations, id : Ids]

Replies ==
  [op : {"load"}, id : {None}, refused : BOOLEAN, ok : BOOLEAN, value : Values]
    \cup [op : {"jump"} \cup Mutations, id : Ids, refused : BOOLEAN, ok : BOOLEAN, value : Values]

GoodBridge(b) ==
  /\ b = [commands |-> b.commands, working |-> b.working, replies |-> b.replies]
  /\ b.commands \in Seq(Orders) /\ Len(b.commands) <= ActionCapacity
  /\ b.working \in Working \cup {None}
  /\ b.replies \in Seq(Replies) /\ Len(b.replies) <= ActionCapacity

\* What the thread asks for the command w.
Asks(q, w) ==
  /\ q.op = "hide" <=> w.op \in Mutations
  /\ w.op \in Mutations => q.id = w.id /\ q.hidden = (w.op = "hide")
  /\ w.op = "load" => q.op = "list"

\* The handle waits for the command at work, or has answered it.
GoodHandle(b, x) ==
  IF b.working = None THEN x.queue = <<>>
  ELSE IF b.working.refused THEN x.queue = <<>>
  ELSE \/ x.queue # <<>> /\ Tail(x.queue) = <<>> /\ Asks(Head(x.queue), b.working)
       \/ x.queue = <<>> /\ x.answer.ok \in BOOLEAN /\ x.answer.value \in Values

Entry(c, st) == [op |-> c.op, id |-> c.id, st |-> st]

Stage(w, x) ==
  IF w.refused THEN "failed"
  ELSE IF x.queue # <<>> THEN "todo"
  ELSE IF x.answer.ok THEN "ok" ELSE "failed"

Replied(b) == Len(b.replies)
Worked(b)  == IF b.working = None THEN 0 ELSE 1
Size(b)    == Replied(b) + Worked(b) + Len(b.commands)

Line(b, x) ==
  [n \in 1 .. Size(b) |->
     IF n <= Replied(b)
     THEN Entry(b.replies[n], IF b.replies[n].ok THEN "ok" ELSE "failed")
     ELSE IF n <= Replied(b) + Worked(b) THEN Entry(b.working, Stage(b.working, x))
     ELSE Entry(b.commands[n - Replied(b) - Worked(b)], "todo")]

LEMMA OrdersOk ==
  /\ \A c \in Orders : /\ c.op \in CommandOps /\ c = [op |-> c.op, id |-> c.id]
                       /\ c.op = "load" => c.id = None
                       /\ c.op # "load" => c.id \in Ids
  /\ \A w \in Working : /\ w.op \in CommandOps /\ w.refused \in BOOLEAN
                        /\ w.op = "load" => w.id = None
                        /\ w.op # "load" => w.id \in Ids
                        /\ w.op \in Mutations => ~w.refused
                        /\ w = [op |-> w.op, id |-> w.id, refused |-> w.refused]
  /\ \A r \in Replies : /\ r.op \in CommandOps /\ r.refused \in BOOLEAN
                        /\ r.ok \in BOOLEAN /\ r.value \in Values
                        /\ r.op # "load" => r.id \in Ids
  /\ \A op \in CommandOps, i \in Ids : op # "load" => [op |-> op, id |-> i] \in Orders
  /\ \A c \in Orders, refused \in BOOLEAN :
       (refused => c.op \notin Mutations) =>
         [op |-> c.op, id |-> c.id, refused |-> refused] \in Working
  /\ \A w \in Working, refused, ok \in BOOLEAN, value \in Values :
       [op |-> w.op, id |-> w.id, refused |-> refused, ok |-> ok, value |-> value] \in Replies
<1>1. \A c \in Orders : /\ c.op \in CommandOps /\ c = [op |-> c.op, id |-> c.id]
                        /\ c.op = "load" => c.id = None
                        /\ c.op # "load" => c.id \in Ids
  BY DEF Orders, CommandOps, Mutations
<1>2. \A w \in Working : /\ w.op \in CommandOps /\ w.refused \in BOOLEAN
                         /\ w.op = "load" => w.id = None
                         /\ w.op # "load" => w.id \in Ids
                         /\ w.op \in Mutations => ~w.refused
                         /\ w = [op |-> w.op, id |-> w.id, refused |-> w.refused]
  <2> SUFFICES ASSUME NEW w \in Working
               PROVE  /\ w.op \in CommandOps /\ w.refused \in BOOLEAN
                      /\ w.op = "load" => w.id = None
                      /\ w.op # "load" => w.id \in Ids
                      /\ w.op \in Mutations => ~w.refused
                      /\ w = [op |-> w.op, id |-> w.id, refused |-> w.refused]
    OBVIOUS
  <2>1. CASE w \in [op : {"load"}, id : {None}, refused : BOOLEAN]
    BY <2>1 DEF CommandOps, Mutations
  <2>2. CASE w \in [op : {"jump"}, id : Ids, refused : BOOLEAN]
    BY <2>2 DEF CommandOps, Mutations
  <2>3. CASE w \in [op : Mutations, id : Ids, refused : {FALSE}]
    <3>1. w.refused = FALSE
      BY <2>3
    <3> QED BY <2>3, <3>1 DEF CommandOps, Mutations
  <2> QED BY <2>1, <2>2, <2>3 DEF Working
<1>3. \A r \in Replies : /\ r.op \in CommandOps /\ r.refused \in BOOLEAN
                         /\ r.ok \in BOOLEAN /\ r.value \in Values
                         /\ r.op # "load" => r.id \in Ids
  BY DEF Replies, CommandOps, Mutations
<1>4. \A op \in CommandOps, i \in Ids : op # "load" => [op |-> op, id |-> i] \in Orders
  BY DEF Orders, CommandOps, Mutations
<1>5. ASSUME NEW c \in Orders, NEW refused \in BOOLEAN, refused => c.op \notin Mutations
      PROVE  [op |-> c.op, id |-> c.id, refused |-> refused] \in Working
  <2>1. CASE c.op \in Mutations
    BY <1>1, <1>5, <2>1 DEF Working, Mutations
  <2>2. CASE c.op = "load"
    BY <1>1, <1>5, <2>2 DEF Working
  <2>3. CASE c.op = "jump"
    BY <1>1, <1>5, <2>3 DEF Working
  <2> QED BY <1>1, <2>1, <2>2, <2>3 DEF CommandOps
<1>6. ASSUME NEW w \in Working, NEW refused \in BOOLEAN, NEW ok \in BOOLEAN, NEW value \in Values
      PROVE  [op |-> w.op, id |-> w.id, refused |-> refused, ok |-> ok, value |-> value] \in Replies
  <2>1. CASE w.op = "load"
    BY <1>2, <2>1 DEF Replies
  <2>2. CASE w.op # "load"
    BY <1>2, <2>2 DEF Replies, CommandOps, Mutations
  <2> QED BY <2>1, <2>2
<1> QED BY <1>1, <1>2, <1>3, <1>4, <1>5, <1>6

\* The three parts of the line.
LineParts(b, x) ==
  /\ IsLine(Line(b, x), Size(b))
  /\ Replied(b) \in Nat /\ Worked(b) \in {0, 1} /\ Len(b.commands) \in Nat
  /\ DOMAIN b.replies = 1 .. Replied(b) /\ DOMAIN b.commands = 1 .. Len(b.commands)
  /\ \A n \in 1 .. Replied(b) :
       /\ b.replies[n] \in Replies
       /\ Line(b, x)[n] = Entry(b.replies[n], IF b.replies[n].ok THEN "ok" ELSE "failed")
       /\ Line(b, x)[n].st # "todo"
  /\ Worked(b) = 1 =>
       /\ b.working \in Working
       /\ Line(b, x)[Replied(b) + 1] = Entry(b.working, Stage(b.working, x))
  /\ \A n \in 1 .. Len(b.commands) :
       /\ b.commands[n] \in Orders
       /\ Line(b, x)[Replied(b) + Worked(b) + n] = Entry(b.commands[n], "todo")

LEMMA LineOk ==
  ASSUME NEW b, NEW x, GoodBridge(b), GoodHandle(b, x)
  PROVE  LineParts(b, x)
<1>1. /\ Replied(b) \in Nat /\ Worked(b) \in {0, 1} /\ Len(b.commands) \in Nat
      /\ DOMAIN b.replies = 1 .. Replied(b) /\ DOMAIN b.commands = 1 .. Len(b.commands)
      /\ \A n \in 1 .. Replied(b) : b.replies[n] \in Replies
      /\ \A n \in 1 .. Len(b.commands) : b.commands[n] \in Orders
      /\ Worked(b) = 1 => b.working \in Working
  BY DEF GoodBridge, Replied, Worked
<1>2. Size(b) \in Nat /\ Size(b) = Replied(b) + Worked(b) + Len(b.commands)
  BY <1>1 DEF Size
<1>3. ASSUME NEW n \in 1 .. Replied(b)
      PROVE  Line(b, x)[n] = Entry(b.replies[n], IF b.replies[n].ok THEN "ok" ELSE "failed")
  <2>1. n \in 1 .. Size(b) /\ n <= Replied(b)
    BY <1>1, <1>2
  <2> QED BY <2>1 DEF Line
<1>4. ASSUME Worked(b) = 1
      PROVE  Line(b, x)[Replied(b) + 1] = Entry(b.working, Stage(b.working, x))
  <2>1. Replied(b) + 1 \in 1 .. Size(b) /\ ~(Replied(b) + 1 <= Replied(b))
        /\ Replied(b) + 1 <= Replied(b) + Worked(b)
    BY <1>1, <1>2, <1>4
  <2> QED BY <2>1 DEF Line
<1>5. ASSUME NEW n \in 1 .. Len(b.commands)
      PROVE  Line(b, x)[Replied(b) + Worked(b) + n] = Entry(b.commands[n], "todo")
  <2> DEFINE m == Replied(b) + Worked(b) + n
  <2>1. m \in 1 .. Size(b) /\ ~(m <= Replied(b)) /\ ~(m <= Replied(b) + Worked(b))
        /\ m - Replied(b) - Worked(b) = n
    BY <1>1, <1>2
  <2> HIDE DEF m
  <2>2. Line(b, x)[m] = Entry(b.commands[n], "todo")
    BY <2>1 DEF Line
  <2> QED BY <2>2 DEF m
<1>6. ASSUME NEW n \in 1 .. Size(b)
      PROVE  \/ n \in 1 .. Replied(b)
             \/ Worked(b) = 1 /\ n = Replied(b) + 1
             \/ /\ n - Replied(b) - Worked(b) \in 1 .. Len(b.commands)
                /\ n = Replied(b) + Worked(b) + (n - Replied(b) - Worked(b))
  <2>1. CASE n <= Replied(b)
    BY <1>1, <1>2, <2>1
  <2>2. CASE Replied(b) < n /\ n <= Replied(b) + Worked(b)
    BY <1>1, <1>2, <2>2
  <2>3. CASE Replied(b) + Worked(b) < n
    <3> PICK k : k = n - Replied(b) - Worked(b)
      OBVIOUS
    <3>1. k \in 1 .. Len(b.commands) /\ n = Replied(b) + Worked(b) + k
      BY <1>1, <1>2, <2>3
    <3> QED BY <3>1
  <2> QED BY <1>1, <2>1, <2>2, <2>3
<1>7. ASSUME NEW n \in 1 .. Size(b)
      PROVE  /\ Line(b, x)[n].op \in CommandOps
             /\ Line(b, x)[n].st \in {"ok", "failed", "todo"}
             /\ Line(b, x)[n].st = "todo" => n > Replied(b)
             /\ n > Replied(b) + Worked(b) => Line(b, x)[n].st = "todo"
  <2>1. CASE n \in 1 .. Replied(b)
    <3> DEFINE st == IF b.replies[n].ok THEN "ok" ELSE "failed"
    <3>1. Line(b, x)[n] = Entry(b.replies[n], st)
      BY <1>3, <2>1
    <3>2. b.replies[n].op \in CommandOps
      BY <1>1, <2>1, OrdersOk
    <3>3. st \in {"ok", "failed"}
      OBVIOUS
    <3> HIDE DEF st
    <3>4. Line(b, x)[n].op = b.replies[n].op /\ Line(b, x)[n].st = st
      BY <3>1 DEF Entry
    <3>5. ~(n > Replied(b) + Worked(b))
      BY <1>1, <2>1
    <3> QED BY <3>2, <3>3, <3>4, <3>5
  <2>2. CASE Worked(b) = 1 /\ n = Replied(b) + 1
    <3>1. Line(b, x)[n] = Entry(b.working, Stage(b.working, x)) /\ b.working \in Working
      BY <1>1, <1>4, <2>2
    <3>2. b.working.op \in CommandOps /\ Stage(b.working, x) \in {"ok", "failed", "todo"}
      BY <3>1, OrdersOk DEF Stage
    <3>3. /\ Line(b, x)[n].op = b.working.op
          /\ Line(b, x)[n].st = Stage(b.working, x)
      BY <2>2, <3>1 DEF Entry
    <3>4. n > Replied(b) /\ ~(n > Replied(b) + Worked(b))
      BY <1>1, <2>2
    <3> QED BY <3>2, <3>3, <3>4
  <2>3. CASE /\ n - Replied(b) - Worked(b) \in 1 .. Len(b.commands)
             /\ n = Replied(b) + Worked(b) + (n - Replied(b) - Worked(b))
    <3> PICK k \in 1 .. Len(b.commands) : k = n - Replied(b) - Worked(b)
      BY <2>3
    <3>1. Line(b, x)[n] = Entry(b.commands[k], "todo") /\ b.commands[k] \in Orders
      BY <1>1, <1>5, <2>3
    <3>2. Line(b, x)[n].op \in CommandOps /\ Line(b, x)[n].st = "todo"
      BY <3>1, OrdersOk DEF Entry
    <3> QED BY <1>1, <2>3, <3>2
  <2> QED BY <1>6, <2>1, <2>2, <2>3
<1>8. IsLine(Line(b, x), Size(b))
  <2>1. DOMAIN Line(b, x) = 1 .. Size(b)
    BY DEF Line
  <2>2. ASSUME NEW m \in 1 .. Size(b), NEW n \in 1 .. Size(b), m < n, Line(b, x)[m].st = "todo"
        PROVE  Line(b, x)[n].st = "todo"
    <3>1. n > Replied(b) + Worked(b)
      BY <1>1, <1>2, <1>7, <2>2
    <3> QED BY <1>7, <3>1
  <2> QED BY <1>2, <1>7, <2>1, <2>2 DEF IsLine
<1>9. ASSUME NEW n \in 1 .. Replied(b)
      PROVE  Line(b, x)[n].st # "todo"
  <2>1. n \in 1 .. Size(b) /\ ~(n > Replied(b))
    BY <1>1, <1>2
  <2> QED BY <1>7, <2>1
<1> QED BY <1>1, <1>3, <1>4, <1>5, <1>8, <1>9 DEF LineParts

\* A bridge is what it is made of.
LEMMA BridgeOf ==
  ASSUME NEW b, NEW c, NEW w, NEW r, b = [commands |-> c, working |-> w, replies |-> r]
  PROVE  /\ b.commands = c /\ b.working = w /\ b.replies = r
         /\ /\ c \in Seq(Orders) /\ Len(c) <= ActionCapacity
            /\ w \in Working \cup {None}
            /\ r \in Seq(Replies) /\ Len(r) <= ActionCapacity
            => GoodBridge(b)
<1>1. b.commands = c /\ b.working = w /\ b.replies = r
  OBVIOUS
<1> QED BY <1>1 DEF GoodBridge

LEMMA SameLine ==
  ASSUME NEW b, NEW x, NEW c, NEW y, Size(c) = Size(b),
         \A n \in 1 .. Size(b) : Line(c, y)[n] = Line(b, x)[n]
  PROVE  Line(c, y) = Line(b, x)
<1> DEFINE of(d, z, n) ==
      IF n <= Replied(d)
      THEN Entry(d.replies[n], IF d.replies[n].ok THEN "ok" ELSE "failed")
      ELSE IF n <= Replied(d) + Worked(d) THEN Entry(d.working, Stage(d.working, z))
      ELSE Entry(d.commands[n - Replied(d) - Worked(d)], "todo")
<1>1. /\ Line(b, x) = [n \in 1 .. Size(b) |-> of(b, x, n)]
      /\ Line(c, y) = [n \in 1 .. Size(c) |-> of(c, y, n)]
  BY DEF Line
<1> HIDE DEF of
<1> QED BY <1>1

\* From line L to line M entry k, the first that is not done, is taken further.
MovesAt(L, M, N, k) ==
  /\ IsLine(L, N) /\ IsLine(M, N) /\ k \in 1 .. N
  /\ L[k].st = "todo" /\ \A n \in 1 .. N : n < k => L[n].st # "todo"
  /\ \A n \in 1 .. N : n # k => M[n] = L[n]
  /\ M[k].op = L[k].op /\ M[k].id = L[k].id

\* The thread takes the command w.
Takes(b, x, w, b2, y) ==
  /\ GoodBridge(b2) /\ Size(b2) = Size(b)
  /\ MovesAt(Line(b, x), Line(b2, y), Size(b), Replied(b) + 1)
  /\ Line(b2, y)[Replied(b) + 1] = Entry(w, Stage(w, y))
  /\ Line(b, x)[Replied(b) + 1] = Entry(w, "todo")

LEMMA TakeLine ==
  ASSUME NEW b, NEW x, GoodBridge(b), GoodHandle(b, x), b.working = None, b.commands # <<>>,
         NEW w \in Working, w.op = Head(b.commands).op, w.id = Head(b.commands).id,
         NEW b2, b2 = [b EXCEPT !.commands = Tail(@), !.working = w],
         NEW y, GoodHandle(b2, y), w # None
  PROVE  Takes(b, x, w, b2, y)
<1>1. b.commands \in Seq(Orders) /\ Len(b.commands) <= ActionCapacity /\ ActionCapacity \in Nat
  BY ViewerConstants DEF GoodBridge
<1>2. /\ Tail(b.commands) \in Seq(Orders) /\ Len(Tail(b.commands)) = Len(b.commands) - 1
      /\ Head(b.commands) = b.commands[1] /\ Len(b.commands) \in Nat \ {0}
      /\ DOMAIN Tail(b.commands) = 1 .. Len(b.commands) - 1
      /\ \A n \in 1 .. Len(b.commands) - 1 : Tail(b.commands)[n] = b.commands[n + 1]
  BY <1>1, TailOk
<1>3. b2 = [commands |-> Tail(b.commands), working |-> w, replies |-> b.replies]
  BY DEF GoodBridge
<1>4. b.replies \in Seq(Replies) /\ Len(b.replies) <= ActionCapacity
      /\ Len(Tail(b.commands)) <= ActionCapacity
  BY <1>1, <1>2 DEF GoodBridge
<1>5. /\ GoodBridge(b2)
      /\ b2.commands = Tail(b.commands) /\ b2.working = w /\ b2.replies = b.replies
  <2>1. w \in Working \cup {None}
    OBVIOUS
  <2>2. b2.commands = Tail(b.commands) /\ b2.working = w /\ b2.replies = b.replies
    BY <1>3, BridgeOf
  <2> QED BY <1>2, <1>3, <1>4, <2>1, <2>2, BridgeOf
<1>6. Replied(b2) = Replied(b) /\ Worked(b) = 0 /\ Worked(b2) = 1
      /\ Len(b2.commands) = Len(b.commands) - 1
  BY <1>2, <1>5 DEF Replied, Worked
<1> DEFINE L == Line(b, x)
           M == Line(b2, y)
           k == Replied(b) + 1
<1>6a. LineParts(b, x) /\ LineParts(b2, y)
  BY <1>5, LineOk
<1>7. /\ IsLine(L, Size(b)) /\ Replied(b) \in Nat
      /\ \A n \in 1 .. Replied(b) :
           /\ L[n] = Entry(b.replies[n], IF b.replies[n].ok THEN "ok" ELSE "failed")
           /\ L[n].st # "todo"
      /\ \A n \in 1 .. Len(b.commands) : L[Replied(b) + Worked(b) + n] = Entry(b.commands[n], "todo")
  BY <1>6a DEF LineParts
<1>8. /\ IsLine(M, Size(b2))
      /\ \A n \in 1 .. Replied(b2) :
           M[n] = Entry(b2.replies[n], IF b2.replies[n].ok THEN "ok" ELSE "failed")
      /\ Worked(b2) = 1 => M[Replied(b2) + 1] = Entry(b2.working, Stage(b2.working, y))
      /\ \A n \in 1 .. Len(b2.commands) :
           M[Replied(b2) + Worked(b2) + n] = Entry(b2.commands[n], "todo")
  BY <1>6a DEF LineParts
<1> HIDE DEF L, M
<1>9. Size(b2) = Size(b) /\ Size(b) = Replied(b) + Len(b.commands) /\ k \in 1 .. Size(b)
  BY <1>2, <1>6, <1>7 DEF Size
<1>10. L[k] = Entry(w, "todo")
  <2>1. L[Replied(b) + 0 + 1] = Entry(b.commands[1], "todo")
    BY <1>2, <1>6, <1>7
  <2>2. Entry(b.commands[1], "todo") = Entry(w, "todo") /\ Replied(b) + 0 + 1 = k
    BY <1>2, <1>7 DEF Entry
  <2> QED BY <2>1, <2>2
<1>11. M[k] = Entry(w, Stage(w, y))
  BY <1>5, <1>6, <1>8
<1>12. ASSUME NEW n \in 1 .. Size(b), n # k
       PROVE  M[n] = L[n]
  <2>1. CASE n <= Replied(b)
    <3>1. n \in 1 .. Replied(b)
      BY <1>7, <2>1
    <3> QED BY <1>5, <1>6, <1>7, <1>8, <3>1
  <2>2. CASE n > k
    <3> PICK j : j = n - k
      OBVIOUS
    <3>0. Replied(b) \in Nat /\ Len(b.commands) \in Nat /\ Size(b) = Replied(b) + Len(b.commands)
      BY <1>2, <1>7, <1>9
    <3>1. j \in 1 .. Len(b.commands) - 1 /\ n = Replied(b) + 1 + j /\ n = Replied(b) + 0 + (j + 1)
          /\ j + 1 \in 1 .. Len(b.commands)
      <4> DEFINE p == Replied(b)
                 l == Len(b.commands)
      <4>1. p \in Nat /\ l \in Nat /\ n \in 1 .. p + l /\ n > p + 1 /\ j = n - (p + 1)
        BY <2>2, <3>0
      <4> HIDE DEF p, l
      <4>2. j \in 1 .. l - 1 /\ n = p + 1 + j /\ n = p + 0 + (j + 1) /\ j + 1 \in 1 .. l
        BY <4>1
      <4> QED BY <4>2 DEF p, l
    <3>2. M[n] = Entry(b2.commands[j], "todo")
      BY <1>6, <1>8, <3>1
    <3>3. L[n] = Entry(b.commands[j + 1], "todo")
      BY <1>6, <1>7, <3>1
    <3> QED BY <1>2, <1>5, <3>1, <3>2, <3>3
  <2> QED BY <1>7, <1>12, <2>1, <2>2
<1>13. ASSUME NEW n \in 1 .. Size(b), n < k
       PROVE  L[n].st # "todo"
  <2>1. n \in 1 .. Replied(b)
    BY <1>7, <1>13
  <2> QED BY <1>7, <2>1
<1>14. L[k].st = "todo" /\ M[k].op = L[k].op /\ M[k].id = L[k].id /\ M[k].st = Stage(w, y)
  BY <1>10, <1>11 DEF Entry
<1>15. MovesAt(L, M, Size(b), k)
  BY <1>7, <1>8, <1>9, <1>12, <1>13, <1>14 DEF MovesAt
<1> QED BY <1>5, <1>9, <1>10, <1>11, <1>15 DEF L, M, Takes

\* The worker of the viewer's handle answers.
Works(b, x, y) ==
  /\ MovesAt(Line(b, x), Line(b, y), Size(b), Replied(b) + 1)
  /\ Line(b, y)[Replied(b) + 1] = Entry(b.working, Stage(b.working, y))
  /\ Line(b, x)[Replied(b) + 1] = Entry(b.working, "todo")
  /\ b.working \in Working

LEMMA WorkLine ==
  ASSUME NEW b, NEW x, GoodBridge(b), GoodHandle(b, x), b.working # None,
         ~b.working.refused, x.queue # <<>>, NEW y, GoodHandle(b, y)
  PROVE  Works(b, x, y)
<1> DEFINE L == Line(b, x)
           M == Line(b, y)
           k == Replied(b) + 1
<1>1. Worked(b) = 1
  BY DEF Worked
<1>1a. LineParts(b, x) /\ LineParts(b, y)
  BY LineOk
<1>2. /\ IsLine(L, Size(b)) /\ Replied(b) \in Nat /\ Len(b.commands) \in Nat
      /\ \A n \in 1 .. Replied(b) : L[n].st # "todo"
      /\ b.working \in Working /\ L[k] = Entry(b.working, Stage(b.working, x))
  BY <1>1, <1>1a DEF LineParts
<1>3. /\ IsLine(M, Size(b)) /\ M[k] = Entry(b.working, Stage(b.working, y))
  BY <1>1, <1>1a DEF LineParts
<1>4. Stage(b.working, x) = "todo"
  BY DEF Stage
<1>5. k \in 1 .. Size(b)
  BY <1>1, <1>2 DEF Size
<1>6. ASSUME NEW n \in 1 .. Size(b), n # k
      PROVE  M[n] = L[n]
  <2>1. n <= Replied(b) \/ ~(n <= Replied(b) + Worked(b))
    BY <1>1, <1>2, <1>6
  <2> QED BY <2>1 DEF Line
<1> HIDE DEF L, M
<1>7. ASSUME NEW n \in 1 .. Size(b), n < k
      PROVE  L[n].st # "todo"
  <2>1. n \in 1 .. Replied(b)
    BY <1>2, <1>7
  <2> QED BY <1>2, <2>1
<1>8. L[k].st = "todo" /\ M[k].op = L[k].op /\ M[k].id = L[k].id
  BY <1>2, <1>3, <1>4 DEF Entry
<1>9. MovesAt(L, M, Size(b), k)
  BY <1>2, <1>3, <1>5, <1>6, <1>7, <1>8 DEF MovesAt
<1> QED BY <1>2, <1>3, <1>4, <1>9 DEF L, M, Works

\* The thread replies.
Hands(b, x, b2) ==
  /\ GoodBridge(b2) /\ GoodHandle(b2, x)
  /\ Size(b2) = Size(b) /\ Line(b2, x) = Line(b, x)

LEMMA ReplyLine ==
  ASSUME NEW b, NEW x, GoodBridge(b), GoodHandle(b, x), b.working # None,
         b.working.refused \/ x.queue = <<>>, Len(b.replies) < ActionCapacity,
         NEW r, r.op = b.working.op, r.id = b.working.id,
         b.working.refused => r.ok = FALSE, ~b.working.refused => r.ok = x.answer.ok,
         r \in Replies, NEW b2, b2 = [b EXCEPT !.replies = Append(@, r), !.working = None]
  PROVE  Hands(b, x, b2)
<1>1. b.replies \in Seq(Replies) /\ ActionCapacity \in Nat
  BY ViewerConstants DEF GoodBridge
<1>2. /\ Append(b.replies, r) \in Seq(Replies) /\ Len(b.replies) \in Nat
      /\ Len(Append(b.replies, r)) = Len(b.replies) + 1
      /\ \A n \in DOMAIN b.replies : Append(b.replies, r)[n] = b.replies[n]
      /\ Append(b.replies, r)[Len(b.replies) + 1] = r /\ DOMAIN b.replies = 1 .. Len(b.replies)
  BY <1>1, AppendOk
<1>3. b2 = [commands |-> b.commands, working |-> None, replies |-> Append(b.replies, r)]
  BY DEF GoodBridge
<1>4. b.commands \in Seq(Orders) /\ Len(b.commands) <= ActionCapacity
      /\ Len(Append(b.replies, r)) <= ActionCapacity
  BY <1>1, <1>2 DEF GoodBridge
<1>5. /\ GoodBridge(b2)
      /\ b2.commands = b.commands /\ b2.working = None /\ b2.replies = Append(b.replies, r)
  <2>1. None \in Working \cup {None}
    OBVIOUS
  <2>2. b2.commands = b.commands /\ b2.working = None /\ b2.replies = Append(b.replies, r)
    BY <1>3, BridgeOf
  <2> QED BY <1>2, <1>3, <1>4, <2>1, <2>2, BridgeOf
<1>6. x.queue = <<>>
  BY DEF GoodHandle
<1>7. GoodHandle(b2, x)
  BY <1>5, <1>6 DEF GoodHandle
<1>8. Replied(b2) = Replied(b) + 1 /\ Worked(b2) = 0 /\ Worked(b) = 1
  BY <1>2, <1>5 DEF Replied, Worked
<1> DEFINE L == Line(b, x)
           M == Line(b2, x)
           k == Replied(b) + 1
<1>9. /\ IsLine(L, Size(b)) /\ Replied(b) \in Nat /\ Len(b.commands) \in Nat
      /\ L[k] = Entry(b.working, Stage(b.working, x))
  <2>1. LineParts(b, x)
    BY LineOk
  <2> QED BY <1>8, <2>1 DEF LineParts
<1>10. /\ IsLine(M, Size(b2))
       /\ \A n \in 1 .. Replied(b2) :
            M[n] = Entry(b2.replies[n], IF b2.replies[n].ok THEN "ok" ELSE "failed")
  <2>1. LineParts(b2, x)
    BY <1>5, <1>7, LineOk
  <2> QED BY <2>1 DEF LineParts
<1>11. Size(b2) = Size(b)
  BY <1>5, <1>8, <1>9 DEF Size
<1>12. M[k] = L[k]
  <2>1. M[k] = Entry(r, IF r.ok THEN "ok" ELSE "failed")
    <3>1. k \in 1 .. Replied(b2) /\ b2.replies[k] = r
      BY <1>2, <1>5, <1>8, <1>9 DEF Replied
    <3> QED BY <1>10, <3>1
  <2>2. Stage(b.working, x) = IF r.ok THEN "ok" ELSE "failed"
    BY <1>6 DEF Stage
  <2> QED BY <1>9, <2>1, <2>2 DEF Entry
<1>13. ASSUME NEW n \in 1 .. Size(b), n # k
       PROVE  M[n] = L[n]
  <2>1. CASE n <= Replied(b)
    <3>1. n <= Replied(b2) /\ n \in DOMAIN b.replies /\ b2.replies[n] = b.replies[n]
      BY <1>2, <1>5, <1>8, <1>9, <2>1 DEF Replied
    <3> QED BY <1>11, <2>1, <3>1 DEF Line
  <2>2. CASE n > k
    <3>1. /\ ~(n <= Replied(b)) /\ ~(n <= Replied(b) + Worked(b))
          /\ ~(n <= Replied(b2)) /\ ~(n <= Replied(b2) + Worked(b2))
          /\ n - Replied(b) - Worked(b) = n - Replied(b2) - Worked(b2)
      BY <1>8, <1>9, <2>2
    <3> QED BY <1>5, <1>11, <3>1 DEF Line
  <2> QED BY <1>9, <1>13, <2>1, <2>2
<1>14. M = L
  <2>1. \A n \in 1 .. Size(b) : M[n] = L[n]
    BY <1>12, <1>13
  <2> QED BY <1>11, <2>1, SameLine
<1> QED BY <1>5, <1>7, <1>11, <1>14 DEF Hands

\* The event loop takes a reply.
Drops(b, x, b2) ==
  /\ GoodBridge(b2) /\ GoodHandle(b2, x)
  /\ IsLine(Line(b, x), Size(b)) /\ IsLine(Line(b2, x), Size(b) - 1)
  /\ Size(b2) = Size(b) - 1 /\ Size(b) \in Nat \ {0}
  /\ \A n \in 1 .. Size(b) - 1 : Line(b2, x)[n] = Line(b, x)[n + 1]
  /\ Head(b.replies) \in Replies
  /\ Line(b, x)[1] = Entry(Head(b.replies), IF Head(b.replies).ok THEN "ok" ELSE "failed")
  /\ Line(b, x)[1].st # "todo"

LEMMA ApplyLine ==
  ASSUME NEW b, NEW x, GoodBridge(b), GoodHandle(b, x), b.replies # <<>>,
         NEW b2, b2 = [b EXCEPT !.replies = Tail(@)]
  PROVE  Drops(b, x, b2)
<1>1. b.replies \in Seq(Replies) /\ Len(b.replies) <= ActionCapacity /\ ActionCapacity \in Nat
  BY ViewerConstants DEF GoodBridge
<1>2. /\ Tail(b.replies) \in Seq(Replies) /\ Len(Tail(b.replies)) = Len(b.replies) - 1
      /\ Head(b.replies) = b.replies[1] /\ Len(b.replies) \in Nat \ {0}
      /\ Head(b.replies) \in Replies
      /\ DOMAIN Tail(b.replies) = 1 .. Len(b.replies) - 1
      /\ \A n \in DOMAIN Tail(b.replies) : Tail(b.replies)[n] = b.replies[n + 1]
  BY <1>1, TailOk
<1>3. b2 = [commands |-> b.commands, working |-> b.working, replies |-> Tail(b.replies)]
  BY DEF GoodBridge
<1>4. b.commands \in Seq(Orders) /\ Len(b.commands) <= ActionCapacity
      /\ Len(Tail(b.replies)) <= ActionCapacity /\ b.working \in Working \cup {None}
  BY <1>1, <1>2 DEF GoodBridge
<1>5. /\ GoodBridge(b2)
      /\ b2.commands = b.commands /\ b2.working = b.working /\ b2.replies = Tail(b.replies)
  <2>2. b2.commands = b.commands /\ b2.working = b.working /\ b2.replies = Tail(b.replies)
    BY <1>3, BridgeOf
  <2> QED BY <1>2, <1>3, <1>4, <2>2, BridgeOf
<1>6. GoodHandle(b2, x)
  BY <1>5 DEF GoodHandle
<1>7. Replied(b2) = Replied(b) - 1 /\ Worked(b2) = Worked(b) /\ Replied(b) \in Nat \ {0}
  BY <1>2, <1>5 DEF Replied, Worked
<1> DEFINE L == Line(b, x)
           M == Line(b2, x)
<1>8. /\ IsLine(L, Size(b)) /\ Len(b.commands) \in Nat /\ Worked(b) \in {0, 1}
      /\ \A n \in 1 .. Replied(b) :
           /\ L[n] = Entry(b.replies[n], IF b.replies[n].ok THEN "ok" ELSE "failed")
           /\ L[n].st # "todo"
  <2>1. LineParts(b, x)
    BY LineOk
  <2> QED BY <2>1 DEF LineParts
<1>9. IsLine(M, Size(b2))
  <2>1. LineParts(b2, x)
    BY <1>5, <1>6, LineOk
  <2> QED BY <2>1 DEF LineParts
<1>10. Size(b2) = Size(b) - 1 /\ Size(b) \in Nat \ {0}
       /\ Size(b) = Replied(b) + Worked(b) + Len(b.commands)
  BY <1>5, <1>7, <1>8 DEF Size
<1>11. ASSUME NEW n \in 1 .. Size(b) - 1
       PROVE  M[n] = L[n + 1]
  <2>0. n \in 1 .. Size(b2) /\ n + 1 \in 1 .. Size(b)
    BY <1>10
  <2>1. CASE n + 1 <= Replied(b)
    <3>1. n <= Replied(b2) /\ n \in DOMAIN Tail(b.replies)
      BY <1>2, <1>7, <1>10, <2>1 DEF Replied
    <3>2. M[n] = Entry(b2.replies[n], IF b2.replies[n].ok THEN "ok" ELSE "failed")
      BY <2>0, <3>1 DEF Line
    <3>3. L[n + 1] = Entry(b.replies[n + 1], IF b.replies[n + 1].ok THEN "ok" ELSE "failed")
      BY <2>0, <2>1 DEF Line
    <3> QED BY <1>2, <1>5, <3>1, <3>2, <3>3
  <2>2. CASE ~(n + 1 <= Replied(b)) /\ n + 1 <= Replied(b) + Worked(b)
    <3>1. ~(n <= Replied(b2)) /\ n <= Replied(b2) + Worked(b2)
      BY <1>7, <1>8, <1>10, <2>2
    <3>2. M[n] = Entry(b2.working, Stage(b2.working, x))
      BY <2>0, <3>1 DEF Line
    <3>3. L[n + 1] = Entry(b.working, Stage(b.working, x))
      BY <2>0, <2>2 DEF Line
    <3> QED BY <1>5, <3>2, <3>3
  <2>3. CASE ~(n + 1 <= Replied(b)) /\ ~(n + 1 <= Replied(b) + Worked(b))
    <3>1. /\ ~(n <= Replied(b2)) /\ ~(n <= Replied(b2) + Worked(b2))
          /\ n - Replied(b2) - Worked(b2) = n + 1 - Replied(b) - Worked(b)
      BY <1>7, <1>8, <1>10, <2>3
    <3>2. M[n] = Entry(b2.commands[n - Replied(b2) - Worked(b2)], "todo")
      BY <2>0, <3>1 DEF Line
    <3>3. L[n + 1] = Entry(b.commands[n + 1 - Replied(b) - Worked(b)], "todo")
      <4>1. ASSUME NEW m \in 1 .. Size(b), ~(m <= Replied(b)), ~(m <= Replied(b) + Worked(b))
            PROVE  L[m] = Entry(b.commands[m - Replied(b) - Worked(b)], "todo")
        BY <4>1 DEF Line
      <4> HIDE DEF L
      <4>2. n + 1 \in 1 .. Size(b) /\ Replied(b) \in Nat /\ Worked(b) \in Nat
        BY <1>7, <1>8, <2>0
      <4> QED BY <2>3, <4>1, <4>2
    <3> QED BY <1>5, <3>1, <3>2, <3>3
  <2> QED BY <2>1, <2>2, <2>3
<1>12. L[1] = Entry(Head(b.replies), IF Head(b.replies).ok THEN "ok" ELSE "failed")
  BY <1>2, <1>7, <1>8
<1> HIDE DEF L, M
<1>13. L[1].st # "todo"
  BY <1>7, <1>8
<1> QED BY <1>2, <1>5, <1>6, <1>8, <1>9, <1>10, <1>11, <1>12, <1>13 DEF L, M, Drops

\* A key sends the command o.
Puts(b, x, o, b2) ==
  /\ GoodBridge(b2) /\ GoodHandle(b2, x)
  /\ IsLine(Line(b, x), Size(b)) /\ IsLine(Line(b2, x), Size(b) + 1)
  /\ Size(b2) = Size(b) + 1 /\ Size(b) \in Nat
  /\ \A n \in 1 .. Size(b) : Line(b2, x)[n] = Line(b, x)[n]
  /\ Line(b2, x)[Size(b) + 1] = Entry(o, "todo")

LEMMA SendLine ==
  ASSUME NEW b, NEW x, GoodBridge(b), GoodHandle(b, x), Len(b.commands) < ActionCapacity,
         NEW o \in Orders, NEW b2, b2 = [b EXCEPT !.commands = Append(@, o)]
  PROVE  Puts(b, x, o, b2)
<1>1. b.commands \in Seq(Orders) /\ ActionCapacity \in Nat
  BY ViewerConstants DEF GoodBridge
<1>2. /\ Append(b.commands, o) \in Seq(Orders) /\ Len(b.commands) \in Nat
      /\ Len(Append(b.commands, o)) = Len(b.commands) + 1
      /\ \A n \in DOMAIN b.commands : Append(b.commands, o)[n] = b.commands[n]
      /\ Append(b.commands, o)[Len(b.commands) + 1] = o
      /\ DOMAIN b.commands = 1 .. Len(b.commands)
  BY <1>1, AppendOk
<1>3. b2 = [commands |-> Append(b.commands, o), working |-> b.working, replies |-> b.replies]
  BY DEF GoodBridge
<1>4. b.replies \in Seq(Replies) /\ Len(b.replies) <= ActionCapacity
      /\ Len(Append(b.commands, o)) <= ActionCapacity /\ b.working \in Working \cup {None}
  BY <1>1, <1>2 DEF GoodBridge
<1>5. /\ GoodBridge(b2)
      /\ b2.commands = Append(b.commands, o) /\ b2.working = b.working
      /\ b2.replies = b.replies
  BY <1>2, <1>3, <1>4, BridgeOf
<1>6. GoodHandle(b2, x)
  BY <1>5 DEF GoodHandle
<1>7. Replied(b2) = Replied(b) /\ Worked(b2) = Worked(b)
  BY <1>5 DEF Replied, Worked
<1> DEFINE L == Line(b, x)
           M == Line(b2, x)
<1>8. IsLine(L, Size(b)) /\ Replied(b) \in Nat /\ Worked(b) \in {0, 1}
  <2>1. LineParts(b, x)
    BY LineOk
  <2> QED BY <2>1 DEF LineParts
<1>9. /\ IsLine(M, Size(b2))
      /\ \A n \in 1 .. Len(b2.commands) :
           M[Replied(b2) + Worked(b2) + n] = Entry(b2.commands[n], "todo")
  <2>1. LineParts(b2, x)
    BY <1>5, <1>6, LineOk
  <2> QED BY <2>1 DEF LineParts
<1>10. Size(b2) = Size(b) + 1 /\ Size(b) \in Nat
       /\ Size(b) = Replied(b) + Worked(b) + Len(b.commands)
  <2>1. Size(b2) = Replied(b) + Worked(b) + (Len(b.commands) + 1)
    BY <1>2, <1>5, <1>7 DEF Size
  <2>2. Size(b) = Replied(b) + Worked(b) + Len(b.commands)
    BY DEF Size
  <2> DEFINE p == Replied(b)
             q == Worked(b)
             l == Len(b.commands)
  <2>3. p \in Nat /\ q \in Nat /\ l \in Nat /\ Size(b2) = p + q + (l + 1) /\ Size(b) = p + q + l
    BY <1>2, <1>8, <2>1, <2>2
  <2> HIDE DEF p, q, l
  <2>4. Size(b2) = Size(b) + 1 /\ Size(b) \in Nat
    BY <2>3
  <2> QED BY <2>2, <2>4
<1>11. ASSUME NEW n \in 1 .. Size(b)
       PROVE  M[n] = L[n]
  <2>0. n \in 1 .. Size(b2)
    BY <1>10
  <2>1. CASE n <= Replied(b) + Worked(b)
    BY <1>5, <1>7, <2>0, <2>1 DEF Line
  <2>2. CASE ~(n <= Replied(b) + Worked(b))
    <3>1. ~(n <= Replied(b)) /\ n - Replied(b) - Worked(b) \in DOMAIN b.commands
      BY <1>2, <1>8, <1>10, <2>2
    <3>2. M[n] = Entry(b2.commands[n - Replied(b) - Worked(b)], "todo")
      BY <1>7, <2>0, <2>2, <3>1 DEF Line
    <3>3. L[n] = Entry(b.commands[n - Replied(b) - Worked(b)], "todo")
      BY <2>2, <3>1 DEF Line
    <3> QED BY <1>2, <1>5, <3>1, <3>2, <3>3
  <2> QED BY <2>1, <2>2
<1>12. M[Size(b) + 1] = Entry(o, "todo")
  <2> DEFINE j == Len(b.commands) + 1
  <2>1. j \in 1 .. Len(b2.commands) /\ b2.commands[j] = o
        /\ Replied(b2) + Worked(b2) + j = Size(b) + 1
    BY <1>2, <1>5, <1>7, <1>8, <1>10
  <2> HIDE DEF j, M
  <2> QED BY <1>9, <2>1
<1> HIDE DEF L, M
<1> QED BY <1>5, <1>6, <1>8, <1>9, <1>10, <1>11, <1>12 DEF L, M, Puts

-----------------------------------------------------------------------------
(* The invariant of the viewer.                                            *)

\* What the latest edit of this session that succeeded made of row i; a row that
\* was hidden before counts as not hidden.
RowOp(i)     == IF rows[i].hidden /\ i \notin earlier THEN "hide" ELSE "unhide"
SeenOp(v, i) == IF i \in Range(v.hidden) THEN "hide" ELSE "unhide"

\* The other readers count and clear.
OthersOk ==
  \A h \in Readers \ {Ui} :
    /\ handle[h].pc = "open"
    /\ \A n \in DOMAIN handle[h].queue : handle[h].queue[n].op \in {"count", "clear"}

ChannelsOk ==
  /\ handle[Ui].pc = IF In("over") THEN "closed" ELSE "open"
  /\ GoodBridge(bridge) /\ GoodHandle(bridge, handle[Ui])
  /\ In("over") => bridge.commands = <<>> /\ bridge.working = None /\ bridge.replies = <<>>

ViewOk ==
  /\ GoodView(view)
  /\ drawn \in Ids \cup {None} /\ keys \in 0 .. MaxKeys /\ doubt \subseteq Ids
  /\ In("key") => drawn = Chosen(view)

\* Of every row that is not in doubt the line says what list and row say.
Predictions ==
  ~In("over") =>
    \A i \in (view.listed \cap DOMAIN rows) \ doubt :
      Predicted(Line(bridge, handle[Ui]), i, RowOp(i), SeenOp(view, i))

\* The load is the only command until it is applied, and the list is empty.
Loading ==
  IF view.load = "loading"
  THEN /\ view.entries = {} /\ view.hidden = <<>> /\ view.listed = {} /\ view.confirm = None
       /\ In("over") \/ (Size(bridge) = 1 /\ Line(bridge, handle[Ui])[1].op = "load")
  ELSE \A n \in 1 .. Size(bridge) : Line(bridge, handle[Ui])[n].op # "load"

\* No row of S was hidden in this session.
Fresh(S) == S \subseteq Ids /\ \A i \in S \cap DOMAIN rows : RowOp(i) = "unhide"

\* Before the load is applied there is no edit.
EarlierOk ==
  /\ launch.hidden \in BOOLEAN /\ earlier \subseteq Ids
  /\ \A i \in earlier \cap DOMAIN rows : rows[i].hidden
  /\ view.load = "loading" => Fresh(DOMAIN rows)

FreshOk ==
  /\ EarlierOk
  /\ \A n \in DOMAIN bridge.replies :
       bridge.replies[n].op = "load" /\ bridge.replies[n].ok => Fresh(bridge.replies[n].value)
  /\ /\ bridge.working # None /\ bridge.working.op = "load" /\ ~bridge.working.refused
     /\ handle[Ui].queue = <<>> /\ handle[Ui].answer.ok
     => Fresh(handle[Ui].answer.value)

VInv ==
  /\ HandlesOk /\ DataOk /\ OthersOk
  /\ ChannelsOk /\ ViewOk /\ Predictions /\ Loading /\ FreshOk

-----------------------------------------------------------------------------
(* What the steps have in common.                                          *)

LEMMA UiOk == Ui \in Readers /\ Ui \in Handles /\ Ui \notin Daemons
BY ViewerConstants, DaemonsAreHandles

LEMMA OpsOk == \A i, v : RowOp(i) \in Mutations /\ SeenOp(v, i) \in Mutations
BY DEF RowOp, SeenOp, Mutations

LEMMA NoneIsNoId == None \notin Ids /\ None \notin Working
BY ViewerConstants, HistoryConstants, IdsAreFinite

LEMMA SameEarlier ==
  ASSUME EarlierOk, UNCHANGED <<launch, rows, earlier>>,
         view'.load = "loading" => view.load = "loading"
  PROVE  EarlierOk' /\ \A S : Fresh(S)' <=> Fresh(S)
<1>1. \A i : RowOp(i)' = RowOp(i)
  BY DEF RowOp
<1> QED BY <1>1 DEF EarlierOk, Fresh

LEMMA Moved ==
  ASSUME NEW L, NEW M, NEW N, NEW k, MovesAt(L, M, N, k), M[k].st \in {"ok", "failed"},
         NEW i, NEW row \in Mutations, NEW seen \in Mutations, Predicted(L, i, row, seen),
         NEW new, new = IF L[k].op \in Mutations /\ L[k].id = i /\ M[k].st = "ok"
                        THEN L[k].op ELSE row
  PROVE  Predicted(M, i, new, seen)
<1>1. /\ IsLine(L, N) /\ IsLine(M, N) /\ k \in 1 .. N
      /\ L[k].st = "todo" /\ \A n \in 1 .. N : n < k => L[n].st # "todo"
      /\ \A n \in 1 .. N : n # k => M[n] = L[n]
      /\ M[k].op = L[k].op /\ M[k].id = L[k].id
  BY DEF MovesAt
<1>2. k \in Edits(L, i) <=> L[k].op \in Mutations /\ L[k].id = i
  BY <1>1 DEF Edits, IsLine
<1>3. /\ k \notin Edits(L, i) => Predicted(M, i, row, seen)
      /\ k \in Edits(L, i) /\ M[k].st = "failed" => Predicted(M, i, row, seen)
      /\ k \in Edits(L, i) /\ M[k].st = "ok" => Predicted(M, i, L[k].op, seen)
  BY <1>1, LineMoves
<1>4. CASE k \in Edits(L, i) /\ M[k].st = "ok"
  BY <1>2, <1>3, <1>4
<1>5. CASE ~(k \in Edits(L, i) /\ M[k].st = "ok")
  <2>1. new = row
    BY <1>2, <1>5
  <2>2. Predicted(M, i, row, seen)
    BY <1>3, <1>5
  <2> QED BY <2>1, <2>2
<1> QED BY <1>4, <1>5

LEMMA OpsStay ==
  ASSUME NEW L, NEW M, NEW N, NEW k, MovesAt(L, M, N, k)
  PROVE  \A n \in 1 .. N : M[n].op = L[n].op
BY DEF MovesAt

\* With an empty line row and list agree.
LEMMA EmptyLine ==
  ASSUME NEW L, DOMAIN L = {}, NEW i, NEW row
  PROVE  /\ Predicted(L, i, row, row)
         /\ \A seen : Predicted(L, i, row, seen) => row = seen
<1>1. Edits(L, i) = {}
  BY DEF Edits
<1> QED BY <1>1 DEF Predicted, Doomed, LastIsSeen, Alternate, NextTurnsRow, DoneAgrees

\* The list is another part of the view than where the loop is.
LEMMA PcOk ==
  ASSUME NEW v, GoodView(v), NEW pc \in {"apply", "key", "over"}, NEW w,
         w = [v EXCEPT !.pc = pc]
  PROVE  /\ GoodView(w) /\ w.pc = pc /\ Chosen(w) = Chosen(v)
         /\ w.load = v.load /\ w.entries = v.entries /\ w.hidden = v.hidden
         /\ w.listed = v.listed /\ w.confirm = v.confirm
<1>1. v \in View /\ Placed(v) /\ Consistent(v)
  BY DEF GoodView
<1>2. /\ w \in View /\ w.pc = pc
      /\ w.load = v.load /\ w.entries = v.entries /\ w.hidden = v.hidden
      /\ w.listed = v.listed /\ w.confirm = v.confirm
      /\ w.selected = v.selected /\ w.filtered = v.filtered
  BY <1>1 DEF View
<1>3. Shown(w) = Shown(v)
  BY <1>2 DEF Shown
<1>4. Chosen(w) = Chosen(v) /\ LastIndex(w) = LastIndex(v)
  BY <1>2, <1>3 DEF Chosen, LastIndex
<1>5. Placed(w) /\ Consistent(w)
  BY <1>1, <1>2, <1>4 DEF Placed, Consistent
<1> QED BY <1>1, <1>2, <1>4, <1>5 DEF GoodView

\* A command as a question.
LEMMA QuestionOk ==
  ASSUME NEW c, c.op \in CommandOps, c.op # "load" => c.id \in Ids, launch.hidden \in BOOLEAN
  PROVE  /\ Question(c) \in Command /\ Question(c).op \in ReaderOps
         /\ Asks(Question(c), c)
<1>0. AllServers \in BOOLEAN /\ (c.op = "hide") \in BOOLEAN
  BY DEF AllServers
<1>1. CASE c.op = "load"
  <2>1. Question(c) = [op |-> "list", hidden |-> launch.hidden, all |-> AllServers]
    BY <1>1 DEF Question, Mutations
  <2>2. Question(c) \in Listing
    BY <1>0, <2>1 DEF Listing
  <2>3. Question(c).op = "list" /\ c.op \notin Mutations
    BY <1>1, <2>1 DEF Mutations
  <2>4. Question(c) \in Command
    BY <2>2, CommandForms
  <2> QED BY <1>1, <2>3, <2>4 DEF ReaderOps, Asks
<1>2. CASE c.op \in Mutations
  <2> DEFINE b == c.op = "hide"
  <2>1. b \in BOOLEAN /\ c.id \in Ids /\ c.op # "load"
    BY <1>2 DEF Mutations
  <2>2. Question(c) = [op |-> "hide", id |-> c.id, hidden |-> b]
    BY <1>2 DEF Question, Mutations
  <2> HIDE DEF b
  <2>3. Question(c) \in Hiding /\ Question(c).op = "hide" /\ Question(c).id = c.id
        /\ Question(c).hidden = b
    BY <2>1, <2>2 DEF Hiding
  <2>4. Question(c) \in Command
    BY <2>3, CommandForms
  <2> QED BY <1>2, <2>1, <2>3, <2>4 DEF ReaderOps, Asks, b
<1>3. CASE c.op = "jump"
  <2>1. Question(c) = [op |-> "jumped", id |-> c.id] /\ c.id \in Ids
    BY <1>3 DEF Question, Mutations
  <2>2. Question(c) \in Jumping /\ Question(c).op = "jumped" /\ c.op \notin Mutations
    BY <1>3, <2>1 DEF Jumping, Mutations
  <2>3. Question(c) \in Command
    BY <2>2, CommandForms
  <2> QED BY <1>3, <2>2, <2>3 DEF ReaderOps, Asks
<1> QED BY <1>1, <1>2, <1>3 DEF CommandOps

\* A command at hand is no end of the viewer.
LEMMA NotOver ==
  ASSUME VInv
  PROVE  bridge.commands # <<>> \/ bridge.working # None \/ bridge.replies # <<>> => ~In("over")
BY DEF VInv, ChannelsOk

LEMMA ChannelsHold ==
  ASSUME GoodBridge(bridge'), GoodHandle(bridge', handle'[Ui]),
         handle'[Ui].pc = IF view'.pc = "over" THEN "closed" ELSE "open",
         view'.pc = "over" => /\ bridge'.commands = <<>> /\ bridge'.working = None
                              /\ bridge'.replies = <<>>
  PROVE  ChannelsOk'
<1>1. GoodBridge(bridge)'
  BY DEF GoodBridge
<1>2. GoodHandle(bridge, handle[Ui])'
  BY DEF GoodHandle
<1> QED BY <1>1, <1>2 DEF ChannelsOk, In

\* The thread has taken a command, or a command at work is done.
LEMMA LineMoved ==
  ASSUME VInv, ~In("over"), UNCHANGED <<view, drawn, keys, doubt>>,
         HandlesOk', DataOk', OthersOk', handle'[Ui].pc = "open",
         GoodBridge(bridge'), GoodHandle(bridge', handle'[Ui]), Size(bridge') = Size(bridge),
         NEW k, MovesAt(Line(bridge, handle[Ui]), Line(bridge', handle'[Ui]), Size(bridge), k),
         Line(bridge', handle'[Ui])[k].st \in {"ok", "failed"},
         DOMAIN rows' \subseteq DOMAIN rows,
         \A i \in DOMAIN rows' :
           RowOp(i)' = IF /\ Line(bridge, handle[Ui])[k].op \in Mutations
                          /\ Line(bridge, handle[Ui])[k].id = i
                          /\ Line(bridge', handle'[Ui])[k].st = "ok"
                       THEN Line(bridge, handle[Ui])[k].op ELSE RowOp(i),
         FreshOk'
  PROVE  VInv'
<1> DEFINE L == Line(bridge, handle[Ui])
           M == Line(bridge', handle'[Ui])
<1>1. ChannelsOk'
  <2>1. view'.pc # "over"
    BY DEF In
  <2> QED BY <2>1, ChannelsHold
<1>2. ViewOk'
  BY DEF VInv, ViewOk, In
<1>3. Predictions'
  <2> SUFFICES ASSUME NEW i \in (view.listed \cap DOMAIN rows') \ doubt
               PROVE  Predicted(M, i, RowOp(i)', SeenOp(view, i))
    BY DEF Predictions, SeenOp, In
  <2>1. Predicted(L, i, RowOp(i), SeenOp(view, i))
    BY DEF VInv, Predictions
  <2>2. RowOp(i) \in Mutations /\ SeenOp(view, i) \in Mutations
    BY OpsOk
  <2>3. RowOp(i)' = IF L[k].op \in Mutations /\ L[k].id = i /\ M[k].st = "ok"
                    THEN L[k].op ELSE RowOp(i)
    OBVIOUS
  <2>4. MovesAt(L, M, Size(bridge), k) /\ M[k].st \in {"ok", "failed"}
    OBVIOUS
  <2> HIDE DEF L, M
  <2> QED BY <2>1, <2>2, <2>3, <2>4, Moved
<1>4. Loading'
  <2>1. \A n \in 1 .. Size(bridge) : M[n].op = L[n].op
    BY OpsStay
  <2>2. Size(bridge) = 1 => 1 \in 1 .. Size(bridge)
    OBVIOUS
  <2>3. Loading
    BY DEF VInv
  <2>4. /\ Loading <=> IF view.load = "loading"
                       THEN /\ view.entries = {} /\ view.hidden = <<>> /\ view.listed = {}
                            /\ view.confirm = None
                            /\ In("over") \/ (Size(bridge) = 1 /\ L[1].op = "load")
                       ELSE \A n \in 1 .. Size(bridge) : L[n].op # "load"
        /\ Loading' <=> IF view.load = "loading"
                        THEN /\ view.entries = {} /\ view.hidden = <<>> /\ view.listed = {}
                             /\ view.confirm = None
                             /\ In("over") \/ (Size(bridge) = 1 /\ M[1].op = "load")
                        ELSE \A n \in 1 .. Size(bridge) : M[n].op # "load"
    BY DEF Loading, In
  <2> HIDE DEF L, M
  <2> QED BY <2>1, <2>2, <2>3, <2>4
<1> QED BY <1>1, <1>2, <1>3, <1>4 DEF VInv

\* The line stays as it is.
LEMMA LineStays ==
  ASSUME VInv, UNCHANGED view, ViewOk', UNCHANGED doubt,
         HandlesOk', DataOk', OthersOk', handle'[Ui].pc = handle[Ui].pc,
         GoodBridge(bridge'), GoodHandle(bridge', handle'[Ui]), Size(bridge') = Size(bridge),
         Line(bridge', handle'[Ui]) = Line(bridge, handle[Ui]),
         In("over") => UNCHANGED bridge,
         DOMAIN rows' \subseteq DOMAIN rows,
         \A i \in DOMAIN rows' : RowOp(i)' = RowOp(i),
         FreshOk'
  PROVE  VInv'
<1>1. ChannelsOk'
  <2>1. /\ handle'[Ui].pc = IF view'.pc = "over" THEN "closed" ELSE "open"
        /\ view'.pc = "over" => /\ bridge'.commands = <<>> /\ bridge'.working = None
                                /\ bridge'.replies = <<>>
    BY DEF VInv, ChannelsOk, In
  <2> QED BY <2>1, ChannelsHold
<1>3. Predictions'
  <2> SUFFICES ASSUME ~In("over"), NEW i \in (view.listed \cap DOMAIN rows') \ doubt
               PROVE  Predicted(Line(bridge, handle[Ui]), i, RowOp(i)', SeenOp(view, i))
    BY DEF Predictions, SeenOp, In
  <2>1. Predicted(Line(bridge, handle[Ui]), i, RowOp(i), SeenOp(view, i))
    BY DEF VInv, Predictions
  <2>2. RowOp(i)' = RowOp(i)
    OBVIOUS
  <2> QED BY <2>1, <2>2
<1>4. Loading'
  BY DEF VInv, Loading, In
<1> QED BY <1>1, <1>3, <1>4 DEF VInv

-----------------------------------------------------------------------------
(* The action thread takes a command and replies.                          *)

LEMMA TakeOk ==
  ASSUME VInv, Take
  PROVE  VInv'
<1> DEFINE x == handle[Ui]
           y == handle'[Ui]
           c == Head(bridge.commands)
           k == Replied(bridge) + 1
<1>1. /\ bridge.working = None /\ bridge.commands # <<>>
      /\ UNCHANGED <<launch, view, drawn, keys, doubt, earlier>>
  BY DEF Take
<1>2. PICK refused \in BOOLEAN :
        /\ refused => c.op \notin Mutations
        /\ bridge' = [bridge EXCEPT !.commands = Tail(@),
                        !.working = [op |-> c.op, id |-> c.id, refused |-> refused]]
        /\ IF refused THEN UNCHANGED vars ELSE Ask(Ui, Question(c)) /\ UNCHANGED spent
  BY DEF Take
<1>3. ~In("over") /\ handle[Ui].pc = "open" /\ HandlesOk /\ DataOk /\ OthersOk
      /\ GoodBridge(bridge) /\ GoodHandle(bridge, x) /\ FreshOk /\ launch.hidden \in BOOLEAN
  BY <1>1, NotOver DEF VInv, ChannelsOk, FreshOk, EarlierOk
<1>4. x.queue = <<>>
  BY <1>1, <1>3 DEF GoodHandle
<1>5. c \in Orders
  BY <1>1, <1>3, TailOk DEF GoodBridge
<1>5a. PICK w \in Working : w = [op |-> c.op, id |-> c.id, refused |-> refused]
  BY <1>2, <1>5, OrdersOk
<1>6. /\ w.op = c.op /\ w.id = c.id /\ w.refused = refused /\ w # None
      /\ bridge' = [bridge EXCEPT !.commands = Tail(@), !.working = w]
      /\ bridge'.working = w /\ bridge'.replies = bridge.replies
  BY <1>2, <1>3, <1>5a, NoneIsNoId DEF GoodBridge
<1>7. c.op \in CommandOps /\ (c.op # "load" => c.id \in Ids)
  BY <1>5, OrdersOk
<1>7a. w.op = Head(bridge.commands).op /\ w.id = Head(bridge.commands).id
  BY <1>6
<1>7b. /\ bridge.working = None /\ bridge.commands # <<>> /\ w # None
       /\ GoodBridge(bridge) /\ GoodHandle(bridge, handle[Ui])
       /\ bridge' = [bridge EXCEPT !.commands = Tail(@), !.working = w]
  BY <1>1, <1>3, <1>6
<1> HIDE DEF c
<1>8. CASE refused
  <2>1. UNCHANGED vars /\ y = x
    BY <1>2, <1>8 DEF vars
  <2>2. GoodHandle(bridge', y)
    BY <1>4, <1>6, <1>8, <2>1 DEF GoodHandle
  <2>3. /\ GoodBridge(bridge') /\ Size(bridge') = Size(bridge)
        /\ MovesAt(Line(bridge, x), Line(bridge', y), Size(bridge), k)
        /\ Line(bridge', y)[k] = Entry(w, Stage(w, y))
        /\ Line(bridge, x)[k] = Entry(w, "todo")
    <3>1. Takes(bridge, x, w, bridge', y)
      BY <1>7a, <1>7b, <2>2, TakeLine
    <3> QED BY <3>1 DEF Takes
  <2>4. Stage(w, y) = "failed"
    BY <1>6, <1>8 DEF Stage
  <2>5. FreshOk'
    BY <1>1, <1>3, <1>6, <1>8, <2>1, SameEarlier DEF FreshOk, vars
  <2>6. HandlesOk' /\ DataOk' /\ OthersOk'
    BY <1>3, <2>1 DEF HandlesOk, HandleOk, DataOk, Numbered, OthersOk, vars
  <2>7. \A i \in DOMAIN rows' : RowOp(i)' = RowOp(i)
    BY <1>1, <2>1 DEF RowOp, vars
  <2>8. Line(bridge', y)[k].st = "failed" /\ Line(bridge, x)[k].op = c.op
    BY <1>6, <2>3, <2>4 DEF Entry
  <2>9. y.pc = "open" /\ DOMAIN rows' \subseteq DOMAIN rows
    BY <1>3, <2>1 DEF vars
  <2>10. UNCHANGED <<launch, view, drawn, keys, doubt, earlier>>
    BY <1>1
  <2> QED BY <1>3, <2>2, <2>3, <2>5, <2>6, <2>7, <2>8, <2>9, <2>10, LineMoved
<1>9. CASE ~refused
  <2>1. Ask(Ui, Question(c)) /\ UNCHANGED spent
    BY <1>2, <1>9
  <2>2. Question(c) \in Command /\ Question(c).op \in ReaderOps /\ Asks(Question(c), w)
    BY <1>3, <1>6, <1>7, QuestionOk DEF Asks
  <2>3. /\ HandlesOk' /\ \A g \in Handles \ {Ui} : handle'[g] = handle[g]
        /\ handle'[Ui].pc = "open" /\ handle'[Ui].queue = <<Question(c)>>
    BY <1>3, <2>1, <2>2, UiOk, AskOk
  <2>4. UNCHANGED <<version, rows, known, spent>>
    BY <2>1 DEF Ask
  <2>5. y.queue # <<>> /\ Tail(y.queue) = <<>> /\ Head(y.queue) = Question(c)
    BY <2>3
  <2>6. GoodHandle(bridge', y)
    BY <1>6, <1>9, <2>2, <2>5 DEF GoodHandle
  <2>7. /\ GoodBridge(bridge') /\ Size(bridge') = Size(bridge)
        /\ MovesAt(Line(bridge, x), Line(bridge', y), Size(bridge), k)
        /\ Line(bridge', y)[k] = Entry(w, Stage(w, y))
        /\ Line(bridge, x)[k] = Entry(w, "todo")
    <3>1. Takes(bridge, x, w, bridge', y)
      BY <1>7a, <1>7b, <2>6, TakeLine
    <3> QED BY <3>1 DEF Takes
  <2>8. Stage(w, y) = "todo"
    BY <1>6, <1>9, <2>5 DEF Stage
  <2>9. Line(bridge', y) = Line(bridge, x)
    <3>1. \A n \in 1 .. Size(bridge) : Line(bridge', y)[n] = Line(bridge, x)[n]
      BY <2>7, <2>8 DEF MovesAt
    <3> QED BY <2>7, <3>1, SameLine
  <2>10. FreshOk'
    BY <1>1, <1>3, <1>6, <2>4, <2>5, SameEarlier DEF FreshOk
  <2>11. DataOk' /\ OthersOk'
    BY <1>3, <2>3, <2>4, UiOk, DaemonsAreHandles DEF DataOk, Numbered, OthersOk
  <2>12. ViewOk'
    BY <1>1 DEF VInv, ViewOk, In
  <2>13. \A i \in DOMAIN rows' : RowOp(i)' = RowOp(i)
    BY <1>1, <2>4 DEF RowOp
  <2>14. handle'[Ui].pc = handle[Ui].pc /\ DOMAIN rows' \subseteq DOMAIN rows
    BY <1>3, <2>3, <2>4
  <2>15. UNCHANGED view /\ UNCHANGED doubt
    BY <1>1
  <2> QED BY <1>3, <2>3, <2>6, <2>7, <2>9, <2>10, <2>11, <2>12, <2>13, <2>14, <2>15, LineStays
<1> QED BY <1>8, <1>9

LEMMA ReplyOk ==
  ASSUME VInv, Reply
  PROVE  VInv'
<1> DEFINE x == handle[Ui]
           w == bridge.working
           r == Answer(bridge.working)
<1>1. /\ w # None /\ Len(bridge.replies) < ActionCapacity
      /\ w.refused \/ x.queue = <<>>
      /\ bridge' = [bridge EXCEPT !.replies = Append(@, r), !.working = None]
      /\ UNCHANGED <<vars, launch, view, drawn, keys, doubt, earlier>>
  BY DEF Reply, CanReply
<1>2. ~In("over") /\ HandlesOk /\ DataOk /\ OthersOk
      /\ GoodBridge(bridge) /\ GoodHandle(bridge, x) /\ FreshOk
  BY <1>1, NotOver DEF VInv, ChannelsOk
<1>3. w \in Working /\ w.refused \in BOOLEAN
  BY <1>1, <1>2, OrdersOk DEF GoodBridge
<1>4. /\ r \in Replies /\ r.op = w.op /\ r.id = w.id /\ r.ok \in BOOLEAN
      /\ w.refused => r.ok = FALSE
      /\ ~w.refused => r.ok = x.answer.ok
      /\ ~w.refused => r.value = x.answer.value
  <2>1. CASE w.refused
    <3>1. r = [op |-> w.op, id |-> w.id, refused |-> TRUE, ok |-> FALSE, value |-> None]
      BY <2>1 DEF Answer
    <3>2. None \in Values
      BY DEF Values
    <3>3. [op |-> w.op, id |-> w.id, refused |-> TRUE, ok |-> FALSE, value |-> None] \in Replies
      BY <1>3, <3>2, OrdersOk
    <3>4. r.op = w.op /\ r.id = w.id /\ r.ok = FALSE /\ r \in Replies
      BY <3>1, <3>3
    <3> HIDE DEF r
    <3> QED BY <2>1, <3>4
  <2>2. CASE ~w.refused
    <3>1. r = [op |-> w.op, id |-> w.id, refused |-> FALSE,
               ok |-> x.answer.ok, value |-> x.answer.value]
      BY <2>2 DEF Answer
    <3>2. x.answer.ok \in BOOLEAN /\ x.answer.value \in Values
      <4>1. x.queue = <<>>
        BY <1>1, <2>2
      <4> QED BY <1>1, <1>2, <2>2, <4>1 DEF GoodHandle
    <3>3. FALSE \in BOOLEAN
      OBVIOUS
    <3> PICK ok \in BOOLEAN, value \in Values : ok = x.answer.ok /\ value = x.answer.value
      BY <3>2
    <3>4. r \in Replies
      <4>1. [op |-> w.op, id |-> w.id, refused |-> FALSE, ok |-> ok, value |-> value] \in Replies
        BY <1>3, <3>3, OrdersOk
      <4> QED BY <3>1, <4>1
    <3>5. r.op = w.op /\ r.id = w.id /\ r.ok = x.answer.ok /\ r.value = x.answer.value
      BY <3>1
    <3> QED BY <2>2, <3>2, <3>4, <3>5
  <2> HIDE DEF r, x
  <2> QED BY <1>3, <2>1, <2>2
<1> HIDE DEF r
<1>5. /\ GoodBridge(bridge') /\ GoodHandle(bridge', x)
      /\ Size(bridge') = Size(bridge) /\ Line(bridge', x) = Line(bridge, x)
  <2>1. /\ bridge.working # None /\ Len(bridge.replies) < ActionCapacity
        /\ bridge.working.refused \/ handle[Ui].queue = <<>>
        /\ GoodBridge(bridge) /\ GoodHandle(bridge, handle[Ui])
        /\ bridge' = [bridge EXCEPT !.replies = Append(@, r), !.working = None]
        /\ r.op = bridge.working.op /\ r.id = bridge.working.id /\ r \in Replies
        /\ r.ok \in BOOLEAN 
        /\ bridge.working.refused => r.ok = FALSE
        /\ ~bridge.working.refused => r.ok = handle[Ui].answer.ok
    BY <1>1, <1>2, <1>4
  <2>2. Hands(bridge, handle[Ui], bridge')
    BY <2>1, ReplyLine
  <2> QED BY <2>2 DEF Hands
<1>6. handle' = handle /\ rows' = rows
  BY <1>1 DEF vars
<1>7. FreshOk'
  <2>1. bridge.replies \in Seq(Replies)
    BY <1>2 DEF GoodBridge
  <2>2. bridge'.replies = Append(bridge.replies, r) /\ bridge'.working = None
    BY <1>1, <1>2 DEF GoodBridge
  <2>3. /\ DOMAIN bridge'.replies = 1 .. Len(bridge.replies) + 1
        /\ DOMAIN bridge.replies = 1 .. Len(bridge.replies) /\ Len(bridge.replies) \in Nat
        /\ \A n \in DOMAIN bridge.replies : bridge'.replies[n] = bridge.replies[n]
        /\ bridge'.replies[Len(bridge.replies) + 1] = r
    BY <1>4, <2>1, <2>2, AppendOk
  <2>4. r.op = "load" /\ r.ok => Fresh(r.value)
    <3>1. x.queue = <<>> \/ w.refused
      BY <1>1
    <3> QED BY <1>1, <1>2, <1>4, <3>1 DEF FreshOk
  <2>5. EarlierOk' /\ \A S : Fresh(S)' <=> Fresh(S)
    BY <1>1, <1>2, <1>6, SameEarlier DEF FreshOk
  <2>6. \A n \in DOMAIN bridge'.replies : n \in DOMAIN bridge.replies \/ n = Len(bridge.replies) + 1
    BY <2>3
  <2>7. ASSUME NEW n \in DOMAIN bridge'.replies, bridge'.replies[n].op = "load", bridge'.replies[n].ok
        PROVE  Fresh(bridge.replies[n].value)'
    <3>1. CASE n \in DOMAIN bridge.replies
      <4>1. Fresh(bridge.replies[n].value)
        BY <1>2, <2>3, <2>7, <3>1 DEF FreshOk
      <4>2. bridge'.replies[n].value = bridge.replies[n].value
        BY <2>3, <3>1
      <4> QED BY <2>5, <4>1, <4>2 DEF Fresh, RowOp
    <3>2. CASE n = Len(bridge.replies) + 1
      <4>1. bridge'.replies[n] = r
        BY <2>3, <3>2
      <4>2. Fresh(r.value)
        BY <2>4, <2>7, <4>1
      <4> QED BY <2>5, <4>1, <4>2 DEF Fresh, RowOp
    <3> QED BY <2>6, <3>1, <3>2
  <2> QED BY <2>2, <2>5, <2>7 DEF FreshOk
<1>8. HandlesOk' /\ DataOk' /\ OthersOk'
  BY <1>1, <1>2 DEF HandlesOk, HandleOk, DataOk, Numbered, OthersOk, vars
<1>9. ViewOk' /\ UNCHANGED view /\ UNCHANGED doubt
  BY <1>1 DEF VInv, ViewOk, In
<1>10. \A i \in DOMAIN rows' : RowOp(i)' = RowOp(i)
  BY <1>1, <1>6 DEF RowOp
<1>11. GoodHandle(bridge', handle'[Ui]) /\ Line(bridge', handle'[Ui]) = Line(bridge, handle[Ui])
       /\ handle'[Ui].pc = handle[Ui].pc /\ DOMAIN rows' \subseteq DOMAIN rows
  BY <1>5, <1>6
<1> QED BY <1>2, <1>5, <1>7, <1>8, <1>9, <1>10, <1>11, LineStays

-----------------------------------------------------------------------------
(* The event loop.                                                         *)

\* The viewer ends.
LEMMA ExitsOk ==
  ASSUME VInv, Exits(view)
  PROVE  VInv'
<1>1. /\ view' = [view EXCEPT !.pc = "over"]
      /\ bridge' = [commands |-> <<>>, working |-> None, replies |-> <<>>]
      /\ handle' = [handle EXCEPT ![Ui] = Closed]
      /\ UNCHANGED <<version, rows, known, spent, launch, drawn, keys, doubt, earlier>>
  BY DEF Exits
<1>2. HandlesOk /\ DataOk /\ OthersOk /\ GoodView(view) /\ ViewOk /\ Loading
  BY DEF VInv, ViewOk
<1>3. /\ DOMAIN handle' = Handles /\ handle'[Ui] = Closed
      /\ \A g \in Handles \ {Ui} : handle'[g] = handle[g]
  BY <1>1, <1>2, UiOk DEF HandlesOk
<1>4. /\ GoodView(view') /\ view'.pc = "over"
      /\ view'.load = view.load /\ view'.entries = view.entries /\ view'.hidden = view.hidden
      /\ view'.listed = view.listed /\ view'.confirm = view.confirm
  BY <1>1, <1>2, PcOk
<1>5. HandlesOk'
  <2>1. HandleOk(Ui)'
    <3>1. 0 \in 0 .. MaxAttempts - 1 /\ QueueCapacity \in Nat
      BY HistoryConstants
    <3>2. <<>> \in Seq(Command) /\ Len(<<>>) = 0 /\ DOMAIN <<>> = {}
      BY EmptyOk
    <3>3. /\ handle'[Ui].pc = "closed" /\ handle'[Ui].queue = <<>> /\ handle'[Ui].tries = 0
          /\ handle'[Ui].answer = None
          /\ handle'[Ui] = [pc |-> handle'[Ui].pc, queue |-> handle'[Ui].queue,
                            tries |-> handle'[Ui].tries, answer |-> handle'[Ui].answer]
      BY <1>3 DEF Closed
    <3> QED BY <3>1, <3>2, <3>3 DEF HandleOk, IsAnswer
  <2>2. \A g \in Handles \ {Ui} : HandleOk(g)'
    BY <1>2, <1>3 DEF HandlesOk, HandleOk
  <2> QED BY <1>3, <2>1, <2>2 DEF HandlesOk
<1>6. DataOk' /\ OthersOk'
  BY <1>1, <1>2, <1>3, UiOk, DaemonsAreHandles DEF DataOk, Numbered, OthersOk
<1>7. /\ bridge'.commands = <<>> /\ bridge'.working = None /\ bridge'.replies = <<>>
      /\ handle'[Ui].pc = "closed" /\ handle'[Ui].queue = <<>>
  BY <1>1, <1>3 DEF Closed
<1>8. GoodBridge(bridge')
  <2>1. /\ <<>> \in Seq(Orders) /\ <<>> \in Seq(Replies) /\ Len(<<>>) = 0
        /\ 0 <= ActionCapacity /\ None \in Working \cup {None}
    BY EmptyOk, ViewerConstants
  <2> QED BY <1>1, <2>1, BridgeOf
<1>9. ChannelsOk'
  <2>1. GoodHandle(bridge', handle'[Ui])
    BY <1>7 DEF GoodHandle
  <2> QED BY <1>4, <1>7, <1>8, <2>1, ChannelsHold
<1>10. ViewOk'
  <2>1. GoodView(view)'
    BY <1>4 DEF GoodView, View, Placed, Consistent, LastIndex, Shown
  <2> QED BY <1>1, <1>2, <1>4, <2>1 DEF ViewOk, In
<1>11. Predictions'
  BY <1>4 DEF Predictions, In
<1>12. Loading'
  <2>1. Size(bridge') = 0
    BY <1>7, EmptyOk DEF Size, Replied, Worked
  <2> QED BY <1>2, <1>4, <2>1 DEF Loading, In
<1>13. FreshOk'
  <2>1. DOMAIN bridge'.replies = {}
    BY <1>7, EmptyOk
  <2>2. EarlierOk'
    BY <1>1, <1>4, SameEarlier DEF VInv, FreshOk
  <2> QED BY <1>7, <2>1, <2>2 DEF FreshOk
<1> QED BY <1>5, <1>6, <1>9, <1>10, <1>11, <1>12, <1>13 DEF VInv

\* The history and its handles are as they were.
LEMMA StoreStays ==
  ASSUME VInv, UNCHANGED vars, UNCHANGED <<launch, earlier>>
  PROVE  /\ HandlesOk' /\ DataOk' /\ OthersOk' /\ handle'[Ui] = handle[Ui] /\ rows' = rows
         /\ \A i : RowOp(i)' = RowOp(i)
         /\ \A S : Fresh(S) => Fresh(S)'
         /\ (view'.load = "loading" => view.load = "loading") => EarlierOk'
<1>1. rows' = rows
  BY DEF vars
<1>2. EarlierOk
  BY DEF VInv, FreshOk
<1>3. /\ \A i : RowOp(i)' = RowOp(i)
      /\ \A S : Fresh(S) => Fresh(S)'
  BY <1>1 DEF RowOp, Fresh
<1>4. (view'.load = "loading" => view.load = "loading") => EarlierOk'
  BY <1>1, <1>2, <1>3 DEF EarlierOk, Fresh
<1> QED BY <1>1, <1>3, <1>4 DEF VInv, HandlesOk, HandleOk, DataOk, Numbered, OthersOk, vars

\* The loop goes on, and no command is sent.
LEMMA ListStays ==
  ASSUME VInv, ~In("over"), UNCHANGED vars, UNCHANGED <<launch, bridge, doubt, earlier>>,
         GoodView(view'), view'.pc \in {"apply", "key"},
         view'.load = view.load, view'.entries = view.entries, view'.hidden = view.hidden,
         view'.listed = view.listed,
         view.load = "loading" => view'.confirm = None,
         drawn' \in Ids \cup {None}, keys' \in 0 .. MaxKeys,
         view'.pc = "key" => drawn' = Chosen(view')
  PROVE  VInv'
<1>1. /\ HandlesOk' /\ DataOk' /\ OthersOk' /\ handle'[Ui] = handle[Ui] /\ rows' = rows
      /\ \A i : RowOp(i)' = RowOp(i)
      /\ \A S : Fresh(S) => Fresh(S)'
      /\ EarlierOk'
  BY StoreStays
<1>2. ChannelsOk'
  <2>1. bridge' = bridge
    OBVIOUS
  <2>2. /\ handle[Ui].pc = "open" /\ GoodBridge(bridge) /\ GoodHandle(bridge, handle[Ui])
    BY DEF VInv, ChannelsOk
  <2>3. view'.pc # "over"
    OBVIOUS
  <2>4. GoodBridge(bridge') /\ GoodHandle(bridge', handle'[Ui]) /\ handle'[Ui].pc = "open"
    BY <1>1, <2>1, <2>2
  <2> QED BY <2>3, <2>4, ChannelsHold
<1>3. ViewOk'
  <2>1. GoodView(view)' /\ Chosen(view)' = Chosen(view')
    BY DEF GoodView, View, Placed, Consistent, LastIndex, Shown, Chosen
  <2>2. doubt \subseteq Ids
    BY DEF VInv, ViewOk
  <2> QED BY <2>1, <2>2 DEF ViewOk, In
<1>4. Predictions'
  <2> SUFFICES ASSUME NEW i \in (view.listed \cap DOMAIN rows) \ doubt
               PROVE  Predicted(Line(bridge, handle[Ui]), i, RowOp(i), SeenOp(view, i))
    BY <1>1 DEF Predictions, SeenOp
  <2> QED BY DEF VInv, Predictions
<1>5. Loading'
  <2>1. Loading /\ view'.pc # "over"
    BY DEF VInv
  <2> QED BY <1>1, <2>1 DEF Loading, In
<1>6. FreshOk'
  BY <1>1 DEF VInv, FreshOk, Fresh
<1> QED BY <1>1, <1>2, <1>3, <1>4, <1>5, <1>6 DEF VInv

LEMMA DrawOk ==
  ASSUME VInv, Draw
  PROVE  VInv'
<1>1. /\ In("apply") /\ view' = [view EXCEPT !.pc = "key"] /\ drawn' = Chosen(view)
      /\ UNCHANGED <<vars, launch, bridge, keys, doubt, earlier>>
  BY DEF Draw
<1>2. GoodView(view) /\ keys \in 0 .. MaxKeys /\ ~In("over") /\ Loading
  BY <1>1 DEF VInv, ViewOk, In
<1>3. /\ GoodView(view') /\ view'.pc = "key" /\ Chosen(view') = Chosen(view)
      /\ view'.load = view.load /\ view'.entries = view.entries /\ view'.hidden = view.hidden
      /\ view'.listed = view.listed /\ view'.confirm = view.confirm
  BY <1>1, <1>2, PcOk
<1>4. drawn' \in Ids \cup {None}
  BY <1>1, <1>2, ChosenOk DEF GoodView, View
<1>5. view.load = "loading" => view'.confirm = None
  BY <1>2, <1>3 DEF Loading
<1> QED BY <1>1, <1>2, <1>3, <1>4, <1>5, ListStays

LEMMA NoKeyOk ==
  ASSUME VInv, NoKey
  PROVE  VInv'
<1>1. /\ In("key") /\ view' = [view EXCEPT !.pc = "apply"]
      /\ UNCHANGED <<vars, launch, drawn, bridge, keys, doubt, earlier>>
  BY DEF NoKey
<1>2. GoodView(view) /\ keys \in 0 .. MaxKeys /\ ~In("over") /\ Loading
      /\ drawn \in Ids \cup {None}
  BY <1>1 DEF VInv, ViewOk, In
<1>3. /\ GoodView(view') /\ view'.pc = "apply"
      /\ view'.load = view.load /\ view'.entries = view.entries /\ view'.hidden = view.hidden
      /\ view'.listed = view.listed /\ view'.confirm = view.confirm
  BY <1>1, <1>2, PcOk
<1>4. view.load = "loading" => view'.confirm = None
  BY <1>2, <1>3 DEF Loading
<1> QED BY <1>1, <1>2, <1>3, <1>4, ListStays

\* What a key leaves behind.
LEMMA PressedOk ==
  ASSUME VInv, NEW v, GoodView(v), Pressed(v)
  PROVE  /\ ~In("over") /\ In("key") /\ UNCHANGED vars /\ UNCHANGED <<launch, drawn, earlier>>
         /\ keys' \in 0 .. MaxKeys /\ drawn' \in Ids \cup {None}
         /\ GoodView(view') /\ view'.pc = "apply"
         /\ view'.load = v.load /\ view'.entries = v.entries /\ view'.hidden = v.hidden
         /\ view'.listed = v.listed /\ view'.confirm = v.confirm
<1>1. /\ In("key") /\ keys < MaxKeys /\ keys' = keys + 1
      /\ view' = [v EXCEPT !.pc = "apply"] /\ UNCHANGED <<vars, launch, drawn, earlier>>
  BY DEF Pressed, AfterKey
<1>2. keys \in 0 .. MaxKeys /\ drawn \in Ids \cup {None} /\ MaxKeys \in Nat
  BY ViewerConstants DEF VInv, ViewOk
<1>3. /\ GoodView(view') /\ view'.pc = "apply"
      /\ view'.load = v.load /\ view'.entries = v.entries /\ view'.hidden = v.hidden
      /\ view'.listed = v.listed /\ view'.confirm = v.confirm
  BY <1>1, PcOk
<1>4. keys' \in 0 .. MaxKeys
  BY <1>1, <1>2
<1>5. ~In("over") /\ drawn' \in Ids \cup {None}
  BY <1>1, <1>2 DEF In
<1> QED BY <1>1, <1>3, <1>4, <1>5

\* A key that sends nothing and leaves the rows alone.
LEMMA QuietKeyOk ==
  ASSUME VInv, NEW v, GoodView(v), Pressed(v), Quietly,
         v.load = view.load, v.entries = view.entries, v.hidden = view.hidden,
         v.listed = view.listed, view.load = "loading" => v.confirm = None
  PROVE  VInv'
<1>1. /\ ~In("over") /\ UNCHANGED vars /\ UNCHANGED <<launch, earlier>>
      /\ keys' \in 0 .. MaxKeys /\ drawn' \in Ids \cup {None}
      /\ GoodView(view') /\ view'.pc = "apply"
      /\ view'.load = v.load /\ view'.entries = v.entries /\ view'.hidden = v.hidden
      /\ view'.listed = v.listed /\ view'.confirm = v.confirm
  BY PressedOk
<1>2. UNCHANGED <<bridge, doubt>>
  BY DEF Quietly
<1> QED BY <1>1, <1>2, ListStays

-----------------------------------------------------------------------------
(* The keys.                                                               *)

\* View w has the rows of v.
Keeps(v, w) ==
  /\ GoodView(w) /\ w.load = v.load /\ w.entries = v.entries /\ w.hidden = v.hidden
  /\ w.listed = v.listed /\ w.confirm = v.confirm

\* The selection moves to n, with a filter or without.
LEMMA SelectedOk ==
  ASSUME NEW v, GoodView(v), NEW filtered \in BOOLEAN, NEW n, NEW w,
         w = [v EXCEPT !.filtered = filtered, !.selected = n],
         n = 0 \/ (filtered = v.filtered /\ n \in 0 .. LastIndex(v))
  PROVE  Keeps(v, w)
<1>1. v \in View /\ Consistent(v) /\ LastIndex(v) \in Nat
  BY LastIndexOk DEF GoodView
<1>2. n \in Nat
  BY <1>1
<1>3. /\ w \in View /\ w.selected = n /\ w.filtered = filtered
      /\ w.load = v.load /\ w.entries = v.entries /\ w.hidden = v.hidden
      /\ w.listed = v.listed /\ w.confirm = v.confirm
  BY <1>1, <1>2 DEF View
<1>4. LastIndex(w) \in Nat /\ (filtered = v.filtered => LastIndex(w) = LastIndex(v))
  <2>1. LastIndex(w) \in Nat
    BY <1>3, LastIndexOk
  <2> QED BY <1>3, <2>1 DEF LastIndex, Shown
<1>5. Placed(w)
  BY <1>3, <1>4 DEF Placed
<1>6. Consistent(w)
  BY <1>1, <1>3 DEF Consistent
<1> QED BY <1>3, <1>5, <1>6 DEF GoodView, Keeps

LEMMA MoveOk ==
  ASSUME VInv, Move
  PROVE  VInv'
<1>1. PICK n \in 0 .. LastIndex(view) : Pressed([view EXCEPT !.selected = n])
  BY DEF Move
<1>2. GoodView(view) /\ Loading
  BY DEF VInv, ViewOk
<1> PICK v : v = [view EXCEPT !.selected = n]
  OBVIOUS
<1>3. v = [view EXCEPT !.filtered = view.filtered, !.selected = n] /\ view.filtered \in BOOLEAN
  BY <1>2 DEF GoodView, View
<1>4. /\ GoodView(v) /\ v.load = view.load /\ v.entries = view.entries /\ v.hidden = view.hidden
      /\ v.listed = view.listed /\ v.confirm = view.confirm
  <2>1. Keeps(view, v)
    BY <1>2, <1>3, SelectedOk
  <2> QED BY <2>1 DEF Keeps
<1>5. view.load = "loading" => v.confirm = None
  BY <1>2, <1>4 DEF Loading
<1>6. Pressed(v) /\ Quietly
  BY <1>1 DEF Move
<1> QED BY <1>4, <1>5, <1>6, QuietKeyOk

LEMMA FilterKeyOk ==
  ASSUME VInv, FilterKey
  PROVE  VInv'
<1>1. Pressed([view EXCEPT !.filtered = ~@, !.selected = 0]) /\ Quietly
  BY DEF FilterKey
<1>2. GoodView(view) /\ Loading
  BY DEF VInv, ViewOk
<1> PICK v : v = [view EXCEPT !.filtered = ~@, !.selected = 0]
  OBVIOUS
<1> PICK filtered \in BOOLEAN : filtered = ~view.filtered
  OBVIOUS
<1>3. v = [view EXCEPT !.filtered = filtered, !.selected = 0]
  BY <1>2 DEF GoodView, View
<1>4. /\ GoodView(v) /\ v.load = view.load /\ v.entries = view.entries /\ v.hidden = view.hidden
      /\ v.listed = view.listed /\ v.confirm = view.confirm
  <2>1. Keeps(view, v)
    BY <1>2, <1>3, SelectedOk
  <2> QED BY <2>1 DEF Keeps
<1>5. view.load = "loading" => v.confirm = None
  BY <1>2, <1>4 DEF Loading
<1>6. Pressed(v)
  BY <1>1
<1> QED BY <1>1, <1>4, <1>5, <1>6, QuietKeyOk

\* Only the question of a foreign jump changes.
LEMMA AskedOk ==
  ASSUME NEW v, GoodView(v), NEW i \in Ids \cup {None}, NEW w, w = [v EXCEPT !.confirm = i]
  PROVE  /\ GoodView(w) /\ w.load = v.load /\ w.entries = v.entries /\ w.hidden = v.hidden
         /\ w.listed = v.listed /\ w.confirm = i
<1>1. v \in View /\ Consistent(v) /\ Placed(v)
  BY DEF GoodView
<1>2. /\ w \in View /\ w.load = v.load /\ w.entries = v.entries /\ w.hidden = v.hidden
      /\ w.listed = v.listed /\ w.confirm = i /\ w.selected = v.selected
      /\ w.filtered = v.filtered
  BY <1>1 DEF View
<1> QED BY <1>1, <1>2 DEF GoodView, Consistent, Placed, LastIndex, Shown

LEMMA DeclineOk ==
  ASSUME VInv, Decline
  PROVE  VInv'
<1>1. Pressed([view EXCEPT !.confirm = None]) /\ Quietly
  BY DEF Decline
<1>2. GoodView(view)
  BY DEF VInv, ViewOk
<1> PICK v : v = [view EXCEPT !.confirm = None]
  OBVIOUS
<1>3. /\ GoodView(v) /\ v.load = view.load /\ v.entries = view.entries /\ v.hidden = view.hidden
      /\ v.listed = view.listed /\ v.confirm = None
  BY <1>2, AskedOk
<1>4. Pressed(v)
  BY <1>1
<1> QED BY <1>1, <1>3, <1>4, QuietKeyOk

\* A key that sends a command.  The list shows what a Hide or an Undo does.
LEMMA SendsOk ==
  ASSUME VInv, NEW v, GoodView(v), Pressed(v), NEW op \in {"jump"} \cup Mutations, NEW i \in Ids,
         Sends(op, i), v.load = view.load, v.listed = view.listed, view.load # "loading",
         op = "jump" => v.hidden = view.hidden,
         op \in Mutations =>
           /\ SeenOp(view, i) # op /\ SeenOp(v, i) = op
           /\ \A j \in Ids \ {i} : SeenOp(v, j) = SeenOp(view, j)
  PROVE  VInv'
<1> DEFINE x == handle[Ui]
           o == [op |-> op, id |-> i]
           L == Line(bridge, x)
           M == Line(bridge', x)
<1>1. /\ ~In("over") /\ UNCHANGED vars /\ UNCHANGED <<launch, earlier>>
      /\ keys' \in 0 .. MaxKeys /\ drawn' \in Ids \cup {None}
      /\ GoodView(view') /\ view'.pc = "apply"
      /\ view'.load = v.load /\ view'.entries = v.entries /\ view'.hidden = v.hidden
      /\ view'.listed = v.listed /\ view'.confirm = v.confirm
  BY PressedOk
<1>2. /\ HandlesOk' /\ DataOk' /\ OthersOk' /\ handle'[Ui] = x /\ rows' = rows
      /\ \A j : RowOp(j)' = RowOp(j)
      /\ \A S : Fresh(S) => Fresh(S)'
      /\ EarlierOk'
  BY <1>1, StoreStays
<1>3. /\ GoodBridge(bridge) /\ GoodHandle(bridge, x) /\ x.pc = "open"
      /\ doubt \subseteq Ids /\ Predictions /\ Loading /\ FreshOk
  BY <1>1 DEF VInv, ChannelsOk, ViewOk
<1>4. o \in Orders /\ o.op = op /\ o.id = i /\ op # "load"
  <2>1. op \in CommandOps /\ op # "load"
    BY DEF CommandOps, Mutations
  <2> QED BY <2>1, OrdersOk
<1> HIDE DEF o, x
<1>5. CASE Len(bridge.commands) < ActionCapacity
  <2>1. bridge' = [bridge EXCEPT !.commands = Append(@, o)] /\ doubt' = doubt
    BY <1>5 DEF Sends, o
  <2>2. Puts(bridge, x, o, bridge')
    BY <1>3, <1>4, <1>5, <2>1, SendLine
  <2>3. /\ GoodBridge(bridge') /\ GoodHandle(bridge', x)
        /\ IsLine(L, Size(bridge)) /\ IsLine(M, Size(bridge) + 1)
        /\ Size(bridge') = Size(bridge) + 1 /\ Size(bridge) \in Nat
        /\ \A n \in 1 .. Size(bridge) : M[n] = L[n]
        /\ M[Size(bridge) + 1] = Entry(o, "todo")
    BY <2>2 DEF Puts
  <2> HIDE DEF L, M
  <2>4. /\ M[Size(bridge) + 1].op = op /\ M[Size(bridge) + 1].id = i
        /\ M[Size(bridge) + 1].st = "todo"
    BY <1>4, <2>3 DEF Entry
  <2>5. ChannelsOk'
    BY <1>1, <1>2, <1>3, <2>3, ChannelsHold
  <2>6. ViewOk'
    <3>1. GoodView(view)'
      BY <1>1 DEF GoodView, View, Placed, Consistent, LastIndex, Shown
    <3> QED BY <1>1, <1>3, <2>1, <3>1 DEF ViewOk, In
  <2>7. Predictions'
    <3> SUFFICES ASSUME NEW j \in (view.listed \cap DOMAIN rows) \ doubt
                 PROVE  Predicted(M, j, RowOp(j), SeenOp(v, j))
      BY <1>1, <1>2, <2>1 DEF Predictions, SeenOp, M
    <3>1. Predicted(L, j, RowOp(j), SeenOp(view, j))
      BY <1>1, <1>3 DEF Predictions, L, x
    <3>2. RowOp(j) \in Mutations /\ SeenOp(view, j) \in Mutations
      BY OpsOk
    <3>3. /\ Size(bridge) + 1 \notin Edits(M, j) =>
               Predicted(M, j, RowOp(j), SeenOp(view, j))
          /\ Size(bridge) + 1 \in Edits(M, j) /\ M[Size(bridge) + 1].op # SeenOp(view, j) =>
               Predicted(M, j, RowOp(j), M[Size(bridge) + 1].op)
      BY <2>3, <2>4, <3>1, <3>2, LineGrows
    <3>4. Size(bridge) + 1 \in Edits(M, j) <=> op \in Mutations /\ j = i
      BY <2>3, <2>4 DEF Edits, IsLine
    <3>5. j \in Ids
      BY DEF VInv, ViewOk, GoodView, View
    <3>6. CASE op = "jump"
      <4>1. op \notin Mutations /\ SeenOp(v, j) = SeenOp(view, j)
        BY <3>6 DEF Mutations, SeenOp
      <4> QED BY <3>3, <3>4, <4>1
    <3>7. CASE op \in Mutations /\ j = i
      <4>1. SeenOp(v, j) = op /\ M[Size(bridge) + 1].op # SeenOp(view, j)
        BY <2>4, <3>7
      <4> QED BY <2>4, <3>3, <3>4, <3>7, <4>1
    <3>8. CASE op \in Mutations /\ j # i
      <4>1. SeenOp(v, j) = SeenOp(view, j)
        BY <3>5, <3>8
      <4> QED BY <3>3, <3>4, <3>8, <4>1
    <3> QED BY <3>6, <3>7, <3>8
  <2>8. Loading'
    <3>1. \A n \in 1 .. Size(bridge) : L[n].op # "load"
      BY <1>3 DEF Loading, L, x
    <3>2. \A n \in 1 .. Size(bridge) + 1 : n \in 1 .. Size(bridge) \/ n = Size(bridge) + 1
      BY <2>3
    <3>3. \A n \in 1 .. Size(bridge) + 1 : M[n].op # "load"
      BY <1>4, <2>3, <2>4, <3>1, <3>2
    <3>4. view'.load # "loading"
      BY <1>1
    <3> QED BY <1>2, <2>3, <3>3, <3>4 DEF Loading, M
  <2>9. FreshOk'
    <3>1. bridge'.replies = bridge.replies /\ bridge'.working = bridge.working
      BY <1>3, <2>1 DEF GoodBridge
    <3> QED BY <1>2, <1>3, <3>1 DEF FreshOk, x
  <2> QED BY <1>2, <2>5, <2>6, <2>7, <2>8, <2>9 DEF VInv
<1>6. CASE ~(Len(bridge.commands) < ActionCapacity)
  <2>1. bridge' = bridge /\ doubt' = IF op = "jump" THEN doubt ELSE doubt \cup {i}
    BY <1>6 DEF Sends
  <2>2. ChannelsOk'
    <3>1. GoodBridge(bridge') /\ GoodHandle(bridge', handle'[Ui]) /\ handle'[Ui].pc = "open"
      BY <1>2, <1>3, <2>1
    <3> QED BY <1>1, <3>1, ChannelsHold
  <2>3. ViewOk'
    <3>1. GoodView(view)'
      BY <1>1 DEF GoodView, View, Placed, Consistent, LastIndex, Shown
    <3> QED BY <1>1, <1>3, <2>1, <3>1 DEF ViewOk, In
  <2>4. Predictions'
    <3> SUFFICES ASSUME NEW j \in (view.listed \cap DOMAIN rows) \ doubt'
                 PROVE  Predicted(L, j, RowOp(j), SeenOp(v, j))
      BY <1>1, <1>2, <2>1 DEF Predictions, SeenOp
    <3>1. j \notin doubt /\ (op # "jump" => j # i)
      BY <2>1
    <3>2. Predicted(L, j, RowOp(j), SeenOp(view, j))
      BY <1>1, <1>3, <3>1 DEF Predictions, x
    <3>3. j \in Ids
      BY DEF VInv, ViewOk, GoodView, View
    <3>4. SeenOp(v, j) = SeenOp(view, j)
      <4>1. CASE op = "jump"
        BY <4>1 DEF SeenOp
      <4>2. CASE op \in Mutations
        BY <3>1, <3>3, <4>2 DEF Mutations
      <4> QED BY <4>1, <4>2
    <3> QED BY <3>2, <3>4
  <2>5. Loading'
    BY <1>1, <1>2, <1>3, <2>1 DEF Loading, x
  <2>6. FreshOk'
    BY <1>2, <1>3, <2>1 DEF FreshOk, x
  <2> QED BY <1>2, <2>2, <2>3, <2>4, <2>5, <2>6 DEF VInv
<1> QED BY <1>5, <1>6

LEMMA HideOk ==
  ASSUME VInv, Hide
  PROVE  VInv'
<1> DEFINE i == Chosen(view)
<1>1. view.confirm = None /\ i # None /\ Pressed(TakenOut(view, i)) /\ Sends("hide", i)
  BY DEF Hide
<1>2. GoodView(view) /\ Loading /\ view \in View /\ Consistent(view)
  BY DEF VInv, ViewOk, GoodView
<1>3. i \in view.entries /\ i \in Ids
  BY <1>1, <1>2, ChosenOk DEF View
<1>4. view.load # "loading"
  BY <1>2, <1>3 DEF Loading
<1> HIDE DEF i
<1> PICK v : v = TakenOut(view, i)
  OBVIOUS
<1>5. /\ GoodView(v) /\ v.load = view.load /\ v.listed = view.listed
      /\ Range(v.hidden) = Range(view.hidden) \cup {i}
  BY <1>2, <1>3, TakenOutOk DEF SameRest
<1>6. i \notin Range(view.hidden)
  BY <1>2, <1>3 DEF Consistent
<1>7. /\ SeenOp(view, i) # "hide" /\ SeenOp(v, i) = "hide"
      /\ \A j \in Ids \ {i} : SeenOp(v, j) = SeenOp(view, j)
  BY <1>5, <1>6 DEF SeenOp
<1>8. Pressed(v) /\ Sends("hide", i)
  BY <1>1
<1>9. "hide" \in {"jump"} \cup Mutations /\ "hide" # "jump"
  BY DEF Mutations
<1> QED BY <1>3, <1>4, <1>5, <1>7, <1>8, <1>9, SendsOk

LEMMA UndoOk ==
  ASSUME VInv, Undo
  PROVE  VInv'
<1> DEFINE i == Last(view.hidden)
           u == TakenBack(view, i)
           v == [u EXCEPT !.selected = IndexOf(Shown(u), i)]
<1>1. view.hidden # <<>> /\ Pressed(v) /\ Sends("unhide", i)
  BY DEF Undo, TakenBack
<1>2. GoodView(view) /\ Loading
  BY DEF VInv, ViewOk
<1>3. /\ GoodView(v) /\ SameRest(view, v)
      /\ i \in Range(view.hidden) /\ i \in Ids /\ Range(v.hidden) = Range(view.hidden) \ {i}
  <2> PICK j : j = i
    OBVIOUS
  <2> PICK w : w = [TakenBack(view, j) EXCEPT !.selected = IndexOf(Shown(TakenBack(view, j)), j)]
    OBVIOUS
  <2>1. /\ GoodView(w) /\ SameRest(view, w)
        /\ j \in Range(view.hidden) /\ j \in Ids /\ Range(w.hidden) = Range(view.hidden) \ {j}
    BY <1>1, <1>2, TakenBackOk
  <2>2. w = v
    OBVIOUS
  <2> HIDE DEF i, v
  <2> QED BY <2>1, <2>2
<1> HIDE DEF i, v
<1>4. v.load = view.load /\ v.listed = view.listed
  BY <1>3 DEF SameRest
<1>5. view.load # "loading"
  BY <1>1, <1>2 DEF Loading
<1>6. /\ SeenOp(view, i) # "unhide" /\ SeenOp(v, i) = "unhide"
      /\ \A j \in Ids \ {i} : SeenOp(v, j) = SeenOp(view, j)
  BY <1>3 DEF SeenOp
<1>7. "unhide" \in {"jump"} \cup Mutations /\ "unhide" # "jump"
  BY DEF Mutations
<1>8. GoodView(v) /\ Pressed(v) /\ i \in Ids /\ Sends("unhide", i)
  BY <1>1, <1>3
<1> QED BY <1>4, <1>5, <1>6, <1>7, <1>8, SendsOk

LEMMA EnterOk ==
  ASSUME VInv, Enter
  PROVE  VInv'
<1> DEFINE i == Chosen(view)
<1>1. /\ view.confirm = None /\ i # None
      /\ IF i \in Sourceless THEN Pressed(view) /\ Quietly
         ELSE IF Local(i) THEN Pressed(view) /\ Sends("jump", i)
         ELSE Pressed([view EXCEPT !.confirm = i]) /\ Quietly
  BY DEF Enter
<1>2. GoodView(view) /\ Loading /\ view \in View
  BY DEF VInv, ViewOk, GoodView
<1>3. i \in view.entries /\ i \in Ids
  BY <1>1, <1>2, ChosenOk DEF View
<1>4. view.load # "loading"
  BY <1>2, <1>3 DEF Loading
<1> HIDE DEF i
<1>5. CASE i \in Sourceless
  BY <1>1, <1>2, <1>4, <1>5, QuietKeyOk
<1>6. CASE i \notin Sourceless /\ Local(i)
  <2>1. "jump" \in {"jump"} \cup Mutations /\ "jump" \notin Mutations
    BY DEF Mutations
  <2> QED BY <1>1, <1>2, <1>3, <1>4, <1>6, <2>1, SendsOk
<1>7. CASE i \notin Sourceless /\ ~Local(i)
  <2> PICK v : v = [view EXCEPT !.confirm = i]
    OBVIOUS
  <2>1. /\ GoodView(v) /\ v.load = view.load /\ v.entries = view.entries
        /\ v.hidden = view.hidden /\ v.listed = view.listed
    BY <1>2, <1>3, AskedOk
  <2>2. Pressed(v) /\ Quietly
    BY <1>1, <1>7
  <2> QED BY <1>4, <2>1, <2>2, QuietKeyOk
<1> QED BY <1>5, <1>6, <1>7

LEMMA ConfirmOk ==
  ASSUME VInv, Confirm
  PROVE  VInv'
<1>1. /\ view.confirm # None /\ Pressed([view EXCEPT !.confirm = None])
      /\ IF view.confirm \in view.entries THEN Sends("jump", view.confirm) ELSE Quietly
  BY DEF Confirm
<1>2. GoodView(view) /\ Loading /\ view \in View
  BY DEF VInv, ViewOk, GoodView
<1>3. view.confirm \in Ids /\ view.load # "loading"
  BY <1>1, <1>2 DEF Loading, View
<1> PICK v : v = [view EXCEPT !.confirm = None]
  OBVIOUS
<1>4. /\ GoodView(v) /\ v.load = view.load /\ v.entries = view.entries
      /\ v.hidden = view.hidden /\ v.listed = view.listed
  BY <1>2, AskedOk
<1>5. Pressed(v)
  BY <1>1
<1>6. CASE view.confirm \in view.entries
  <2>1. "jump" \in {"jump"} \cup Mutations /\ "jump" \notin Mutations
    BY DEF Mutations
  <2>2. Sends("jump", view.confirm)
    BY <1>1, <1>6
  <2> QED BY <1>3, <1>4, <1>5, <2>1, <2>2, SendsOk
<1>7. CASE view.confirm \notin view.entries
  <2>1. Quietly
    BY <1>1, <1>7
  <2> QED BY <1>3, <1>4, <1>5, <2>1, QuietKeyOk
<1> QED BY <1>6, <1>7

-----------------------------------------------------------------------------
(* Replies that are applied, and the edits under way.                      *)

LEMMA OneElement ==
  ASSUME NEW S, IsFiniteSet(S), NEW m \in S
  PROVE  Cardinality(S) \in Nat /\ Cardinality(S) >= 1
<1>1. Cardinality(S) \in Nat
  BY FS_CardinalityType
<1>2. Cardinality(S) # 0
  BY FS_EmptySet
<1> QED BY <1>1, <1>2

LEMMA TwoElements ==
  ASSUME NEW S, IsFiniteSet(S), NEW m \in S, NEW n \in S, m # n
  PROVE  Cardinality(S) \in Nat /\ Cardinality(S) >= 2
<1>1. IsFiniteSet(S \ {n}) /\ Cardinality(S \ {n}) = Cardinality(S) - 1
  BY FS_RemoveElement
<1>2. Cardinality(S \ {n}) \in Nat /\ Cardinality(S \ {n}) >= 1
  <2>1. S \ {n} # {}
    OBVIOUS
  <2>2. Cardinality(S \ {n}) \in Nat /\ Cardinality(S \ {n}) # 0
    BY <1>1, <2>1, FS_EmptySet, FS_CardinalityType
  <2> QED BY <2>2
<1>3. Cardinality(S) \in Nat
  BY FS_CardinalityType
<1> QED BY <1>1, <1>2, <1>3

\* The edits in a queue.
About(q, i) == {n \in DOMAIN q : q[n].op \in Mutations /\ q[n].id = i}

LEMMA AboutOk ==
  ASSUME NEW q, NEW m \in Nat, DOMAIN q = 1 .. m, NEW i
  PROVE  IsFiniteSet(About(q, i)) /\ Cardinality(About(q, i)) \in Nat
<1>1. IsFiniteSet(1 .. m)
  BY FS_Interval
<1>2. About(q, i) \subseteq 1 .. m
  BY DEF About
<1> QED BY <1>1, <1>2, FS_Subset, FS_CardinalityType

\* An edit that failed is not the only one about its row.
LEMMA FlyingOk ==
  ASSUME GoodBridge(bridge), GoodHandle(bridge, handle[Ui]), bridge.replies # <<>>,
         NEW i, 1 \in Edits(Line(bridge, handle[Ui]), i),
         Edits(Line(bridge, handle[Ui]), i) # {1}
  PROVE  Flying(i) > 1
<1> DEFINE L == Line(bridge, handle[Ui])
           p == Replied(bridge)
           w == Worked(bridge)
           R == About(bridge.replies, i)
           C == About(bridge.commands, i)
           atWork == bridge.working # None /\ bridge.working.op \in Mutations
                     /\ bridge.working.id = i
<1>1. LineParts(bridge, handle[Ui])
  BY LineOk
<1>2. /\ IsLine(L, Size(bridge)) /\ Size(bridge) = p + w + Len(bridge.commands)
      /\ p \in Nat /\ w \in {0, 1} /\ Len(bridge.commands) \in Nat
      /\ DOMAIN bridge.replies = 1 .. p /\ DOMAIN bridge.commands = 1 .. Len(bridge.commands)
      /\ \A n \in 1 .. p :
           L[n] = Entry(bridge.replies[n], IF bridge.replies[n].ok THEN "ok" ELSE "failed")
      /\ w = 1 => L[p + 1] = Entry(bridge.working, Stage(bridge.working, handle[Ui]))
      /\ \A n \in 1 .. Len(bridge.commands) : L[p + w + n] = Entry(bridge.commands[n], "todo")
  BY <1>1 DEF LineParts, Size
<1>3. p >= 1
  <2>1. bridge.replies \in Seq(Replies)
    BY DEF GoodBridge
  <2> QED BY <2>1, TailOk DEF Replied
<1> HIDE DEF L, p
<1>4. /\ IsFiniteSet(R) /\ Cardinality(R) \in Nat
      /\ IsFiniteSet(C) /\ Cardinality(C) \in Nat
  BY <1>2, AboutOk
<1>5. Flying(i) = Cardinality(C) + Cardinality(R) + IF atWork THEN 1 ELSE 0
  BY DEF Flying, About
<1>6. w = 1 <=> bridge.working # None
  BY DEF Worked
<1>7. \A n \in DOMAIN L : n \in Edits(L, i) <=> L[n].op \in Mutations /\ L[n].id = i
  BY DEF Edits
<1>8. DOMAIN L = 1 .. Size(bridge)
  BY <1>2 DEF IsLine
<1>9. ASSUME NEW n \in 1 .. p
      PROVE  L[n].op = bridge.replies[n].op /\ L[n].id = bridge.replies[n].id
  <2> DEFINE st == IF bridge.replies[n].ok THEN "ok" ELSE "failed"
  <2>1. L[n] = Entry(bridge.replies[n], st)
    BY <1>2
  <2> HIDE DEF st
  <2> QED BY <2>1 DEF Entry
<1>10. 1 \in R
  <2>1. 1 \in 1 .. p /\ 1 \in Edits(L, i) /\ 1 \in DOMAIN L
    BY <1>2, <1>3 DEF L, Edits
  <2> QED BY <1>2, <1>7, <1>9, <2>1 DEF About
<1>11. PICK n \in Edits(L, i) : n # 1
  BY DEF L
<1>12. n \in DOMAIN L /\ L[n].op \in Mutations /\ L[n].id = i /\ n \in 1 .. Size(bridge)
  BY <1>8 DEF Edits
<1>13. CASE n <= p
  <2>1. n \in R
    <3>1. n \in 1 .. p
      BY <1>2, <1>12, <1>13
    <3> QED BY <1>2, <1>9, <1>12, <3>1 DEF About
  <2>2. Cardinality(R) >= 2
    BY <1>4, <1>10, <1>11, <2>1, TwoElements
  <2> HIDE DEF R, C, atWork
  <2> QED BY <1>4, <1>5, <2>2
<1>14. CASE p < n /\ n <= p + w
  <2>1. w = 1 /\ n = p + 1
    BY <1>2, <1>12, <1>14
  <2>2. atWork
    BY <1>2, <1>6, <1>12, <2>1 DEF Entry
  <2>3. Cardinality(R) >= 1
    BY <1>4, <1>10, OneElement
  <2> HIDE DEF R, C, atWork
  <2> QED BY <1>4, <1>5, <2>2, <2>3
<1>15. CASE p + w < n
  <2> PICK m : m = n - (p + w)
    OBVIOUS
  <2>1. m \in 1 .. Len(bridge.commands) /\ n = p + w + m
    <3> DEFINE l == Len(bridge.commands)
    <3>1. p \in Nat /\ w \in Nat /\ l \in Nat /\ n \in 1 .. p + w + l /\ p + w < n
      BY <1>2, <1>12, <1>15
    <3> HIDE DEF w, l
    <3>2. m \in 1 .. l /\ n = p + w + m
      BY <3>1
    <3> QED BY <3>2 DEF l
  <2>2. m \in C
    <3>1. L[n] = Entry(bridge.commands[m], "todo")
      BY <1>2, <2>1
    <3>2. bridge.commands[m].op = L[n].op /\ bridge.commands[m].id = L[n].id
      BY <3>1 DEF Entry
    <3> QED BY <1>2, <1>12, <2>1, <3>2 DEF About
  <2>3. Cardinality(R) >= 1 /\ Cardinality(C) >= 1
    BY <1>4, <1>10, <2>2, OneElement
  <2> HIDE DEF R, C, atWork
  <2> QED BY <1>4, <1>5, <2>3
<1>16. n <= p \/ (p < n /\ n <= p + w) \/ p + w < n
  BY <1>2, <1>12
<1> QED BY <1>13, <1>14, <1>15, <1>16

\* What a reply makes of the list.
LEMMA AppliedOk ==
  ASSUME VInv, ApplyReply, NEW r, r = Head(bridge.replies),
         ~((r.op = "load" /\ r.refused) \/ (r.op = "jump" /\ ~r.refused))
  PROVE  VInv'
<1> DEFINE x == handle[Ui]
           L == Line(bridge, x)
           M == Line(bridge', x)
           N == Size(bridge)
<1>1. /\ In("apply") /\ bridge.replies # <<>>
      /\ view' = Applied(view, r) /\ bridge' = [bridge EXCEPT !.replies = Tail(@)]
      /\ doubt' = IF r.op \in Mutations /\ ~r.ok /\ Flying(r.id) > 1
                  THEN doubt \cup {r.id} ELSE doubt
      /\ UNCHANGED <<vars, launch, drawn, keys, earlier>>
  BY DEF ApplyReply
<1>2. /\ GoodBridge(bridge) /\ GoodHandle(bridge, x) /\ ~In("over")
      /\ x.pc = "open" /\ GoodView(view) /\ Predictions /\ Loading /\ FreshOk /\ ViewOk
  BY <1>1, NotOver DEF VInv, ChannelsOk, ViewOk
<1>3. /\ HandlesOk' /\ DataOk' /\ OthersOk' /\ handle'[Ui] = x /\ rows' = rows
      /\ \A i : RowOp(i)' = RowOp(i)
      /\ \A S : Fresh(S) => Fresh(S)'
      /\ view'.load # "loading" => EarlierOk'
  BY <1>1, StoreStays
<1>4. /\ GoodBridge(bridge') /\ GoodHandle(bridge', x)
      /\ IsLine(L, N) /\ IsLine(M, N - 1) /\ Size(bridge') = N - 1 /\ N \in Nat \ {0}
      /\ \A n \in 1 .. N - 1 : M[n] = L[n + 1]
      /\ r \in Replies /\ L[1] = Entry(r, IF r.ok THEN "ok" ELSE "failed")
      /\ L[1].st # "todo"
  <2>0. /\ GoodBridge(bridge) /\ GoodHandle(bridge, handle[Ui]) /\ bridge.replies # <<>>
        /\ bridge' = [bridge EXCEPT !.replies = Tail(@)]
    BY <1>1, <1>2
  <2>1. Drops(bridge, handle[Ui], bridge')
    BY <2>0, ApplyLine
  <2> QED BY <2>1 DEF Drops
<1>5. /\ L[1].op = r.op /\ L[1].id = r.id /\ L[1].st = IF r.ok THEN "ok" ELSE "failed"
      /\ r.op \in CommandOps /\ r.ok \in BOOLEAN /\ r.value \in Values
      /\ r.op # "load" => r.id \in Ids
  <2> DEFINE st == IF r.ok THEN "ok" ELSE "failed"
  <2>1. L[1] = Entry(r, st)
    BY <1>4
  <2> HIDE DEF st, L
  <2>2. L[1].op = r.op /\ L[1].id = r.id /\ L[1].st = st
    BY <2>1 DEF Entry
  <2> QED BY <1>4, <2>2, OrdersOk DEF st
<1> HIDE DEF x, L, M, N
<1>6. /\ view.load = "loading" <=> r.op = "load"
      /\ view.load = "loading" => N = 1 /\ view.hidden = <<>> /\ view.listed = {}
                                    /\ view.entries = {} /\ view.confirm = None
      /\ view.load # "loading" => \A n \in 1 .. N : L[n].op # "load"
  <2>1. 1 \in 1 .. N
    BY <1>4
  <2> QED BY <1>2, <1>5, <2>1 DEF Loading, L, N, x
<1>7. ChannelsOk' /\ (view'.load # "loading" => FreshOk')
  <2>1. bridge.replies \in Seq(Replies)
    BY <1>2 DEF GoodBridge
  <2>2. /\ DOMAIN Tail(bridge.replies) = 1 .. Len(bridge.replies) - 1
        /\ DOMAIN bridge.replies = 1 .. Len(bridge.replies) /\ Len(bridge.replies) \in Nat
        /\ \A n \in DOMAIN Tail(bridge.replies) :
             n + 1 \in DOMAIN bridge.replies /\ Tail(bridge.replies)[n] = bridge.replies[n + 1]
    BY <1>1, <2>1, TailOk
  <2>3. bridge'.replies = Tail(bridge.replies) /\ bridge'.working = bridge.working
        /\ bridge'.commands = bridge.commands
    BY <1>1, <1>2 DEF GoodBridge
  <2>4. view'.load # "loading" => FreshOk'
    <3>1. ASSUME NEW n \in DOMAIN bridge'.replies, bridge'.replies[n].op = "load",
                 bridge'.replies[n].ok
          PROVE  Fresh(bridge.replies[n].value)'
      <4>1. /\ n + 1 \in DOMAIN bridge.replies /\ bridge'.replies[n] = bridge.replies[n + 1]
        BY <2>2, <2>3, <3>1
      <4>2. Fresh(bridge.replies[n + 1].value)
        BY <1>2, <3>1, <4>1 DEF FreshOk
      <4> QED BY <1>3, <4>1, <4>2 DEF Fresh
    <3>2. /\ bridge'.working # None /\ bridge'.working.op = "load" /\ ~bridge'.working.refused
          /\ handle'[Ui].queue = <<>> /\ handle'[Ui].answer.ok
          => Fresh(handle[Ui].answer.value)'
      BY <1>2, <1>3, <2>3 DEF FreshOk, Fresh, x
    <3> QED BY <1>3, <3>1, <3>2 DEF FreshOk
  <2>5. view'.pc = view.pc
    <3>1. ASSUME NEW i
          PROVE  RollbackHide(view, i).pc = view.pc /\ RollbackUnhide(view, i).pc = view.pc
      <4>1. SameRest(view, RollbackHide(view, i))
        BY <1>2, RollbackHideOk
      <4>2. SameRest(view, RollbackUnhide(view, i))
        BY <1>2, RollbackUnhideOk
      <4> QED BY <4>1, <4>2 DEF SameRest
    <3>2. CASE r.op = "load" /\ r.ok
      <4>1. Fresh(r.value) /\ r.value \in SUBSET Ids
        <5>1. 1 \in DOMAIN bridge.replies /\ bridge.replies[1] = r
          BY <1>1, <2>1, TailOk
        <5> QED BY <1>2, <3>2, <5>1 DEF FreshOk, Fresh
      <4>2. view \in View /\ view.hidden = <<>>
        BY <1>2, <1>6, <3>2 DEF GoodView
      <4>3. Loaded(view, r.value).pc = view.pc
        BY <4>1, <4>2, LoadedOk
      <4> QED BY <1>1, <3>2, <4>3 DEF Applied
    <3>3. CASE r.op = "load" /\ ~r.ok
      <4>1. view \in View
        BY <1>2 DEF GoodView
      <4>2. view' = [view EXCEPT !.load = "error"]
        BY <1>1, <3>3 DEF Applied
      <4> QED BY <4>1, <4>2 DEF View
    <3>4. CASE r.op # "load"
      BY <1>1, <3>1, <3>4 DEF Applied
    <3> QED BY <3>2, <3>3, <3>4
  <2>6. view'.pc # "over"
    BY <1>1, <2>5 DEF In
  <2> QED BY <1>2, <1>3, <1>4, <2>4, <2>6, ChannelsHold
<1>8. /\ drawn' \in Ids \cup {None} /\ keys' \in 0 .. MaxKeys /\ doubt' \subseteq Ids
  <2>1. r.op \in Mutations => r.id \in Ids
    BY <1>5 DEF Mutations
  <2> QED BY <1>1, <1>2, <2>1 DEF ViewOk
\* The rest follows from these.
<1>9. ASSUME GoodView(view'), view'.pc = "apply",
             \A i \in (view'.listed \cap DOMAIN rows) \ doubt' :
               Predicted(M, i, RowOp(i), SeenOp(view', i)),
             view'.load # "loading"
      PROVE  VInv'
  <2>1. GoodView(view)'
    BY <1>9 DEF GoodView, View, Placed, Consistent, LastIndex, Shown
  <2>2. ViewOk'
    BY <1>8, <1>9, <2>1 DEF ViewOk, In
  <2>3. Predictions'
    BY <1>3, <1>9 DEF Predictions, SeenOp, M
  <2>4. Loading'
    <3>1. \A n \in 1 .. N - 1 : M[n].op # "load"
      <4>1. CASE view.load = "loading"
        <5>1. N - 1 = 0
          BY <1>6, <4>1
        <5> QED BY <5>1
      <4>2. CASE view.load # "loading"
        <5>1. \A n \in 1 .. N - 1 : n + 1 \in 1 .. N
          BY <1>4
        <5> QED BY <1>4, <1>6, <4>2, <5>1
      <4> QED BY <4>1, <4>2
    <3> QED BY <1>3, <1>4, <1>9, <3>1 DEF Loading, M, x
  <2> QED BY <1>3, <1>7, <1>9, <2>2, <2>3, <2>4 DEF VInv
\* Replies that change no list.
<1>10. ASSUME NEW i \in (view.listed \cap DOMAIN rows) \ doubt,
              ~(1 \in Edits(L, i) /\ L[1].st = "failed")
       PROVE  Predicted(M, i, RowOp(i), SeenOp(view, i))
  <2>1. Predicted(L, i, RowOp(i), SeenOp(view, i))
    BY <1>2 DEF Predictions, L, x
  <2>2. RowOp(i) \in Mutations /\ SeenOp(view, i) \in Mutations
    BY OpsOk
  <2> QED BY <1>4, <1>10, <2>1, <2>2, LineShrinks
<1>11. \A i : 1 \in Edits(L, i) <=> r.op \in Mutations /\ r.id = i
  BY <1>4, <1>5 DEF Edits, IsLine
<1>12. view.pc = "apply"
  BY <1>1 DEF In
<1>13. CASE r.op = "load" /\ r.ok
  <2>1. Fresh(r.value) /\ r.value \in SUBSET Ids
    <3>1. bridge.replies \in Seq(Replies)
      BY <1>2 DEF GoodBridge
    <3>2. 1 \in DOMAIN bridge.replies /\ bridge.replies[1] = r
      BY <1>1, <3>1, TailOk
    <3> QED BY <1>2, <1>13, <3>2 DEF FreshOk, Fresh
  <2>2. view \in View /\ view.hidden = <<>>
    BY <1>2, <1>6, <1>13 DEF GoodView
  <2>3. view' = Loaded(view, r.value)
    BY <1>1, <1>13 DEF Applied
  <2>4. /\ GoodView(view') /\ view'.load = "ready" /\ view'.listed = r.value
        /\ view'.hidden = <<>> /\ view'.pc = view.pc
    BY <2>1, <2>2, <2>3, LoadedOk
  <2>5. ASSUME NEW i \in (view'.listed \cap DOMAIN rows) \ doubt'
        PROVE  Predicted(M, i, RowOp(i), SeenOp(view', i))
    <3>1. RowOp(i) = "unhide"
      BY <2>1, <2>4, <2>5 DEF RowOp, Fresh
    <3>2. SeenOp(view', i) = "unhide"
      <4>1. i \notin Range(<<>>)
        BY EmptyOk DEF Range
      <4> QED BY <2>4, <4>1 DEF SeenOp
    <3>3. DOMAIN M = {}
      BY <1>4, <1>6, <1>13 DEF IsLine
    <3> QED BY <3>1, <3>2, <3>3, EmptyLine
  <2> QED BY <1>9, <1>12, <2>4, <2>5
<1>14. CASE r.op = "load" /\ ~r.ok
  <2>1. view \in View /\ Placed(view) /\ Consistent(view)
    BY <1>2 DEF GoodView
  <2>2. view' = [view EXCEPT !.load = "error"]
    BY <1>1, <1>14 DEF Applied
  <2>3. /\ view' \in View /\ view'.load = "error" /\ view'.pc = view.pc
        /\ view'.listed = view.listed /\ view'.entries = view.entries
        /\ view'.hidden = view.hidden /\ view'.selected = view.selected
        /\ view'.filtered = view.filtered
    BY <2>1, <2>2 DEF View
  <2>4. GoodView(view')
    BY <2>1, <2>3 DEF GoodView, Placed, Consistent, LastIndex, Shown
  <2>5. view'.listed = {}
    BY <1>6, <1>14, <2>3
  <2> QED BY <1>9, <1>12, <2>3, <2>4, <2>5
\* A failed edit.
<1>15. ASSUME NEW i \in (view.listed \cap DOMAIN rows) \ doubt', i = r.id,
              r.op \in Mutations, ~r.ok
       PROVE  /\ r.op = SeenOp(view, i) /\ RowOp(i) # SeenOp(view, i)
              /\ Predicted(M, i, RowOp(i), RowOp(i))
  <2>1. ~(Flying(i) > 1) /\ i \notin doubt
    BY <1>1, <1>15
  <2>2. 1 \in Edits(L, i) /\ L[1].st = "failed"
    BY <1>5, <1>11, <1>15
  <2>3. Edits(L, i) = {1}
    BY <1>1, <1>2, <2>1, <2>2, FlyingOk DEF L, x
  <2>4. Predicted(L, i, RowOp(i), SeenOp(view, i))
    BY <1>2, <2>1 DEF Predictions, L, x
  <2>5. RowOp(i) \in Mutations /\ SeenOp(view, i) \in Mutations
    BY OpsOk
  <2>6. /\ L[1].op = SeenOp(view, i) /\ Predicted(M, i, RowOp(i), RowOp(i))
        /\ RowOp(i) # SeenOp(view, i)
    BY <1>4, <2>2, <2>3, <2>4, <2>5, LineRollsBack
  <2> QED BY <1>5, <2>6
<1>16. \A i : i \notin doubt' => i \notin doubt
  BY <1>1
<1>17. CASE r.op = "hide" /\ ~r.ok
  <2>1. view' = RollbackHide(view, r.id)
    BY <1>1, <1>17 DEF Applied
  <2>2. /\ GoodView(view') /\ view'.pc = view.pc /\ view'.load = view.load
        /\ view'.listed = view.listed /\ Range(view'.hidden) = Range(view.hidden) \ {r.id}
    BY <1>2, <2>1, RollbackHideOk DEF SameRest
  <2>3. ASSUME NEW i \in (view'.listed \cap DOMAIN rows) \ doubt'
        PROVE  Predicted(M, i, RowOp(i), SeenOp(view', i))
    <3>1. CASE i # r.id
      <4>1. SeenOp(view', i) = SeenOp(view, i)
        BY <2>2, <3>1 DEF SeenOp
      <4> QED BY <1>10, <1>11, <1>16, <2>2, <3>1, <4>1
    <3>2. CASE i = r.id
      <4>1. /\ SeenOp(view, i) = "hide" /\ RowOp(i) # "hide"
            /\ Predicted(M, i, RowOp(i), RowOp(i))
        BY <1>15, <1>17, <2>2, <3>2 DEF Mutations
      <4>2. SeenOp(view', i) = "unhide" /\ RowOp(i) = "unhide"
        BY <2>2, <3>2, <4>1 DEF SeenOp, RowOp
      <4> QED BY <4>1, <4>2
    <3> QED BY <3>1, <3>2
  <2>4. view'.load # "loading"
    BY <1>6, <1>17, <2>2
  <2> QED BY <1>9, <1>12, <2>2, <2>3, <2>4
<1>18. CASE r.op = "unhide" /\ ~r.ok
  <2>1. view' = RollbackUnhide(view, r.id)
    BY <1>1, <1>18 DEF Applied
  <2>2. /\ GoodView(view') /\ view'.pc = view.pc /\ view'.load = view.load
        /\ view'.listed = view.listed
        /\ Range(view'.hidden) = IF r.id \in view.entries THEN Range(view.hidden) \cup {r.id}
                                 ELSE Range(view.hidden)
    BY <1>2, <2>1, RollbackUnhideOk DEF SameRest
  <2>3. ASSUME NEW i \in (view'.listed \cap DOMAIN rows) \ doubt'
        PROVE  Predicted(M, i, RowOp(i), SeenOp(view', i))
    <3>1. CASE i # r.id
      <4>1. SeenOp(view', i) = SeenOp(view, i)
        BY <2>2, <3>1 DEF SeenOp
      <4> QED BY <1>10, <1>11, <1>16, <2>2, <3>1, <4>1
    <3>2. CASE i = r.id
      <4>1. /\ SeenOp(view, i) = "unhide" /\ RowOp(i) # "unhide"
            /\ Predicted(M, i, RowOp(i), RowOp(i))
        BY <1>15, <1>18, <2>2, <3>2 DEF Mutations
      <4>2. i \notin Range(view.hidden) /\ i \in view.listed
        BY <2>2, <2>3, <4>1 DEF SeenOp
      <4>3. i \in view.entries
        BY <1>2, <4>2 DEF GoodView, Consistent
      <4>4. SeenOp(view', i) = "hide" /\ RowOp(i) = "hide"
        BY <2>2, <3>2, <4>1, <4>3 DEF SeenOp, RowOp
      <4> QED BY <4>1, <4>4
    <3> QED BY <3>1, <3>2
  <2>4. view'.load # "loading"
    BY <1>6, <1>18, <2>2
  <2> QED BY <1>9, <1>12, <2>2, <2>3, <2>4
<1>19. CASE r.op # "load" /\ (r.op \in Mutations => r.ok)
  <2>1. view' = view
    BY <1>1, <1>19 DEF Applied, Mutations
  <2>2. ASSUME NEW i \in (view'.listed \cap DOMAIN rows) \ doubt'
        PROVE  Predicted(M, i, RowOp(i), SeenOp(view', i))
    <3>1. ~(1 \in Edits(L, i) /\ L[1].st = "failed")
      BY <1>5, <1>11, <1>19
    <3> QED BY <1>10, <1>16, <2>1, <3>1
  <2>3. view'.load # "loading"
    BY <1>6, <1>19, <2>1
  <2> QED BY <1>2, <1>9, <1>12, <2>1, <2>2, <2>3
<1> QED BY <1>5, <1>13, <1>14, <1>17, <1>18, <1>19 DEF CommandOps, Mutations

LEMMA ApplyReplyOk ==
  ASSUME VInv, ApplyReply
  PROVE  VInv'
<1> PICK r : r = Head(bridge.replies)
  OBVIOUS
<1>1. CASE (r.op = "load" /\ r.refused) \/ (r.op = "jump" /\ ~r.refused)
  <2>1. Exits(view)
    BY <1>1 DEF ApplyReply
  <2> QED BY <2>1, ExitsOk
<1> QED BY <1>1, AppliedOk

-----------------------------------------------------------------------------
(* The workers and the other readers.                                      *)

\* The worker of the viewer's own handle.
LEMMA OwnWorkerOk ==
  ASSUME VInv, OwnWorker
  PROVE  VInv'
<1> DEFINE x == handle[Ui]
           y == handle'[Ui]
           w == bridge.working
           k == Replied(bridge) + 1
<1>1. /\ Worker(Ui) /\ UNCHANGED <<launch, view, drawn, bridge, keys, doubt>>
      /\ earlier' = IF Job(Ui).op = "hide" /\ y.queue = <<>> /\ y.answer.ok
                    THEN earlier \ {Job(Ui).id} ELSE earlier
  BY DEF OwnWorker
<1>2. /\ HandlesOk /\ DataOk /\ OthersOk /\ FreshOk /\ Loading /\ ChannelsOk
      /\ GoodBridge(bridge) /\ GoodHandle(bridge, x) /\ x.pc \in {"open", "closed"}
  BY DEF VInv, ChannelsOk
<1>3. /\ HandlesOk' /\ DataOk' /\ \A g \in Handles \ {Ui} : handle'[g] = handle[g]
      /\ StaysAsked(Ui) \/ IsAnswered(Ui)
  BY <1>1, <1>2, UiOk, ReaderWorks
<1>4. OthersOk'
  BY <1>2, <1>3, UiOk, DaemonsAreHandles DEF OthersOk
<1>5. ViewOk' /\ bridge' = bridge
  BY <1>1 DEF VInv, ViewOk, In
<1>6. CASE StaysAsked(Ui)
  <2>1. /\ rows' = rows /\ y.pc = x.pc /\ y.queue = x.queue /\ y.answer = x.answer
    BY <1>6 DEF StaysAsked
  <2>2. GoodHandle(bridge, y)
    BY <1>2, <2>1 DEF GoodHandle
  <2>3. Line(bridge, y) = Line(bridge, x)
    <3>1. Stage(w, y) = Stage(w, x)
      BY <2>1 DEF Stage
    <3> HIDE DEF x, y
    <3>2. \A n \in 1 .. Size(bridge) : Line(bridge, y)[n] = Line(bridge, x)[n]
      BY <3>1 DEF Line
    <3> QED BY <3>2, SameLine
  <2>0. earlier' = earlier
    <3>1. CASE x.queue = <<>>
      <4>1. Job(Ui).op \in {"none", "closed"}
        BY <1>2, <3>1 DEF Job
      <4> QED BY <1>1, <4>1
    <3>2. CASE x.queue # <<>>
      BY <1>1, <2>1, <3>2
    <3> QED BY <3>1, <3>2
  <2>4. FreshOk'
    <3>1. EarlierOk' /\ \A S : Fresh(S)' <=> Fresh(S)
      BY <1>1, <1>2, <2>0, <2>1, SameEarlier DEF FreshOk
    <3> QED BY <1>1, <1>2, <1>5, <2>0, <2>1, <3>1 DEF FreshOk, Fresh, RowOp
  <2>5. \A i \in DOMAIN rows' : RowOp(i)' = RowOp(i)
    BY <2>0, <2>1 DEF RowOp
  <2>6. /\ GoodBridge(bridge') /\ GoodHandle(bridge', handle'[Ui]) /\ Size(bridge') = Size(bridge)
        /\ Line(bridge', handle'[Ui]) = Line(bridge, handle[Ui])
        /\ handle'[Ui].pc = handle[Ui].pc /\ UNCHANGED view /\ UNCHANGED doubt
        /\ DOMAIN rows' \subseteq DOMAIN rows /\ UNCHANGED bridge
    BY <1>1, <1>2, <1>5, <2>1, <2>2, <2>3
  <2> QED BY <1>3, <1>4, <1>5, <2>4, <2>5, <2>6, LineStays
<1>7. CASE IsAnswered(Ui)
  <2> DEFINE q == Head(x.queue)
  <2>1. /\ x.pc = "open" /\ x.queue # <<>> /\ y.pc = "open" /\ y.queue = Tail(x.queue)
        /\ y.answer.ok \in BOOLEAN /\ y.answer.value \in Values
        /\ DOMAIN rows' \subseteq DOMAIN rows
        /\ ~y.answer.ok => rows' = rows
        /\ y.answer.ok =>
             \A i \in DOMAIN rows' :
               rows'[i].hidden = IF q.op = "hide" /\ i = q.id THEN q.hidden ELSE rows[i].hidden
        /\ y.answer.ok /\ q.op = "list" => rows' = rows /\ y.answer.value = Listed(rows, Ui, q)
    BY <1>7 DEF IsAnswered
  <2>2. w # None /\ ~w.refused /\ Tail(x.queue) = <<>> /\ Asks(q, w)
    BY <1>2, <2>1 DEF GoodHandle
  <2>2a. Job(Ui) = q
    BY <2>1 DEF Job
  <2> HIDE DEF q
  <2>3. y.queue = <<>>
    BY <2>1, <2>2
  <2>3a. earlier' = IF q.op = "hide" /\ y.answer.ok THEN earlier \ {q.id} ELSE earlier
    BY <1>1, <2>2a, <2>3
  <2>4. GoodHandle(bridge, y)
    BY <2>1, <2>2, <2>3 DEF GoodHandle
  <2>5. /\ MovesAt(Line(bridge, x), Line(bridge, y), Size(bridge), k)
        /\ Line(bridge, y)[k] = Entry(w, Stage(w, y))
        /\ Line(bridge, x)[k] = Entry(w, "todo")
        /\ w \in Working
    <3>1. /\ GoodBridge(bridge) /\ GoodHandle(bridge, handle[Ui]) /\ GoodHandle(bridge, handle'[Ui])
          /\ bridge.working # None /\ ~bridge.working.refused /\ handle[Ui].queue # <<>>
      BY <1>2, <2>1, <2>2, <2>4
    <3>2. Works(bridge, handle[Ui], handle'[Ui])
      BY <3>1, WorkLine
    <3> QED BY <3>2 DEF Works
  <2>6. Stage(w, y) = IF y.answer.ok THEN "ok" ELSE "failed"
    BY <2>2, <2>3 DEF Stage
  <2> HIDE DEF x, y, w, k
  <2>7. /\ Line(bridge, x)[k].op = w.op /\ Line(bridge, x)[k].id = w.id
        /\ Line(bridge, y)[k].st = Stage(w, y)
    BY <2>5 DEF Entry
  <2>8. Line(bridge, y)[k].st \in {"ok", "failed"} /\ (Line(bridge, y)[k].st = "ok" <=> y.answer.ok)
    BY <2>6, <2>7
  <2>9. ASSUME NEW i \in DOMAIN rows'
        PROVE  RowOp(i)' = IF w.op \in Mutations /\ w.id = i /\ y.answer.ok
                           THEN w.op ELSE RowOp(i)
    <3>1. CASE y.answer.ok
      <4>1. rows'[i].hidden = IF q.op = "hide" /\ i = q.id THEN q.hidden ELSE rows[i].hidden
        BY <2>1, <3>1
      <4>2. CASE w.op \in Mutations /\ w.id = i
        <5>1. q.op = "hide" /\ i = q.id /\ q.hidden = (w.op = "hide")
          BY <2>2, <4>2 DEF Asks
        <5>2. rows'[i].hidden <=> w.op = "hide"
          BY <4>1, <5>1
        <5>3. i \notin earlier'
          BY <2>3a, <3>1, <5>1
        <5>4. RowOp(i)' = w.op
          BY <4>2, <5>2, <5>3 DEF RowOp, Mutations
        <5> QED BY <3>1, <4>2, <5>4
      <4>3. CASE ~(w.op \in Mutations /\ w.id = i)
        <5>1. ~(q.op = "hide" /\ i = q.id)
          BY <2>2, <4>3 DEF Asks
        <5>2. i \in earlier' <=> i \in earlier
          BY <2>3a, <5>1
        <5>3. RowOp(i)' = RowOp(i)
          BY <4>1, <5>1, <5>2 DEF RowOp
        <5> QED BY <4>3, <5>3
      <4> QED BY <4>2, <4>3
    <3>2. CASE ~y.answer.ok
      <4>1. RowOp(i)' = RowOp(i)
        BY <2>1, <2>3a, <3>2 DEF RowOp
      <4> QED BY <3>2, <4>1
    <3> QED BY <3>1, <3>2
  <2>10. \A i \in DOMAIN rows' :
           RowOp(i)' = IF /\ Line(bridge, x)[k].op \in Mutations /\ Line(bridge, x)[k].id = i
                          /\ Line(bridge, y)[k].st = "ok"
                       THEN Line(bridge, x)[k].op ELSE RowOp(i)
    BY <2>7, <2>8, <2>9
  <2>11. FreshOk'
    \* A load that is answered is the only command.
    <3>1. ASSUME NEW n \in DOMAIN bridge.replies, bridge.replies[n].op = "load"
          PROVE  FALSE
      <4>1. LineParts(bridge, x)
        BY <1>2, LineOk DEF x
      <4>2. /\ n \in 1 .. Replied(bridge) /\ Replied(bridge) \in Nat /\ Worked(bridge) = 1
            /\ Len(bridge.commands) \in Nat
            /\ Line(bridge, x)[n] =
                 Entry(bridge.replies[n], IF bridge.replies[n].ok THEN "ok" ELSE "failed")
        BY <2>2, <3>1, <4>1 DEF LineParts, Worked, w
      <4>3. Size(bridge) \in Nat /\ Size(bridge) >= 2 /\ n \in 1 .. Size(bridge)
        BY <4>2 DEF Size
      <4>4. Line(bridge, x)[n].op = "load"
        <5> DEFINE st == IF bridge.replies[n].ok THEN "ok" ELSE "failed"
        <5>1. Line(bridge, x)[n] = Entry(bridge.replies[n], st)
          BY <4>2
        <5> HIDE DEF st
        <5> QED BY <3>1, <5>1 DEF Entry
      <4>5. ~In("over")
        BY <1>2, <2>1 DEF ChannelsOk, x
      <4> QED BY <1>2, <4>3, <4>4, <4>5 DEF Loading, x
    <3>2. EarlierOk /\ ~In("over") /\ k \in 1 .. Size(bridge)
          /\ (view.load = "loading" <=> w.op = "load")
      <4>1. EarlierOk /\ ~In("over") /\ k \in 1 .. Size(bridge)
        BY <1>2, <2>1, <2>5 DEF FreshOk, ChannelsOk, MovesAt, x
      <4>2. CASE view.load = "loading"
        <5>1. Size(bridge) = 1 /\ Line(bridge, x)[1].op = "load"
          BY <1>2, <4>1, <4>2 DEF Loading, x
        <5>2. k = 1
          BY <4>1, <5>1
        <5> QED BY <2>7, <4>1, <4>2, <5>1, <5>2
      <4>3. CASE view.load # "loading"
        <5>1. Line(bridge, x)[k].op # "load"
          BY <1>2, <4>1, <4>3 DEF Loading, x
        <5> QED BY <2>7, <4>1, <4>3, <5>1
      <4> QED BY <4>2, <4>3
    <3>3. EarlierOk'
      <4>1. launch' = launch /\ view' = view /\ earlier' \subseteq earlier
        BY <1>1, <2>3a
      <4>2. ASSUME NEW i \in earlier' \cap DOMAIN rows'
            PROVE  rows'[i].hidden
        <5>1. rows[i].hidden /\ i \in DOMAIN rows
          BY <2>1, <3>2, <4>1, <4>2 DEF EarlierOk
        <5>2. CASE y.answer.ok
          <6>1. ~(q.op = "hide" /\ i = q.id)
            BY <2>3a, <4>2, <5>2
          <6> QED BY <2>1, <4>2, <5>1, <5>2, <6>1
        <5> QED BY <2>1, <5>1, <5>2
      <4>3. ASSUME view.load = "loading"
            PROVE  Fresh(DOMAIN rows)'
        <5>1. w.op \notin Mutations
          BY <3>2, <4>3 DEF Mutations
        <5>2. \A i \in DOMAIN rows' : RowOp(i)' = RowOp(i)
          BY <2>9, <5>1
        <5>3. Fresh(DOMAIN rows)
          BY <3>2, <4>3 DEF EarlierOk
        <5> QED BY <2>1, <5>2, <5>3 DEF Fresh
      <4> QED BY <3>2, <4>1, <4>2, <4>3 DEF EarlierOk
    <3>4. ASSUME w.op = "load", handle'[Ui].answer.ok
          PROVE  Fresh(handle[Ui].answer.value)'
      <4>1. q.op = "list"
        BY <2>2, <3>4 DEF Asks
      <4>2. rows' = rows /\ handle'[Ui].answer.value = Listed(rows, Ui, q)
        BY <2>1, <3>4, <4>1 DEF y
      <4>3. Fresh(DOMAIN rows) /\ earlier' = earlier
        BY <2>3a, <3>2, <3>4, <4>1 DEF EarlierOk
      <4>4. Listed(rows, Ui, q) \subseteq DOMAIN rows
        BY DEF Listed
      <4> QED BY <4>2, <4>3, <4>4 DEF Fresh, RowOp
    <3>5. bridge' = bridge
      BY <1>1
    <3> QED BY <3>1, <3>3, <3>4, <3>5 DEF FreshOk, w
  <2>12. ~In("over") /\ UNCHANGED <<view, drawn, keys, doubt>>
    BY <1>1, <1>2, <2>1 DEF ChannelsOk, x
  <2>13. /\ GoodBridge(bridge') /\ GoodHandle(bridge', y) /\ Size(bridge') = Size(bridge)
         /\ MovesAt(Line(bridge, x), Line(bridge', y), Size(bridge), k)
         /\ Line(bridge', y)[k].st \in {"ok", "failed"} /\ y.pc = "open"
         /\ DOMAIN rows' \subseteq DOMAIN rows
    BY <1>2, <1>5, <2>1, <2>4, <2>5, <2>8
  <2>14. \A i \in DOMAIN rows' :
           RowOp(i)' = IF /\ Line(bridge, x)[k].op \in Mutations /\ Line(bridge, x)[k].id = i
                          /\ Line(bridge', y)[k].st = "ok"
                       THEN Line(bridge, x)[k].op ELSE RowOp(i)
    BY <1>5, <2>10
  <2> QED BY <1>3, <1>4, <2>11, <2>12, <2>13, <2>14, LineMoved DEF x, y
<1> QED BY <1>3, <1>6, <1>7

\* A step of others that takes rows at most, and leaves the viewer's handle.
LEMMA OthersStay ==
  ASSUME VInv, UNCHANGED viewer, HandlesOk', DataOk', OthersOk', handle'[Ui] = handle[Ui],
         DOMAIN rows' \subseteq DOMAIN rows,
         \A i \in DOMAIN rows' : rows'[i].hidden = rows[i].hidden
  PROVE  VInv'
<1>1. UNCHANGED <<launch, view, drawn, bridge, keys, doubt, earlier>>
  BY DEF viewer
<1>2. ViewOk' /\ bridge' = bridge
  BY <1>1 DEF VInv, ViewOk, In
<1>3. \A i \in DOMAIN rows' : RowOp(i)' = RowOp(i)
  BY <1>1 DEF RowOp
<1>4. FreshOk /\ GoodBridge(bridge) /\ GoodHandle(bridge, handle[Ui])
  BY DEF VInv, ChannelsOk
<1>6. FreshOk'
  <2>1. \A S : Fresh(S) => Fresh(S)'
    BY <1>3 DEF Fresh
  <2>2. DOMAIN rows' \subseteq Ids
    BY DEF DataOk
  <2>3. EarlierOk'
    <3>1. EarlierOk
      BY <1>4 DEF FreshOk
    <3>2. view.load = "loading" => Fresh(DOMAIN rows)'
      BY <1>3, <2>2, <3>1 DEF EarlierOk, Fresh
    <3> QED BY <1>1, <3>1, <3>2 DEF EarlierOk
  <2> QED BY <1>2, <1>4, <2>1, <2>3 DEF FreshOk, Fresh
<1>7. /\ UNCHANGED view /\ UNCHANGED doubt /\ UNCHANGED bridge
      /\ GoodBridge(bridge') /\ GoodHandle(bridge', handle'[Ui]) /\ Size(bridge') = Size(bridge)
      /\ Line(bridge', handle'[Ui]) = Line(bridge, handle[Ui])
      /\ handle'[Ui].pc = handle[Ui].pc
  BY <1>1, <1>4
<1> QED BY <1>2, <1>3, <1>6, <1>7, LineStays

LEMMA OtherWorkerOk ==
  ASSUME VInv, NEW r \in Readers \ {Ui}, Worker(r), UNCHANGED viewer
  PROVE  VInv'
<1>1. /\ HandlesOk /\ DataOk /\ OthersOk /\ handle[r].pc = "open" /\ HandleOk(r)
      /\ \A n \in DOMAIN handle[r].queue : handle[r].queue[n].op \in {"count", "clear"}
  BY DaemonsAreHandles DEF VInv, OthersOk, HandlesOk
<1>2. /\ HandlesOk' /\ DataOk' /\ \A g \in Handles \ {r} : handle'[g] = handle[g]
      /\ StaysAsked(r) \/ IsAnswered(r)
  BY <1>1, ReaderWorks
<1>3. handle'[Ui] = handle[Ui]
  BY <1>2, UiOk
<1>4. CASE StaysAsked(r)
  <2>1. OthersOk'
    BY <1>1, <1>2, <1>4, DaemonsAreHandles DEF OthersOk, StaysAsked
  <2>2. rows' = rows
    BY <1>4 DEF StaysAsked
  <2> QED BY <1>2, <1>3, <2>1, <2>2, OthersStay
<1>5. CASE IsAnswered(r)
  <2>1. handle[r].queue # <<>> /\ handle[r].queue \in Seq(Command)
    BY <1>1, <1>5 DEF IsAnswered, HandleOk
  <2>2. /\ Head(handle[r].queue) = handle[r].queue[1] /\ 1 \in DOMAIN handle[r].queue
        /\ \A n \in DOMAIN Tail(handle[r].queue) :
             n + 1 \in DOMAIN handle[r].queue
               /\ Tail(handle[r].queue)[n] = handle[r].queue[n + 1]
    BY <2>1, TailOk
  <2>3. Head(handle[r].queue).op \in {"count", "clear"}
    BY <1>1, <2>2
  <2>4. handle'[r].pc = "open" /\ handle'[r].queue = Tail(handle[r].queue)
    BY <1>5 DEF IsAnswered
  <2>5. OthersOk'
    <3>1. \A n \in DOMAIN handle'[r].queue : handle'[r].queue[n].op \in {"count", "clear"}
      BY <1>1, <2>2, <2>4
    <3> QED BY <1>1, <1>2, <2>4, <3>1, DaemonsAreHandles DEF OthersOk
  <2>6. DOMAIN rows' \subseteq DOMAIN rows
        /\ \A i \in DOMAIN rows' : rows'[i].hidden = rows[i].hidden
    BY <1>5, <2>3 DEF IsAnswered
  <2> QED BY <1>2, <1>3, <2>5, <2>6, OthersStay
<1> QED BY <1>2, <1>4, <1>5

\* A reader counts or clears.
LEMMA OtherAsksOk ==
  ASSUME VInv, NEW r \in Readers \ {Ui}, UNCHANGED viewer, NEW c \in Command,
         c.op \in {"count", "clear"}, Ask(r, c),
         UNCHANGED spent \/ (spent.questions < MaxQuestions
                             /\ spent' = [spent EXCEPT !.questions = @ + 1])
  PROVE  VInv'
<1>1. HandlesOk /\ DataOk /\ OthersOk
  BY DEF VInv
<1>2. /\ HandlesOk' /\ \A g \in Handles \ {r} : handle'[g] = handle[g]
      /\ handle'[r].pc = "open" /\ handle'[r].queue = <<c>> /\ handle'[r].answer = None
  <2>1. c.op \in ReaderOps /\ r \in Readers
    BY DEF ReaderOps
  <2> QED BY <1>1, <2>1, AskOk
<1>3. handle'[Ui] = handle[Ui]
  BY <1>2, UiOk
<1>4. UNCHANGED <<version, rows, known>>
  BY DEF Ask
<1>5. DataOk'
  <2>1. spent' \in [crashes : 0 .. MaxCrashes, questions : 0 .. MaxQuestions]
    <3>1. spent \in [crashes : 0 .. MaxCrashes, questions : 0 .. MaxQuestions]
      BY <1>1 DEF DataOk
    <3>2. MaxQuestions \in Nat
      BY HistoryConstants
    <3>3. CASE UNCHANGED spent
      BY <3>1, <3>3
    <3>4. CASE spent.questions < MaxQuestions /\ spent' = [spent EXCEPT !.questions = @ + 1]
      <4>1. spent.questions + 1 \in 0 .. MaxQuestions
        BY <3>1, <3>2, <3>4
      <4> QED BY <3>1, <3>4, <4>1
    <3> QED BY <3>3, <3>4
  <2> QED BY <1>1, <1>4, <2>1 DEF DataOk, Numbered
<1>6. OthersOk'
  <2>1. DOMAIN <<c>> = {1} /\ <<c>>[1] = c
    BY SingleOk
  <2>2. \A n \in DOMAIN handle'[r].queue : handle'[r].queue[n].op \in {"count", "clear"}
    BY <1>2, <2>1
  <2> QED BY <1>1, <1>2, <2>2, DaemonsAreHandles DEF OthersOk
<1> QED BY <1>2, <1>3, <1>4, <1>5, <1>6, OthersStay

LEMMA OthersKeep ==
  ASSUME VInv, Others
  PROVE  VInv'
<1>1. UNCHANGED viewer
  BY DEF Others
<1>3. ASSUME NEW r \in Readers \ {Ui}, Worker(r)
      PROVE  VInv'
  BY <1>1, <1>3, OtherWorkerOk
<1>4. ASSUME NEW r \in Readers \ {Ui}, Count(r)
      PROVE  VInv'
  <2>1. PICK filter \in Filters, all \in BOOLEAN :
          AskOnce(r, [op |-> "count", filter |-> filter, all |-> all])
    BY <1>4 DEF Count
  <2> PICK c : c = [op |-> "count", filter |-> filter, all |-> all]
    OBVIOUS
  <2>2. c \in Choosing /\ c.op = "count"
    BY DEF Choosing
  <2>3. c \in Command
    BY <2>2, CommandForms
  <2>4. /\ spent.questions < MaxQuestions /\ spent' = [spent EXCEPT !.questions = @ + 1]
        /\ Ask(r, c)
    BY <2>1 DEF AskOnce
  <2> QED BY <1>1, <2>2, <2>3, <2>4, OtherAsksOk
<1>5. ASSUME NEW r \in Readers \ {Ui}, Clear(r)
      PROVE  VInv'
  <2> DEFINE a == handle[r].answer
  <2>1. /\ a # None /\ a.asked.op = "count" /\ UNCHANGED spent
        /\ Ask(r, [a.asked EXCEPT !.op = "clear"])
    BY <1>5 DEF Clear
  <2>2. a.asked \in Command
    <3>1. HandleOk(r)
      BY DaemonsAreHandles DEF VInv, HandlesOk
    <3> QED BY <2>1, <3>1 DEF HandleOk, IsAnswer
  <2>3. a.asked \in Choosing
    BY <2>1, <2>2, CommandForms
  <2> PICK c : c = [a.asked EXCEPT !.op = "clear"]
    OBVIOUS
  <2>4. c \in Choosing /\ c.op = "clear"
    BY <2>3, CommandForms DEF Choosing
  <2>5. c \in Command
    BY <2>4, CommandForms
  <2>6. Ask(r, c)
    BY <2>1
  <2> QED BY <1>1, <2>1, <2>4, <2>5, <2>6, OtherAsksOk
<1> QED BY <1>3, <1>4, <1>5 DEF Others

-----------------------------------------------------------------------------
(* The invariant holds.                                                    *)

LEMMA StartOk == ViewerInit => VInv
<1> SUFFICES ASSUME ViewerInit PROVE VInv
  OBVIOUS
<1> DEFINE load == [op |-> "load", id |-> None]
<1>1. /\ version = 1 /\ drawn = None /\ keys = 0 /\ doubt = {}
      /\ rows = [i \in Ids |-> [server |-> Origin[i], state |-> "closed",
                                hidden |-> i \in earlier, jumped |-> FALSE]]
      /\ earlier = HiddenBefore /\ launch.hidden \in BOOLEAN
      /\ known = [i \in {} |-> None] /\ spent = [crashes |-> 0, questions |-> 0]
      /\ handle = [h \in Handles |-> [Closed EXCEPT !.pc = "open"]]
      /\ view = [pc |-> "apply", load |-> "loading", entries |-> {}, selected |-> 0,
                 filtered |-> FALSE, hidden |-> <<>>, confirm |-> None, listed |-> {}]
      /\ bridge = [commands |-> <<load>>, working |-> None, replies |-> <<>>]
  BY DEF ViewerInit
<1>2. ASSUME NEW h \in Handles
      PROVE  /\ handle[h] = [pc |-> handle[h].pc, queue |-> handle[h].queue,
                             tries |-> handle[h].tries, answer |-> handle[h].answer]
             /\ handle[h].pc = "open" /\ handle[h].queue = <<>>
             /\ handle[h].tries = 0 /\ handle[h].answer = None
  <2>1. handle[h] = [pc |-> "open", queue |-> <<>>, tries |-> 0, answer |-> None]
    BY <1>1 DEF Closed
  <2> QED BY <2>1
<1>3. HandlesOk
  <2>1. <<>> \in Seq(Command) /\ Len(<<>>) = 0 /\ DOMAIN <<>> = {}
    BY EmptyOk
  <2>2. 0 \in 0 .. MaxAttempts - 1 /\ QueueCapacity \in Nat
    BY HistoryConstants
  <2>3. ASSUME NEW h \in Handles
        PROVE  HandleOk(h)
    <3>1. \A n \in DOMAIN handle[h].queue : FALSE
      BY <1>2, <2>1
    <3>2. Len(handle[h].queue) = 0 /\ handle[h].queue \in Seq(Command) /\ 0 <= QueueCapacity
      <4>1. handle[h].queue = <<>>
        BY <1>2
      <4> QED BY <2>1, <2>2, <4>1
    <3> QED BY <1>2, <2>2, <3>1, <3>2 DEF HandleOk, IsAnswer
  <2> QED BY <1>1, <2>3 DEF HandlesOk
<1>4. DataOk
  <2>1. Numbered
    <3>1. 0 \in 0 .. MaxIds /\ 0 .. 0 - 1 = {} /\ DOMAIN known = {}
      BY <1>1, HistoryConstants
    <3> QED BY <3>1 DEF Numbered
  <2>2. spent \in [crashes : 0 .. MaxCrashes, questions : 0 .. MaxQuestions]
    BY <1>1, HistoryConstants
  <2>3. DOMAIN rows = Ids /\ rows \in [DOMAIN rows -> Row]
    <3>1. \A i \in Ids : [server |-> Origin[i], state |-> "closed",
                          hidden |-> i \in earlier, jumped |-> FALSE] \in Row
      BY ViewerConstants DEF Row, States
    <3> QED BY <1>1, <3>1
  <2>4. known \in [DOMAIN known -> Fact]
    BY <1>1
  <2> QED BY <1>1, <2>1, <2>2, <2>3, <2>4 DEF DataOk
<1>5. OthersOk
  BY <1>2, EmptyOk DEF OthersOk, Handles
<1>6. GoodBridge(bridge) /\ GoodHandle(bridge, handle[Ui])
  <2>1. load \in Orders
    BY DEF Orders
  <2>2. <<load>> \in Seq(Orders) /\ Len(<<load>>) = 1 /\ <<>> \in Seq(Replies) /\ Len(<<>>) = 0
    BY <2>1, SingleOk, EmptyOk
  <2>3. 1 <= ActionCapacity /\ 0 <= ActionCapacity /\ None \in Working \cup {None}
    BY ViewerConstants
  <2> HIDE DEF load
  <2> PICK q : q = <<load>>
    OBVIOUS
  <2>4. GoodBridge(bridge)
    <3>1. bridge = [commands |-> q, working |-> None, replies |-> <<>>]
      BY <1>1
    <3>2. Len(q) <= ActionCapacity /\ Len(<<>>) <= ActionCapacity /\ q \in Seq(Orders)
      BY <2>2, <2>3
    <3> QED BY <2>2, <2>3, <3>1, <3>2, BridgeOf
  <2> QED BY <1>1, <1>2, <2>4, UiOk DEF GoodHandle
<1>7. ChannelsOk
  BY <1>1, <1>2, <1>6, UiOk DEF ChannelsOk, In
<1>8. ViewOk
  <2>1. <<>> \in Seq(Ids) /\ DOMAIN <<>> = {}
    BY EmptyOk
  <2>2. Range(<<>>) = {} /\ IsInjective(<<>>)
    BY <2>1 DEF Range, IsInjective
  <2>3. view \in View
    BY <1>1, <2>1 DEF View
  <2>4. Placed(view)
    <3>1. LastIndex(view) \in Nat /\ view.selected = 0
      BY <1>1, <2>3, LastIndexOk
    <3> QED BY <3>1 DEF Placed
  <2>5. view.entries = {} /\ view.hidden = <<>> /\ view.listed = {} /\ view.pc = "apply"
    BY <1>1
  <2>6. Consistent(view)
    BY <2>2, <2>5 DEF Consistent
  <2> QED BY <1>1, <2>3, <2>4, <2>5, <2>6, ViewerConstants DEF ViewOk, GoodView, In
<1>9. Predictions
  BY <1>1 DEF Predictions
<1>10. Loading
  <2>1. /\ Replied(bridge) = 0 /\ Worked(bridge) = 0 /\ Len(bridge.commands) = 1
        /\ bridge.commands[1] = load
    BY <1>1 DEF Replied, Worked
  <2>2. Size(bridge) = 1
    BY <2>1 DEF Size
  <2>3. Line(bridge, handle[Ui])[1] = Entry(load, "todo")
    <3>1. 1 \in 1 .. Size(bridge) /\ ~(1 <= Replied(bridge))
          /\ ~(1 <= Replied(bridge) + Worked(bridge)) /\ 1 - Replied(bridge) - Worked(bridge) = 1
      BY <2>1, <2>2
    <3> HIDE DEF load
    <3>2. Line(bridge, handle[Ui])[1]
            = Entry(bridge.commands[1 - Replied(bridge) - Worked(bridge)], "todo")
      BY <3>1 DEF Line
    <3> QED BY <2>1, <3>1, <3>2
  <2>4. Line(bridge, handle[Ui])[1].op = "load"
    BY <2>3 DEF Entry
  <2> QED BY <1>1, <2>2, <2>4 DEF Loading
<1>11. FreshOk
  <2>1. DOMAIN bridge.replies = {} /\ bridge.working = None
    BY <1>1, EmptyOk
  <2>2. DOMAIN rows = Ids /\ \A i \in Ids : rows[i].hidden <=> i \in earlier
    BY <1>1
  <2>3. EarlierOk
    BY <1>1, <2>2, ViewerConstants DEF EarlierOk, Fresh, RowOp
  <2> QED BY <2>1, <2>3 DEF FreshOk
<1> QED BY <1>3, <1>4, <1>5, <1>7, <1>8, <1>9, <1>10, <1>11 DEF VInv

LEMMA IdleOk ==
  ASSUME VInv, UNCHANGED allVars
  PROVE  VInv'
BY DEF VInv, HandlesOk, HandleOk, DataOk, Numbered, OthersOk, ChannelsOk, GoodBridge, GoodHandle,
       ViewOk, GoodView, View, Placed, Consistent, LastIndex, Shown, Predictions, RowOp, SeenOp,
       Loading, FreshOk, EarlierOk, Fresh, In, allVars, vars, viewer

LEMMA ViewerStepOk == VInv /\ [ViewerNext]_allVars => VInv'
<1> SUFFICES ASSUME VInv, [ViewerNext]_allVars PROVE VInv'
  OBVIOUS
<1>1. CASE Take
  BY <1>1, TakeOk
<1>2. CASE Reply
  BY <1>2, ReplyOk
<1>3. CASE EventLoop
  BY <1>3, ApplyReplyOk, DrawOk, NoKeyOk DEF EventLoop
<1>4. CASE Keyboard
  <2>1. CASE Quit
    BY <2>1, ExitsOk DEF Quit
  <2> QED BY <1>4, <2>1, MoveOk, FilterKeyOk, HideOk, UndoOk, EnterOk, ConfirmOk, DeclineOk
          DEF Keyboard
<1>5. CASE OwnWorker \/ Others
  BY <1>5, OwnWorkerOk, OthersKeep
<1>6. CASE UNCHANGED allVars
  BY <1>6, IdleOk
<1> QED BY <1>1, <1>2, <1>3, <1>4, <1>5, <1>6 DEF ViewerNext

LEMMA ViewerInvariant == ViewerSpec => []VInv
BY StartOk, ViewerStepOk, PTL DEF ViewerSpec

\* With nothing under way the viewer's list says of every row what the database
\* says, and before that each row that was loaded is listed or can be taken back
\* and never both, although the list is edited first and failed edits are rolled
\* back late (hide_selected, undo_hide and apply_worker_replies of
\* src/ui/history.rs).  With `history --all` the list has rows that were hidden
\* before; they stay hidden until an edit of them succeeds.
THEOREM ListStaysTrue == ViewerSpec => []ListIsTrue
<1>1. VInv => ListIsTrue
  <2> SUFFICES ASSUME VInv PROVE ListIsTrue
    OBVIOUS
  <2>1. /\ DataOk /\ GoodBridge(bridge) /\ GoodHandle(bridge, handle[Ui])
        /\ view \in View /\ Placed(view) /\ Consistent(view)
        /\ drawn \in Ids \cup {None} /\ keys \in 0 .. MaxKeys /\ doubt \subseteq Ids
        /\ EarlierOk
    BY DEF VInv, ChannelsOk, ViewOk, GoodView, FreshOk
  <2>2. ViewTypeOK
    BY <2>1 DEF ViewTypeOK, View, Placed, GoodBridge, EarlierOk
  <2>3. ListedOrHidden
    BY <2>1 DEF ListedOrHidden, Consistent
  <2>4. ViewAgrees
    <3> SUFFICES ASSUME Idle, ~In("over"), NEW i \in (view.listed \cap DOMAIN rows) \ doubt
                 PROVE  rows[i].hidden <=> i \in earlier \cup Range(view.hidden)
      BY DEF ViewAgrees
    <3>1. Replied(bridge) = 0 /\ Worked(bridge) = 0 /\ Len(bridge.commands) = 0
      BY EmptyOk DEF Idle, Replied, Worked
    <3>2. Size(bridge) = 0
      BY <3>1 DEF Size
    <3>3. DOMAIN Line(bridge, handle[Ui]) = {}
      BY <3>2 DEF Line
    <3>4. Predicted(Line(bridge, handle[Ui]), i, RowOp(i), SeenOp(view, i))
      BY DEF VInv, Predictions
    <3>5. RowOp(i) = SeenOp(view, i)
      BY <3>3, <3>4, EmptyLine
    <3> QED BY <2>1, <3>5 DEF RowOp, SeenOp, EarlierOk
  <2> QED BY <2>2, <2>3, <2>4 DEF ListIsTrue
<1> QED BY <1>1, ViewerInvariant, PTL

-----------------------------------------------------------------------------
(* What the keys send.                                                     *)

\* What a Hide, an Undo and a jump are sent for.
Justified(op, i) ==
  \/ op = "hide" /\ In("key") /\ i = Chosen(view)
  \/ op = "unhide"
  \/ op = "jump" /\ In("key") /\ i = Chosen(view) /\ Local(i) /\ view.confirm = None
  \/ op = "jump" /\ view.confirm = i

\* Commands that are taken, lost or left as they are make no command sent.
LEMMA NothingSent ==
  ASSUME VInv, NEW s, s = bridge'.commands,
         \/ s = bridge.commands
         \/ bridge.commands # <<>> /\ s = Tail(bridge.commands)
         \/ s = <<>>
  PROVE  \A op, i : ~Sent(op, i)
<1>1. bridge.commands \in Seq(Orders)
  BY DEF VInv, ChannelsOk, GoodBridge
<1>2. Len(bridge.commands) \in Nat
  BY <1>1
<1>3. s = bridge.commands => ~(Len(s) > Len(bridge.commands))
  BY <1>2
<1>4. bridge.commands # <<>> /\ s = Tail(bridge.commands) => ~(Len(s) > Len(bridge.commands))
  BY <1>1, <1>2, TailOk
<1>5. s = <<>> => ~(Len(s) > Len(bridge.commands))
  BY <1>2
<1> QED BY <1>3, <1>4, <1>5 DEF Sent

LEMMA OneSent ==
  ASSUME VInv, NEW o, NEW j \in Ids, o \in {"jump"} \cup Mutations, Sends(o, j),
         NEW op, NEW i, Sent(op, i)
  PROVE  op = o /\ i = j
<1> DEFINE c == [op |-> o, id |-> j]
           s == bridge.commands
<1>1. s \in Seq(Orders) /\ c \in Orders
  BY OrdersOk DEF VInv, ChannelsOk, GoodBridge, CommandOps, Mutations
<1>2. Len(s) < ActionCapacity
  <2> SUFFICES ASSUME ~(Len(s) < ActionCapacity) PROVE FALSE
    OBVIOUS
  <2>1. bridge' = bridge
    BY DEF Sends
  <2> QED BY <2>1, NothingSent
<1>3. bridge'.commands = Append(s, c)
  <2>1. bridge' = [bridge EXCEPT !.commands = Append(@, c)]
    BY <1>2 DEF Sends
  <2>2. bridge = [commands |-> bridge.commands, working |-> bridge.working,
                  replies |-> bridge.replies]
    BY DEF VInv, ChannelsOk, GoodBridge
  <2> HIDE DEF c
  <2> QED BY <2>1, <2>2
<1>4. Last(bridge'.commands) = [op |-> op, id |-> i]
  BY DEF Sent
<1> HIDE DEF c, s
<1>5. Last(Append(s, c)) = c
  <2>1. /\ Append(s, c) \in Seq(Orders) /\ Len(Append(s, c)) = Len(s) + 1 /\ Len(s) \in Nat
        /\ Append(s, c)[Len(s) + 1] = c
    BY <1>1, AppendOk
  <2> QED BY <2>1 DEF Last
<1>6. c = [op |-> op, id |-> i]
  BY <1>3, <1>4, <1>5
<1> QED BY <1>6 DEF c

LEMMA ChosenRow ==
  ASSUME VInv, Chosen(view) # None
  PROVE  Chosen(view) \in Ids
<1>1. view \in View
  BY DEF VInv, ViewOk, GoodView
<1> QED BY <1>1, ChosenOk DEF View

LEMMA SentIsJustified ==
  ASSUME VInv, [ViewerNext]_allVars, NEW op, NEW i \in Ids, Sent(op, i)
  PROVE  Justified(op, i)
<1>1. CASE UNCHANGED bridge
  BY <1>1, NothingSent
<1>2. CASE Take
  <2>1. PICK w : bridge' = [bridge EXCEPT !.commands = Tail(@), !.working = w]
    BY <1>2 DEF Take
  <2>2. bridge = [commands |-> bridge.commands, working |-> bridge.working,
                  replies |-> bridge.replies]
    BY DEF VInv, ChannelsOk, GoodBridge
  <2>3. bridge'.commands = Tail(bridge.commands) /\ bridge.commands # <<>>
    BY <1>2, <2>1, <2>2 DEF Take
  <2> QED BY <2>3, NothingSent
<1>3. CASE Reply
  <2>1. PICK r : bridge' = [bridge EXCEPT !.replies = r, !.working = None]
    BY <1>3 DEF Reply
  <2>2. bridge = [commands |-> bridge.commands, working |-> bridge.working,
                  replies |-> bridge.replies]
    BY DEF VInv, ChannelsOk, GoodBridge
  <2>3. bridge'.commands = bridge.commands
    BY <2>1, <2>2
  <2> QED BY <2>3, NothingSent
<1>4. ASSUME Exits(view)
      PROVE  Justified(op, i)
  <2>1. bridge'.commands = <<>>
    BY <1>4 DEF Exits
  <2> QED BY <2>1, NothingSent
<1>5. CASE ApplyReply
  <2>1. CASE Exits(view)
    BY <1>4, <2>1
  <2>2. CASE ~Exits(view)
    <3>1. bridge' = [bridge EXCEPT !.replies = Tail(@)]
      BY <1>5, <2>2 DEF ApplyReply
    <3>2. bridge = [commands |-> bridge.commands, working |-> bridge.working,
                    replies |-> bridge.replies]
      BY DEF VInv, ChannelsOk, GoodBridge
    <3>3. bridge'.commands = bridge.commands
      BY <3>1, <3>2
    <3> QED BY <3>3, NothingSent
  <2> QED BY <2>1, <2>2
<1>6. CASE Hide
  <2>1. Sends("hide", Chosen(view)) /\ Chosen(view) # None /\ In("key")
    BY <1>6 DEF Hide, Pressed
  <2>2. Chosen(view) \in Ids /\ "hide" \in {"jump"} \cup Mutations
    BY <2>1, ChosenRow DEF Mutations
  <2>3. op = "hide" /\ i = Chosen(view)
    BY <2>1, <2>2, OneSent
  <2> QED BY <2>1, <2>3 DEF Justified
<1>7. CASE Undo
  <2>1. Sends("unhide", Last(view.hidden)) /\ view.hidden # <<>>
    BY <1>7 DEF Undo
  <2>2. Last(view.hidden) \in Ids /\ "unhide" \in {"jump"} \cup Mutations
    <3>1. view.hidden \in Seq(Ids) /\ IsInjective(view.hidden)
      BY DEF VInv, ViewOk, GoodView, View, Consistent
    <3> QED BY <2>1, <3>1, LastHidden DEF Mutations
  <2>3. op = "unhide"
    BY <2>1, <2>2, OneSent
  <2> QED BY <2>3 DEF Justified
<1>8. CASE Enter
  <2>1. CASE Sends("jump", Chosen(view)) /\ Local(Chosen(view))
    <3>1. Chosen(view) # None /\ In("key") /\ view.confirm = None
      BY <1>8 DEF Enter, Pressed
    <3>2. Chosen(view) \in Ids /\ "jump" \in {"jump"} \cup Mutations
      BY <3>1, ChosenRow
    <3>3. op = "jump" /\ i = Chosen(view)
      BY <2>1, <3>2, OneSent
    <3> QED BY <2>1, <3>1, <3>3 DEF Justified
  <2>2. CASE Quietly
    BY <1>1, <2>2 DEF Quietly
  <2> QED BY <1>8, <2>1, <2>2 DEF Enter
<1>9. CASE Confirm
  <2>1. CASE Sends("jump", view.confirm)
    <3>1. view.confirm \in Ids /\ "jump" \in {"jump"} \cup Mutations
      BY <1>9 DEF Confirm, VInv, ViewOk, GoodView, View
    <3>2. op = "jump" /\ i = view.confirm
      BY <2>1, <3>1, OneSent
    <3> QED BY <3>2 DEF Justified
  <2>2. CASE Quietly
    BY <1>1, <2>2 DEF Quietly
  <2> QED BY <1>9, <2>1, <2>2 DEF Confirm
<1>10. CASE Draw \/ NoKey \/ Move \/ FilterKey \/ Decline \/ OwnWorker \/ Others \/ UNCHANGED allVars
  BY <1>1, <1>10
     DEF Draw, NoKey, Move, FilterKey, Decline, Quietly, OwnWorker, Others, allVars, viewer
<1>11. CASE Quit
  BY <1>4, <1>11 DEF Quit
<1> QED BY <1>2, <1>3, <1>5, <1>6, <1>7, <1>8, <1>9, <1>10, <1>11
        DEF ViewerNext, EventLoop, Keyboard

\* Only Enter asks for a confirmation, of the row that is selected.
LEMMA AskedForChosen ==
  ASSUME VInv, [ViewerNext]_allVars, NEW i \in Ids, view.confirm # i, view'.confirm = i
  PROVE  In("key") /\ i = Chosen(view)
<1>0. /\ view \in View /\ None \notin Ids
      /\ \A v \in View : \A pc : [v EXCEPT !.pc = pc].confirm = v.confirm
  BY NoneIsNoId DEF VInv, ViewOk, GoodView, View
<1>1. CASE view'.confirm = view.confirm
  BY <1>1
<1>2. CASE view'.confirm = None
  BY <1>0, <1>2
<1>3. CASE Take \/ Reply \/ OwnWorker \/ Others \/ UNCHANGED allVars
  BY <1>1, <1>3 DEF Take, Reply, OwnWorker, Others, allVars, viewer
<1>4. CASE Exits(view)
  BY <1>0, <1>1, <1>4 DEF Exits
<1>5. CASE ApplyReply
  <2> DEFINE r == Head(bridge.replies)
  <2>1. CASE Exits(view)
    BY <1>4, <2>1
  <2>2. CASE view' = Applied(view, r)
    <3>1. GoodView(view)
      BY DEF VInv, ViewOk
    <3>2. CASE r.op = "load" /\ r.ok
      <4> DEFINE w == [view EXCEPT !.entries = r.value, !.load = "ready", !.listed = r.value]
      <4>1. view' = Clamped(w)
        BY <2>2, <3>2 DEF Applied, Loaded
      <4>2. w.confirm = view.confirm /\ w = [f \in DOMAIN view |-> w[f]]
            /\ "confirm" \in DOMAIN view
        BY <1>0 DEF View
      <4> HIDE DEF w
      <4>3. PICK n : Clamped(w) = [w EXCEPT !.selected = n]
        BY DEF Clamped
      <4>4. view'.confirm = view.confirm
        BY <4>1, <4>2, <4>3
      <4> QED BY <1>1, <4>4
    <3>3. CASE r.op = "load" /\ ~r.ok
      <4>1. view' = [view EXCEPT !.load = "error"]
        BY <2>2, <3>3 DEF Applied
      <4> QED BY <1>0, <1>1, <4>1 DEF View
    <3>4. CASE r.op = "hide" /\ ~r.ok
      <4>1. view' = RollbackHide(view, r.id)
        BY <2>2, <3>4 DEF Applied
      <4>2. view'.confirm = view.confirm
        BY <3>1, <4>1, RollbackHideOk DEF SameRest
      <4> QED BY <1>1, <4>2
    <3>5. CASE r.op = "unhide" /\ ~r.ok
      <4>1. view' = RollbackUnhide(view, r.id)
        BY <2>2, <3>5 DEF Applied
      <4>2. view'.confirm = view.confirm
        BY <3>1, <4>1, RollbackUnhideOk DEF SameRest
      <4> QED BY <1>1, <4>2
    <3>6. CASE ~(r.op = "load" \/ ((r.op = "hide" \/ r.op = "unhide") /\ ~r.ok))
      <4>1. view' = view
        BY <2>2, <3>6, Zenon DEF Applied
      <4> QED BY <1>1, <4>1
    <3> QED BY <3>2, <3>3, <3>4, <3>5, <3>6
  <2> QED BY <1>5, <2>1, <2>2 DEF ApplyReply
<1>6. CASE Draw \/ NoKey
  BY <1>0, <1>1, <1>6 DEF Draw, NoKey
<1>7. CASE Move \/ FilterKey
  <2>1. PICK n, f : Pressed([view EXCEPT !.filtered = f, !.selected = n])
                      \/ Pressed([view EXCEPT !.selected = n])
    BY <1>7 DEF Move, FilterKey
  <2>2. view'.confirm = view.confirm
    BY <1>0, <2>1 DEF Pressed, View
  <2> QED BY <1>1, <2>2
<1>8. CASE Hide
  <2>1. Pressed(TakenOut(view, Chosen(view))) /\ Chosen(view) # None
    BY <1>8 DEF Hide
  <2>2. Chosen(view) \in view.entries /\ Consistent(view)
    BY <1>0, <2>1, ChosenOk DEF VInv, ViewOk, GoodView
  <2>3. TakenOut(view, Chosen(view)) \in View
        /\ TakenOut(view, Chosen(view)).confirm = view.confirm
    BY <1>0, <2>2, TakenOutOk DEF GoodView, SameRest
  <2> PICK v : v = TakenOut(view, Chosen(view))
    OBVIOUS
  <2>4. view' = [v EXCEPT !.pc = AfterKey]
    BY <2>1 DEF Pressed
  <2>5. view'.confirm = view.confirm
    BY <1>0, <2>3, <2>4
  <2> QED BY <1>1, <2>5
<1>9. CASE Undo
  <2> PICK j : j = Last(view.hidden)
    OBVIOUS
  <2> PICK w : w = [TakenBack(view, j) EXCEPT !.selected = IndexOf(Shown(TakenBack(view, j)), j)]
    OBVIOUS
  <2>1. Pressed(w) /\ view.hidden # <<>>
    BY <1>9 DEF Undo, TakenBack
  <2>2. GoodView(view)
    BY DEF VInv, ViewOk
  <2>3. w \in View /\ w.confirm = view.confirm
    <3>1. GoodView(w) /\ SameRest(view, w)
      BY <2>1, <2>2, TakenBackOk
    <3> QED BY <3>1 DEF GoodView, SameRest
  <2>4. view' = [w EXCEPT !.pc = AfterKey]
    BY <2>1 DEF Pressed
  <2>5. view'.confirm = view.confirm
    BY <1>0, <2>3, <2>4
  <2> QED BY <1>1, <2>5
<1>10. CASE Enter
  <2>1. In("key")
    BY <1>10 DEF Enter, Pressed
  <2>2. CASE Pressed(view)
    <3>1. view'.confirm = view.confirm
      BY <1>0, <2>2 DEF Pressed
    <3> QED BY <1>1, <3>1
  <2>3. CASE Pressed([view EXCEPT !.confirm = Chosen(view)])
    <3>1. view'.confirm = Chosen(view)
      BY <1>0, <2>3 DEF Pressed, View
    <3> QED BY <2>1, <3>1
  <2> QED BY <1>10, <2>2, <2>3 DEF Enter
<1>11. CASE Confirm \/ Decline
  <2>1. Pressed([view EXCEPT !.confirm = None])
    BY <1>11 DEF Confirm, Decline
  <2>2. view'.confirm = None
    BY <1>0, <2>1 DEF Pressed, View
  <2> QED BY <1>2, <2>2
<1>12. CASE Quit
  BY <1>4, <1>12 DEF Quit
<1> QED BY <1>3, <1>5, <1>6, <1>7, <1>8, <1>9, <1>10, <1>11, <1>12
        DEF ViewerNext, EventLoop, Keyboard

\* A key acts on the row that was drawn as selected, and no jump to another
\* server is sent but the one that was asked for and confirmed (handle_key,
\* begin_jump and handle_confirmation of src/ui/history.rs).
THEOREM KeysDoWhatIsSeen == ViewerSpec => KeysMeanWhatIsSeen
<1>1. VInv /\ [ViewerNext]_allVars =>
        [\A i \in Ids :
           \/ Sent("hide", i)
           \/ view.confirm = None /\ (Sent("jump", i) \/ view'.confirm = i)
           => i = drawn]_allVars
  <2> SUFFICES ASSUME VInv, [ViewerNext]_allVars, NEW i \in Ids,
                      \/ Sent("hide", i)
                      \/ view.confirm = None /\ (Sent("jump", i) \/ view'.confirm = i)
               PROVE  i = drawn
    OBVIOUS
  <2>1. In("key") /\ i = Chosen(view)
    <3>1. CASE Sent("hide", i)
      BY <3>1, SentIsJustified DEF Justified
    <3>2. CASE view.confirm = None /\ Sent("jump", i)
      BY <3>2, SentIsJustified, NoneIsNoId DEF Justified
    <3>3. CASE view.confirm = None /\ view'.confirm = i
      BY <3>3, AskedForChosen, NoneIsNoId
    <3> QED BY <3>1, <3>2, <3>3
  <2> QED BY <2>1 DEF VInv, ViewOk
<1>2. VInv /\ [ViewerNext]_allVars =>
        [\A i \in Ids : Sent("jump", i) /\ Origin[i] # launch.server => view.confirm = i]_allVars
  <2> SUFFICES ASSUME VInv, [ViewerNext]_allVars, NEW i \in Ids,
                      Sent("jump", i), Origin[i] # launch.server
               PROVE  view.confirm = i
    OBVIOUS
  <2> QED BY SentIsJustified DEF Justified, Local
<1> QED BY <1>1, <1>2, ViewerInvariant, PTL
        DEF ViewerSpec, KeysMeanWhatIsSeen, KeyMeansDrawnRow, ForeignJumpIsConfirmed
=============================================================================
