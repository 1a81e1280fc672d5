---------------------------- MODULE HistoryStore ----------------------------
(***************************************************************************)
(* src/history.rs: the one SQLite database that the daemons of a user      *)
(* share.  A History handle is a bounded queue, a worker thread that takes *)
(* the commands in order, and a connection of its own; the daemon of a     *)
(* server has one, and so has every CLI or History UI process.             *)
(*                                                                         *)
(* A write is a transaction, so its effect is one step (Commit).  Before   *)
(* it, while another handle writes too, SQLite may refuse the lock (Busy)  *)
(* and the worker backs off; or the transaction fails and is rolled back.  *)
(* A read sees one committed state of the table.                           *)
(*                                                                         *)
(* Ids count the Notifications of all daemons in the order they were       *)
(* created, so an id is its own created_at.  A server has one daemon at a  *)
(* time: SocketElection says how far that holds.  Fault marks a plausible  *)
(* slip, as in Scheduler.                                                  *)
(***************************************************************************)
EXTENDS Integers, Sequences, FiniteSets, FiniteSetsExt, Functions

CONSTANTS
  Daemons,        \* handles that History::open returned, one per server
  Readers,        \* handles that open_reader returned
  ServerOf,       \* the tmux server of each handle
  LimitOf,        \* history.max_entries of each handle
  MaxIds,         \* bound on the Notifications all daemons create
  QueueCapacity,  \* of the channel to a worker
  MaxAttempts,    \* SQLITE_BUSY_MAX_ATTEMPTS
  MaxCrashes,     \* bound on the daemons that are killed
  MaxQuestions,   \* bound on the commands of readers
  None

Handles == Daemons \cup Readers

ASSUME HistoryConstants ==
  /\ Daemons \cap Readers = {}
  /\ \A d, e \in Daemons : ServerOf[d] = ServerOf[e] => d = e
  /\ \A h \in Handles : LimitOf[h] \in Nat \ {0}
  /\ {MaxIds, MaxCrashes, MaxQuestions} \subseteq Nat
  /\ {QueueCapacity, MaxAttempts} \subseteq Nat \ {0}
  /\ None \notin Nat \cup Handles

Ids        == 0 .. MaxIds - 1
LiveStates == {"pending", "visible"}
States     == LiveStates \cup {"closed", "interrupted"}

VARIABLES
  version,   \* PRAGMA user_version
  rows,      \* the table
  handle,    \* the handles: where each is, its channel, its attempts
  known,     \* the Notifications of the daemons, as their memory has them
  spent      \* the crashes and the readers' commands so far

vars == <<version, rows, handle, known, spent>>

Row == [server : {ServerOf[h] : h \in Handles}, state : States,
        hidden : BOOLEAN, jumped : BOOLEAN]

Filters == {"hidden", "before", "all"}

Command ==
  [op : {"persist"}, id : Ids, state : States \ {"interrupted"}]
    \cup [op : {"hide"}, id : Ids, hidden : BOOLEAN]
    \cup [op : {"jumped"}, id : Ids]
    \cup [op : {"list"}, hidden : BOOLEAN, all : BOOLEAN]
    \cup [op : {"clear", "count"}, filter : Filters, all : BOOLEAN]

Closed == [pc |-> "closed", queue |-> <<>>, tries |-> 0, answer |-> None]

Init ==
  /\ version = 0
  /\ rows = [i \in {} |-> None]
  /\ handle = [h \in Handles |-> Closed]
  /\ known = [i \in {} |-> None]
  /\ spent = [crashes |-> 0, questions |-> 0]

At(h, pc) == handle[h].pc = pc

-----------------------------------------------------------------------------
(* The statements.                                                         *)

\* f, with x at i.
With(f, i, x) == [j \in DOMAIN f \cup {i} |-> IF j = i THEN x ELSE f[j]]

IsLive(row) == row.state \in LiveStates

\* Fault: the statement sets every column.
OverwritingUpsert(t, h, c) ==
  With(t, c.id, [server |-> ServerOf[h], state |-> c.state, hidden |-> FALSE,
                 jumped |-> FALSE])

\* INSERT ... ON CONFLICT(id) DO UPDATE: hidden_at and last_jumped_at keep
\* what they have when the snapshot has none.  It never has a hidden_at; the
\* last_jumped_at of a Notification that a jump closed is left out here.
Upserted(t, h, c) ==
  LET old == c.id \in DOMAIN t
  IN  With(t, c.id, [server |-> ServerOf[h], state |-> c.state,
                     hidden |-> old /\ t[c.id].hidden,
                     jumped |-> old /\ t[c.id].jumped])

\* Fault: the order of the rows is by creation only.
OldestGoFirst(t, i, j) == i < j

\* ORDER BY (hidden_at IS NULL), created_at, id: hidden rows go first.
GoesBefore(t, i, j) ==
  \/ t[i].hidden /\ ~t[j].hidden
  \/ t[i].hidden = t[j].hidden /\ i < j

\* enforce_retention_in: all but the last `limit` of that order are deleted.
Retained(t, limit) ==
  Restrict(t, {i \in DOMAIN t :
                 Cardinality({j \in DOMAIN t : GoesBefore(t, i, j)}) < limit})

\* recover_stale: the live rows of the handle's server were left by a daemon
\* that is gone.
Recovered(t, h) ==
  [i \in DOMAIN t |->
     IF IsLive(t[i]) /\ t[i].server = ServerOf[h]
     THEN [t[i] EXCEPT !.state = "interrupted"] ELSE t[i]]

\* An UPDATE ... WHERE id = ? changes nothing when there is no such row.
Hidden(t, c) ==
  [i \in DOMAIN t |-> IF i = c.id THEN [t[i] EXCEPT !.hidden = c.hidden] ELSE t[i]]

Jumped(t, c) ==
  [i \in DOMAIN t |-> IF i = c.id THEN [t[i] EXCEPT !.jumped = TRUE] ELSE t[i]]

\* The rows that a selector names; which rows were updated before the time of
\* a Before is left open, so it is any set of rows.
Selected(t, h, c) ==
  LET scope == {i \in DOMAIN t : c.all \/ t[i].server = ServerOf[h]}
  IN  CASE c.filter = "hidden" -> {{i \in scope : t[i].hidden}}
        [] c.filter = "before" -> SUBSET scope
        [] c.filter = "all"    -> {scope}

\* The rows that a list shows.
Listed(t, h, c) ==
  {i \in DOMAIN t : /\ c.hidden \/ ~t[i].hidden
                    /\ c.all \/ t[i].server = ServerOf[h]}

-----------------------------------------------------------------------------
(* Opening a handle.                                                       *)

\* Fault: nobody recovers.
NobodyRecovers(h) == "retain"

\* Only a daemon recovers: open_reader has no recovery time.
AfterMigration(h) == IF h \in Daemons THEN "recover" ELSE "retain"

\* migrate looks at the version before it asks for the lock.
Open(h) ==
  /\ At(h, "closed")
  /\ handle' = [handle EXCEPT ![h].pc =
                  IF version = 0 THEN "migrate" ELSE AfterMigration(h)]
  /\ UNCHANGED <<version, rows, known, spent>>

-----------------------------------------------------------------------------
(* The worker.                                                             *)

\* What the handle is doing: a step of open, or the front of its queue.
Job(h) ==
  IF handle[h].pc # "open" THEN [op |-> handle[h].pc]
  ELSE IF handle[h].queue = <<>> THEN [op |-> "none"]
  ELSE Head(handle[h].queue)

Writes == {"migrate", "recover", "retain", "persist", "hide", "jumped", "clear"}

\* The next step of open, after the one at hand; a failed one ends it.
AfterJob(h, ok) ==
  IF ~ok THEN "closed"
  ELSE [migrate |-> AfterMigration(h), recover |-> "retain", retain |-> "open"][handle[h].pc]

\* The job is over: the worker sends the answer and takes the next command.
Done(h, ok, value) ==
  LET x == handle[h]
      y == IF At(h, "open")
           THEN [pc |-> "open", queue |-> Tail(x.queue), tries |-> 0,
                 answer |-> IF h \in Daemons THEN None
                            ELSE [asked |-> Job(h), ok |-> ok, value |-> value]]
           ELSE [pc |-> AfterJob(h, ok), queue |-> x.queue, tries |-> 0, answer |-> x.answer]
  IN  handle' = [handle EXCEPT ![h] = y]

\* A persist that is over brings the row up to date, or leaves it behind.
Settled(h, ok) ==
  LET c == Job(h)
  IN  known' = IF c.op # "persist" THEN known
               ELSE [known EXCEPT ![c.id].lost =
                       IF ~ok THEN TRUE
                       ELSE IF c.state = known[c.id].state THEN FALSE ELSE @]

Writing(h) == Job(h).op \in Writes

\* with_sqlite_busy_retry: another connection has the write lock.  The last
\* attempt ends with its error.
Busy(h) ==
  /\ Writing(h)
  /\ \E other \in Handles \ {h} : Writing(other)
  /\ IF handle[h].tries + 1 < MaxAttempts
     THEN handle' = [handle EXCEPT ![h].tries = @ + 1] /\ UNCHANGED known
     ELSE Done(h, FALSE, None) /\ Settled(h, FALSE)
  /\ UNCHANGED <<version, rows, spent>>

\* persist: the row and the retention are one transaction.
Persisted(h) == {Retained(Upserted(rows, h, Job(h)), LimitOf[h])}

\* What the transaction makes of the table.
Outcomes(h) ==
  LET c == Job(h)
  IN  CASE c.op = "migrate" -> {rows}
        [] c.op = "recover" -> {Recovered(rows, h)}
        [] c.op = "retain"  -> {Retained(rows, LimitOf[h])}
        [] c.op = "persist" -> Persisted(h)
        [] c.op = "hide"    -> {Hidden(rows, c)}
        [] c.op = "jumped"  -> {Jumped(rows, c)}
        [] c.op = "clear"   -> {Restrict(rows, DOMAIN rows \ gone) :
                                  gone \in Selected(rows, h, c)}

Commit(h) ==
  /\ Writing(h)
  /\ rows' \in Outcomes(h)
  /\ version' = IF Job(h).op = "migrate" THEN 1 ELSE version
  /\ Done(h, TRUE, None)
  /\ Settled(h, TRUE)
  /\ UNCHANGED spent

\* A statement or the commit fails: the transaction is dropped, which rolls it
\* back.
Fail(h) ==
  /\ Writing(h)
  /\ Done(h, FALSE, None)
  /\ Settled(h, FALSE)
  /\ UNCHANGED <<version, rows, spent>>

Read(h) ==
  /\ \/ /\ Job(h).op = "list"
        /\ Done(h, TRUE, Listed(rows, h, Job(h)))
     \/ /\ Job(h).op = "count"
        /\ Done(h, TRUE, None)
  /\ UNCHANGED <<version, rows, known, spent>>

Worker(h) == Busy(h) \/ Commit(h) \/ Fail(h) \/ Read(h)

-----------------------------------------------------------------------------
(* The daemons.                                                            *)

Push(h, c) == [handle EXCEPT ![h].queue = Append(@, c)]

HasRoom(h) == Len(handle[h].queue) < QueueCapacity

\* A snapshot of Notification i, which is now `fact`: submit never waits, a
\* full queue refuses it.
Submit(d, i, fact) ==
  LET c == [op |-> "persist", id |-> i, state |-> fact.state]
  IN  IF HasRoom(d)
      THEN handle' = Push(d, c) /\ known' = With(known, i, fact)
      ELSE UNCHANGED handle /\ known' = With(known, i, [fact EXCEPT !.lost = TRUE])

Accept(d) ==
  /\ At(d, "open")
  /\ Cardinality(DOMAIN known) < MaxIds
  /\ Submit(d, Cardinality(DOMAIN known),
            [by |-> d, state |-> "pending", past |-> FALSE, lost |-> FALSE])
  /\ UNCHANGED <<version, rows, spent>>

\* What a live Notification becomes: shown, or closed.
Change(d, i) ==
  /\ known[i].by = d /\ ~known[i].past /\ known[i].state \in LiveStates
  /\ \E state \in {"visible", "closed"} \ {known[i].state} :
       Submit(d, i, [known[i] EXCEPT !.state = state])
  /\ UNCHANGED <<version, rows, spent>>

\* The process ends without its shutdown: what is queued is gone, the open
\* transaction is rolled back.
Crash(d) ==
  /\ ~At(d, "closed")
  /\ spent.crashes < MaxCrashes
  /\ spent' = [spent EXCEPT !.crashes = @ + 1]
  /\ handle' = [handle EXCEPT ![d] = Closed]
  /\ known' = [i \in DOMAIN known |->
       IF known[i].by # d THEN known[i]
       ELSE [by |-> d, state |-> known[i].state, past |-> TRUE,
             lost |-> known[i].lost \/ \E n \in DOMAIN handle[d].queue :
                                         handle[d].queue[n].id = i]]
  /\ UNCHANGED <<version, rows>>

-----------------------------------------------------------------------------
(* A reader waits for its answer before it asks again.                     *)

Ask(r, c) ==
  /\ At(r, "open")
  /\ handle[r].queue = <<>>
  /\ handle' = [handle EXCEPT ![r].queue = <<c>>, ![r].answer = None]
  /\ UNCHANGED <<version, rows, known>>

AskOnce(r, c) ==
  /\ spent.questions < MaxQuestions
  /\ spent' = [spent EXCEPT !.questions = @ + 1]
  /\ Ask(r, c)

\* The History UI, or any other reader.
Mutate(r) ==
  \E i \in DOMAIN rows, hidden \in BOOLEAN :
    \E c \in {[op |-> "hide", id |-> i, hidden |-> hidden], [op |-> "jumped", id |-> i]} :
      AskOnce(r, c)

\* run_history of src/app.rs, and the list of the daemon's service.
List(r) ==
  \E hidden, all \in BOOLEAN : AskOnce(r, [op |-> "list", hidden |-> hidden, all |-> all])

\* clear_history of src/app.rs counts first, and with a selector only.
Count(r) ==
  \E filter \in Filters, all \in BOOLEAN :
    AskOnce(r, [op |-> "count", filter |-> filter, all |-> all])

\* --yes, or the answer to the question: what was counted is cleared.
Clear(r) ==
  /\ handle[r].answer # None
  /\ handle[r].answer.ok
  /\ handle[r].answer.asked.op = "count"
  /\ Ask(r, [handle[r].answer.asked EXCEPT !.op = "clear"])
  /\ UNCHANGED spent

\* The process of the reader ends after an answer.
Leave(r) ==
  /\ At(r, "open")
  /\ handle[r].queue = <<>>
  /\ handle' = [handle EXCEPT ![r] = Closed]
  /\ UNCHANGED <<version, rows, known, spent>>

Daemon(d) ==
  \/ Accept(d)
  \/ \E i \in DOMAIN known : Change(d, i)
  \/ Crash(d)

Reader(r) == Mutate(r) \/ List(r) \/ Count(r) \/ Clear(r) \/ Leave(r)

Next ==
  \/ \E h \in Handles : Open(h) \/ Worker(h)
  \/ \E d \in Daemons : Daemon(d)
  \/ \E r \in Readers : Reader(r)

Spec == Init /\ [][Next]_vars

-----------------------------------------------------------------------------
(* Safety.                                                                 *)

Fact == [by : Daemons, state : LiveStates \cup {"closed"}, past : BOOLEAN,
         lost : BOOLEAN]

IsAnswer(a) ==
  a = None \/ (/\ DOMAIN a = {"asked", "ok", "value"}
               /\ a.asked \in Command /\ a.ok \in BOOLEAN)

\* The table, the handles and the Notifications have their types.
TypeOK ==
  /\ version \in {0, 1}
  /\ DOMAIN rows \subseteq Ids /\ rows \in [DOMAIN rows -> Row]
  /\ DOMAIN handle = Handles
  /\ \A h \in Handles :
       /\ handle[h].pc \in {"closed", "migrate", "recover", "retain", "open"}
       /\ handle[h].queue \in Seq(Command) /\ Len(handle[h].queue) <= QueueCapacity
       /\ handle[h].tries \in 0 .. MaxAttempts - 1
       /\ IsAnswer(handle[h].answer)
  /\ DOMAIN known \subseteq Ids /\ known \in [DOMAIN known -> Fact]
  /\ spent \in [crashes : 0 .. MaxCrashes, questions : 0 .. MaxQuestions]

\* The snapshots of Notification i that wait in its daemon's queue.
Waiting(i) ==
  {n \in DOMAIN handle[known[i].by].queue :
     handle[known[i].by].queue[n].id = i}

\* A row says what its daemon knows of the Notification once no snapshot of it
\* waits, unless a full queue, a database that stayed busy, an error or a crash
\* lost one: readers, the other daemons, retention, hiding, clearing and the
\* recovery of any server leave it alone.
RowIsCurrent ==
  \A i \in DOMAIN known \cap DOMAIN rows :
    /\ ~known[i].lost
    /\ ~known[i].past \/ known[i].state = "closed"
    /\ known[i].past \/ Waiting(i) = {}
    => rows[i].state = known[i].state

\* When a daemon serves, every live row of its server is about a Notification
\* of its own: what an earlier daemon of the server left live was closed before
\* the first request, whatever else was going on in the database.
NoStaleLive ==
  \A d \in Daemons, i \in DOMAIN rows :
    /\ handle[d].pc \in {"retain", "open"}
    /\ rows[i].server = ServerOf[d]
    /\ IsLive(rows[i])
    => known[i].by = d /\ ~known[i].past

-----------------------------------------------------------------------------
(* What a step may never do.                                               *)

Gone == DOMAIN rows \ DOMAIN rows'
Kept == DOMAIN rows \cap DOMAIN rows'

\* The job that this step ends.
Ends(h) == handle'[h] # handle[h] /\ Writing(h)

Clearing == \E h \in Handles : Ends(h) /\ Job(h).op = "clear"

\* Retention takes a row that a user can see only when no hidden row is left,
\* and the oldest first; it takes no more than it must.
RetentionOrder ==
  [][~Clearing /\ Gone # {} =>
       /\ \A i \in Gone, j \in Kept :
            IF rows[j].hidden THEN rows[i].hidden /\ i < j
            ELSE rows[i].hidden \/ i < j
       /\ \E h \in Handles : Cardinality(DOMAIN rows') = LimitOf[h]]_vars

\* A handle that writes a Notification leaves no more rows than its limit, of
\* all servers together: nobody ever sees the row and the excess both.
RoomIsMade ==
  [][\A h \in Handles :
       Ends(h) /\ Job(h).op = "persist" /\ rows' # rows =>
         Cardinality(DOMAIN rows') <= LimitOf[h]]_vars

\* What a user hid stays hidden through every snapshot its daemon writes; only
\* an Unhide shows it again.
HiddenStaysHidden ==
  [][\A i \in Kept : rows[i].hidden /\ ~rows'[i].hidden =>
       \E h \in Readers : Ends(h) /\ Job(h).op = "hide" /\ ~Job(h).hidden]_vars

\* "Jumping later from History preserves the original close reason"
\* (tmnotify-design.md:125), and so does everything else: a row that is closed
\* is never live again and its close reason never changes.
ClosedIsFinal ==
  [][\A i \in Kept : ~IsLive(rows[i]) => rows'[i].state = rows[i].state]_vars

\* The rows of living Notifications are those of the daemons that serve them.
LiveRowsAreTrue == TypeOK /\ RowIsCurrent /\ NoStaleLive

\* Rows are deleted for room, in the order of retention, and no further.
RetentionIsFair == RoomIsMade /\ RetentionOrder

\* What was hidden and what was closed stays so.
RecordsStand == HiddenStaysHidden /\ ClosedIsFinal
=============================================================================
