--------------------------- MODULE HistoryViewer ---------------------------
(***************************************************************************)
(* The interactive History of src/ui/history.rs over HistoryStore.  The    *)
(* event loop edits its list at once and sends what it did to an action    *)
(* thread; the thread runs one command after the other, on SQLite or tmux, *)
(* and its replies come back while the user goes on.                       *)
(*                                                                         *)
(* The list is kept by updated_at, newest first, which is the order of the *)
(* ids here.  The modes for help, details and typing a filter change       *)
(* nothing else and are left out; a filter is whether `Matching` rows only *)
(* are listed.  Fault marks a plausible slip, as in Scheduler.             *)
(***************************************************************************)
EXTENDS HistoryStore, SequencesExt

CONSTANTS
  Ui,              \* the reader that the viewer has open
  ActionCapacity,  \* ACTION_QUEUE_CAPACITY
  MaxKeys,         \* bound on the keys the user presses
  Matching,        \* the ids whose text contains the filter
  Sourceless,      \* the ids without a Source Pane
  Origin,          \* the tmux server of every id
  HiddenBefore     \* the rows that are hidden before the viewer opens

Mutations == {"hide", "unhide"}

\* The commands as the action thread has them: Load, Jump, and the Mutations,
\* which nobody refuses.
Working ==
  [op : {"load"}, id : {None}, refused : BOOLEAN]
    \cup [op : {"jump"}, id : Ids, refused : BOOLEAN]
    \cup [op : Mutations, id : Ids, refused : {FALSE}]

ASSUME ViewerConstants ==
  /\ Ui \in Readers
  /\ ActionCapacity \in Nat \ {0} /\ MaxKeys \in Nat
  /\ Matching \cup Sourceless \cup HiddenBefore \subseteq Ids
  /\ Origin \in [Ids -> {ServerOf[h] : h \in Handles}]
  /\ None \notin Working

VARIABLES
  launch,  \* the server that the options lead to, and whether hidden rows are asked for
  view,    \* HistoryView, where the event loop is, and what was loaded
  drawn,   \* the row that the last drawing showed as selected
  bridge,  \* the two channels of ActionBridge and the command at work
  keys,    \* the keys pressed so far
  doubt,   \* history: ids whose mutations did not all succeed one by one
  earlier  \* history: the rows that were hidden before the session and that no
           \* edit of the session has changed

viewer == <<launch, view, drawn, bridge, keys, doubt, earlier>>
allVars == <<vars, viewer>>

\* The server of a viewer: from -L or -S, or from $TMUX.
Server == ServerOf[Ui]

\* run_interactive_history: inside tmux the server at hand, outside it the one
\* that -L or -S names; without one every server is shown.
CurrentServer(inside, target) ==
  IF inside \/ target THEN Server ELSE None

\* HistoryLaunch::all_servers
AllServers == launch.server = None

ViewerInit ==
  /\ version = 1
  /\ earlier = HiddenBefore
  /\ rows = [i \in Ids |-> [server |-> Origin[i], state |-> "closed",
                           hidden |-> i \in earlier, jumped |-> FALSE]]
  /\ known = [i \in {} |-> None]
  /\ spent = [crashes |-> 0, questions |-> 0]
  /\ handle = [h \in Handles |-> [Closed EXCEPT !.pc = "open"]]
  /\ \E inside, target, all \in BOOLEAN :
       launch = [server |-> CurrentServer(inside, target), hidden |-> all]
  /\ view = [pc |-> "apply", load |-> "loading", entries |-> {}, selected |-> 0,
             filtered |-> FALSE, hidden |-> <<>>, confirm |-> None, listed |-> {}]
  /\ drawn = None
  /\ bridge = [commands |-> <<[op |-> "load", id |-> None]>>, working |-> None, replies |-> <<>>]
  /\ keys = 0
  /\ doubt = {}

-----------------------------------------------------------------------------
(* The list.                                                               *)

\* filtered_indices
Shown(v) == IF v.filtered THEN v.entries \cap Matching ELSE v.entries

\* The id at an index, counted from 0, or None.
IdAt(S, n) ==
  IF n >= Cardinality(S) THEN None
  ELSE CHOOSE i \in S : Cardinality({j \in S : j > i}) = n

IndexOf(S, i) == IF i \in S THEN Cardinality({j \in S : j > i}) ELSE 0

\* selected_id
Chosen(v) == IdAt(Shown(v), v.selected)

\* saturating_sub(1) of the number of rows.
LastIndex(v) == IF Shown(v) = {} THEN 0 ELSE Cardinality(Shown(v)) - 1

Clamped(v) ==
  [v EXCEPT !.selected = IF v.selected <= LastIndex(v) THEN @ ELSE LastIndex(v)]

\* replace_entries
Loaded(v, ids) ==
  Clamped([v EXCEPT !.entries = ids, !.load = "ready", !.listed = ids])

\* Row i leaves the list: hide_selected, and rollback_unhide.
TakenOut(v, i) ==
  Clamped([v EXCEPT !.entries = @ \ {i}, !.hidden = Append(@, i)])

\* Fault: a failed Hide is reported only.
ReportedOnly(v, i) == v

\* rollback_hide: an entry that was already taken back is left alone.
RollbackHide(v, i) ==
  IF \E n \in DOMAIN v.hidden : v.hidden[n] = i
  THEN [v EXCEPT !.hidden = RemoveFirst(@, i), !.entries = @ \cup {i}] ELSE v

RollbackUnhide(v, i) == IF i \in v.entries THEN TakenOut(v, i) ELSE v

-----------------------------------------------------------------------------
(* The action thread.                                                      *)

\* What is under way about row i: commands, the one at work, replies.
Flying(i) ==
  LET about(q) == {n \in DOMAIN q : q[n].op \in Mutations /\ q[n].id = i}
      atWork   == bridge.working # None /\ bridge.working.op \in Mutations
                  /\ bridge.working.id = i
  IN  Cardinality(about(bridge.commands)) + Cardinality(about(bridge.replies))
      + IF atWork THEN 1 ELSE 0

Idle == bridge.working = None /\ bridge.commands = <<>> /\ bridge.replies = <<>>

\* What the thread asks of History for command c.
Question(c) ==
  CASE c.op = "load"        -> [op |-> "list", hidden |-> launch.hidden, all |-> AllServers]
    [] c.op \in Mutations   -> [op |-> "hide", id |-> c.id, hidden |-> c.op = "hide"]
    [] c.op = "jump"        -> [op |-> "jumped", id |-> c.id]

\* The thread takes a command.  A Load asks the daemon first and a Jump has the
\* daemon or tmux switch; either may refuse, and then History is not asked.
Take ==
  /\ bridge.working = None
  /\ bridge.commands # <<>>
  /\ LET c == Head(bridge.commands)
     IN  \E refused \in BOOLEAN :
           /\ refused => c.op \notin Mutations
           /\ bridge' = [bridge EXCEPT
                !.commands = Tail(@),
                !.working  = [op |-> c.op, id |-> c.id, refused |-> refused]]
           /\ IF refused THEN UNCHANGED vars
              ELSE Ask(Ui, Question(c)) /\ UNCHANGED spent
  /\ UNCHANGED <<launch, view, drawn, keys, doubt, earlier>>

Answer(w) ==
  IF w.refused THEN [op |-> w.op, id |-> w.id, refused |-> TRUE, ok |-> FALSE, value |-> None]
  ELSE [op |-> w.op, id |-> w.id, refused |-> FALSE,
        ok |-> handle[Ui].answer.ok, value |-> handle[Ui].answer.value]

CanReply ==
  /\ bridge.working # None
  /\ Len(bridge.replies) < ActionCapacity
  /\ bridge.working.refused \/ handle[Ui].queue = <<>>

\* Fault: the thread ends with its first error.
ReplySuccess ==
  /\ CanReply
  /\ Answer(bridge.working).ok
  /\ bridge' = [bridge EXCEPT !.replies = Append(@, Answer(bridge.working)),
                              !.working = None]
  /\ UNCHANGED <<vars, launch, view, drawn, keys, doubt, earlier>>

\* With the channel full the thread waits.
Reply ==
  /\ CanReply
  /\ bridge' = [bridge EXCEPT !.replies = Append(@, Answer(bridge.working)),
                              !.working = None]
  /\ UNCHANGED <<vars, launch, view, drawn, keys, doubt, earlier>>

-----------------------------------------------------------------------------
(* The event loop: apply the replies, draw, wait for a key.                *)

In(pc) == view.pc = pc

\* The process ends, and with it its threads: what they had not done is lost.
Exits(v) ==
  /\ view' = [v EXCEPT !.pc = "over"]
  /\ bridge' = [commands |-> <<>>, working |-> None, replies |-> <<>>]
  /\ handle' = [handle EXCEPT ![Ui] = Closed]
  /\ UNCHANGED <<version, rows, known, spent, launch, drawn, keys, doubt, earlier>>

\* What reply r makes of the view.
Applied(v, r) ==
  CASE r.op = "load" /\ r.ok    -> Loaded(v, r.value)
    [] r.op = "load" /\ ~r.ok   -> [v EXCEPT !.load = "error"]
    [] r.op = "hide" /\ ~r.ok   -> RollbackHide(v, r.id)
    [] r.op = "unhide" /\ ~r.ok -> RollbackUnhide(v, r.id)
    [] OTHER                    -> v

\* A refused Load ends the viewer, and so does a Jump that switched, recorded
\* or not.
ApplyReply ==
  /\ In("apply")
  /\ bridge.replies # <<>>
  /\ LET r == Head(bridge.replies)
     IN  IF (r.op = "load" /\ r.refused) \/ (r.op = "jump" /\ ~r.refused)
         THEN Exits(view)
         ELSE /\ view' = Applied(view, r)
              /\ bridge' = [bridge EXCEPT !.replies = Tail(@)]
              /\ doubt' = IF r.op \in Mutations /\ ~r.ok /\ Flying(r.id) > 1
                          THEN doubt \cup {r.id} ELSE doubt
              /\ UNCHANGED <<vars, launch, drawn, keys, earlier>>

Draw ==
  /\ In("apply")
  /\ bridge.replies = <<>>
  /\ view' = [view EXCEPT !.pc = "key"]
  /\ drawn' = Chosen(view)
  /\ UNCHANGED <<vars, launch, bridge, keys, doubt, earlier>>

\* EVENT_POLL_INTERVAL passed without a key.
NoKey ==
  /\ In("key")
  /\ view' = [view EXCEPT !.pc = "apply"]
  /\ UNCHANGED <<vars, launch, drawn, bridge, keys, doubt, earlier>>

\* Fault: the keys that are there are all read before the next drawing.
ReadOn == "key"

\* Where the loop goes after a key.
AfterKey == "apply"

\* submit_or_report: a full queue is reported only.
Sends(op, i) ==
  /\ bridge' = IF Len(bridge.commands) < ActionCapacity
               THEN [bridge EXCEPT !.commands = Append(@, [op |-> op, id |-> i])]
               ELSE bridge
  /\ doubt' = IF Len(bridge.commands) < ActionCapacity \/ op = "jump" THEN doubt
              ELSE doubt \cup {i}

\* A key that leaves view v behind and sends nothing, or sends a command.
Pressed(v) ==
  /\ In("key")
  /\ keys < MaxKeys
  /\ keys' = keys + 1
  /\ view' = [v EXCEPT !.pc = AfterKey]
  /\ UNCHANGED <<vars, launch, drawn, earlier>>

Quietly == UNCHANGED <<bridge, doubt>>

Move ==
  /\ view.confirm = None
  /\ \E n \in {0, LastIndex(view), view.selected + 1, view.selected - 1} :
       /\ n \in 0 .. LastIndex(view)
       /\ Pressed([view EXCEPT !.selected = n])
  /\ Quietly

\* Typing a filter, or leaving it with Esc, selects the first row.
FilterKey ==
  /\ view.confirm = None
  /\ Pressed([view EXCEPT !.filtered = ~@, !.selected = 0])
  /\ Quietly

Hide ==
  /\ view.confirm = None
  /\ LET i == Chosen(view)
     IN  i # None /\ Pressed(TakenOut(view, i)) /\ Sends("hide", i)

\* Undo takes back the latest Hide of this session and selects its row, or the
\* first one when the filter keeps it out.
Undo ==
  /\ view.confirm = None
  /\ view.hidden # <<>>
  /\ LET i == Last(view.hidden)
         v == [view EXCEPT !.hidden = Front(@), !.entries = @ \cup {i}]
     IN  Pressed([v EXCEPT !.selected = IndexOf(Shown(v), i)]) /\ Sends("unhide", i)

\* Only a row of the viewer's own server needs no confirmation.
Local(i) == launch.server = Origin[i]

\* begin_jump
Enter ==
  /\ view.confirm = None
  /\ LET i == Chosen(view)
     IN  /\ i # None
         /\ IF i \in Sourceless THEN Pressed(view) /\ Quietly
            ELSE IF Local(i) THEN Pressed(view) /\ Sends("jump", i)
            ELSE Pressed([view EXCEPT !.confirm = i]) /\ Quietly

\* handle_confirmation: jump_action finds nothing when the row has gone.
Confirm ==
  /\ view.confirm # None
  /\ Pressed([view EXCEPT !.confirm = None])
  /\ IF view.confirm \in view.entries THEN Sends("jump", view.confirm) ELSE Quietly

Decline ==
  /\ view.confirm # None
  /\ Pressed([view EXCEPT !.confirm = None])
  /\ Quietly

\* q, Esc, ^C or a signal.
Quit == In("key") /\ Exits(view)

EventLoop == ApplyReply \/ Draw \/ NoKey

Keyboard == Move \/ FilterKey \/ Hide \/ Undo \/ Enter \/ Confirm \/ Decline \/ Quit

\* The worker of the viewer's History.  An edit that succeeds decides about its
\* row.
OwnWorker ==
  /\ Worker(Ui)
  /\ earlier' = IF Job(Ui).op = "hide" /\ handle'[Ui].queue = <<>> /\ handle'[Ui].answer.ok
                THEN earlier \ {Job(Ui).id} ELSE earlier
  /\ UNCHANGED <<launch, view, drawn, bridge, keys, doubt>>

\* The other readers are CLI processes that clear.
Others ==
  /\ \E r \in Readers \ {Ui} : Worker(r) \/ Count(r) \/ Clear(r)
  /\ UNCHANGED viewer

ViewerNext == Take \/ Reply \/ EventLoop \/ Keyboard \/ OwnWorker \/ Others

ViewerSpec == ViewerInit /\ [][ViewerNext]_allVars

\* The threads run; the loop wakes up at every poll interval.
FairViewer ==
  /\ ViewerSpec
  /\ WF_allVars(EventLoop) /\ WF_allVars(Take \/ Reply)
  /\ WF_allVars(OwnWorker)

-----------------------------------------------------------------------------
(* Safety.                                                                 *)

\* The view, what was drawn, the channels and the history have their types;
\* the selection is on a row whenever there is one.
ViewTypeOK ==
  /\ view.pc \in {"apply", "key", "over"}
  /\ view.load \in {"loading", "ready", "error"}
  /\ view.entries \cup view.listed \subseteq Ids /\ view.hidden \in Seq(Ids)
  /\ view.selected \in 0 .. LastIndex(view)
  /\ {view.confirm, drawn} \subseteq Ids \cup {None}
  /\ Len(bridge.commands) <= ActionCapacity /\ Len(bridge.replies) <= ActionCapacity
  /\ bridge.working \in Working \cup {None}
  /\ launch.hidden \in BOOLEAN
  /\ keys \in 0 .. MaxKeys /\ doubt \cup earlier \subseteq Ids

\* Every row that was loaded is listed, or is hidden in this session and can be
\* taken back, and never both, however undo and the rollback of failed edits
\* follow each other.
ListedOrHidden ==
  /\ view.entries \cap Range(view.hidden) = {}
  /\ view.entries \cup Range(view.hidden) = view.listed
  /\ IsInjective(view.hidden)

\* When nothing is under way the list is what the database says, although it
\* was edited before the database was asked: a Hide that failed is in the list
\* again, an Undo that failed is not.  `history --all` lists rows that were
\* hidden before: such a row stays hidden, listed or taken out of the list,
\* until an edit of it succeeds, from which on it is hidden just when the user
\* hid it in this session.  In doubt are the rows of an edit that a full queue
\* refused, and those with another edit under way when one failed.
ViewAgrees ==
  Idle /\ view.load = "ready" /\ ~In("over") =>
    \A i \in (view.listed \cap DOMAIN rows) \ doubt :
      rows[i].hidden <=> i \in earlier \cup Range(view.hidden)

-----------------------------------------------------------------------------
(* What a step may never do.                                               *)

Sent(op, i) ==
  /\ Len(bridge'.commands) > Len(bridge.commands)
  /\ Last(bridge'.commands) = [op |-> op, id |-> i]

\* A key acts on the row that the user saw selected, whatever the replies and
\* the rollbacks did to the list in the meantime.
KeyMeansDrawnRow ==
  [][\A i \in Ids :
       \/ Sent("hide", i)
       \/ view.confirm = None /\ (Sent("jump", i) \/ view'.confirm = i)
       => i = drawn]_allVars

\* "selecting a row from another server requires confirmation"
\* (tmnotify-design.md:559): the jump that is sent is the one confirmed.
ForeignJumpIsConfirmed ==
  [][\A i \in Ids : Sent("jump", i) /\ Origin[i] # launch.server =>
       view.confirm = i]_allVars

\* Every edit is decided, also when the database stays busy or fails: the
\* thread and the loop do not wait for each other.
EditsAreDecided ==
  \A i \in Ids : Flying(i) > 0 ~> Flying(i) = 0

\* The list agrees with the database, but for the edits that are under way.
ListIsTrue == ViewTypeOK /\ ListedOrHidden /\ ViewAgrees

\* A key does what the user was shown, and no foreign jump goes unconfirmed.
KeysMeanWhatIsSeen == KeyMeansDrawnRow /\ ForeignJumpIsConfirmed
=============================================================================
