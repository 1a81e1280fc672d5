---------------------------- MODULE TmuxDisplays ----------------------------
(***************************************************************************)
(* ProductionBackend (src/tmux/production.rs) as WindowReconciler sees it: *)
(* the displays it believes to have in tmux, the panes that are gone, what *)
(* the control connection has to tell, and how far one call of reconcile   *)
(* gets.                                                                   *)
(*                                                                         *)
(* A display is a Notification in a window.  Its look is its content, the  *)
(* display policy it was made under and the place of its pane.             *)
(***************************************************************************)
EXTENDS SequencesExt, FiniteSets, Naturals

CONSTANTS
  Windows,     \* windows of the tmux server
  Ids,         \* Notifications
  Contents,    \* what a Notification can say
  Modal,       \* the contents presented as an Attention; the others are Toasts
  Capacities   \* how many Toasts a viewed window may have room for

ASSUME DisplayConstants ==
  IsFiniteSet(Ids) /\ Modal \subseteq Contents /\ Capacities \subseteq Nat

VARIABLES
  viewed,  \* the room for Toasts in each window that some client views
  drawn,   \* displays: the looks in each window by Notification
  dead,    \* those whose panes are gone
  heard    \* the events next_event has to tell: "changed", "gone"

tmux == <<viewed, drawn, dead, heard>>

Restricted(f, S) == [x \in DOMAIN f \cap S |-> f[x]]

Views == UNION {[S -> Capacities] : S \in SUBSET Windows}

-----------------------------------------------------------------------------
(* reconcile.  What a window should show is a record of the Notifications  *)
(* in the order they are drawn, those that leave, drawn after them in no   *)
(* order, and their looks.                                                 *)

Wanted(want) == ToSet(want.order) \cup want.leaving
Nothing == [order |-> <<>>, leaving |-> {}, looks |-> [n \in {} |-> 0]]

SameKind(a, b) == a.content \in Modal <=> b.content \in Modal

\* The loop of reconcile_window ends with the first display that fails.
DrawnBefore(want) ==
  {ToSet(p) : p \in Prefixes(want.order)} \cup
  {ToSet(want.order) \cup some : some \in SUBSET want.leaving}

NextToDraw(want, done) ==
  IF ToSet(want.order) \subseteq done THEN want.leaving \ done
  ELSE {want.order[Cardinality(done) + 1]}

\* A pane that is gone cannot be moved or killed.
CannotDraw(shown, gone, n, look) ==
  n \in gone /\ (shown[n].place # look.place \/ ~SameKind(shown[n], look))

Redrawn(shown, want, done) ==
  [n \in DOMAIN shown \cup done |-> IF n \in done THEN want.looks[n] ELSE shown[n]]

\* create_display and update_display that fail: nothing is registered, the
\* kind changed and the old pane is closed already, or it is moved and still
\* says what it said.
Undrawn(shown, n, look) ==
  {shown} \cup
  IF n \notin DOMAIN shown THEN {}
  ELSE IF ~SameKind(shown[n], look) THEN {Restricted(shown, DOMAIN shown \ {n})}
  ELSE {[shown EXCEPT ![n].place = look.place]}

\* reconcile_window, and close_displays for a window without displays.  Each
\* way it ends, with `struck` when it was tmux that failed.
Reached(shown, gone, want) ==
  LET obsolete == DOMAIN shown \ Wanted(want)
      kept     == Restricted(shown, Wanted(want))
      stuck(done) == \E n \in done : CannotDraw(kept, gone, n, want.looks[n])
      fallible(n) == n \notin DOMAIN kept \/ kept[n] # want.looks[n]
      unclosed == {[shown |-> shown, gone |-> gone \cup killed, ok |-> FALSE,
                    struck |-> obsolete \cap gone = {}] : killed \in SUBSET obsolete}
      fails(done, n) ==
        {[shown |-> s, gone |-> gone \cap DOMAIN s, ok |-> FALSE,
          struck |-> ~CannotDraw(kept, gone, n, want.looks[n])] :
           s \in Undrawn(Redrawn(kept, want, done), n, want.looks[n])}
      failed   ==
        UNION {UNION {fails(done, n) : n \in {n \in NextToDraw(want, done) : fallible(n)}} :
                 done \in {done \in DrawnBefore(want) : ~stuck(done)}}
      all      == [shown |-> Redrawn(kept, want, Wanted(want)), gone |-> gone \cap Wanted(want),
                   ok |-> TRUE, struck |-> FALSE]
  IN  (IF obsolete = {} THEN {} ELSE unclosed) \cup
      (IF obsolete \cap gone # {} THEN {}
       ELSE failed \cup (IF stuck(Wanted(want)) THEN {} ELSE {all}))

Want(desired, w) == IF w \in DOMAIN desired THEN desired[w] ELSE Nothing

\* One of the possible outcomes for every window, which `possible` relates to
\* windows.
PerWindow(possible) ==
  {o \in [Windows -> {p[2] : p \in possible}] :
     \A w \in Windows : <<w, o[w]>> \in possible}

\* The outcomes of reconcile over what is drawn, window by window.
Outcomes(shown, gone, desired) ==
  PerWindow(UNION {{w} \X Reached(shown[w], gone[w], Want(desired, w)) : w \in Windows})

\* The same when the connection is lost on the way: windows are left as they
\* were.  (Lost within a window, it is a window that fails and a loss after it.)
CutShort(shown, gone, desired) ==
  LET left(w) == [shown |-> shown[w], gone |-> gone[w], ok |-> FALSE, struck |-> TRUE]
      done(w) == {o \in Reached(shown[w], gone[w], Want(desired, w)) : o.ok}
  IN  PerWindow(UNION {{w} \X ({left(w)} \cup done(w)) : w \in Windows})

Struck(o) == {w \in Windows : o[w].struck}
Applied(o, desired) == {w \in DOMAIN desired : o[w].ok}
Failed(o) == {w \in Windows : ~o[w].ok}
=============================================================================
