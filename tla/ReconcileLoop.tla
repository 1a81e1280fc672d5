---------------------------- MODULE ReconcileLoop ----------------------------
(***************************************************************************)
(* reconcile_loop (src/daemon/application.rs) keeps WindowReconciler going: *)
(* one tick after the other, for ever, whether or not there is something   *)
(* to do.                                                                  *)
(***************************************************************************)
EXTENDS WindowReconciler

VARIABLE beat  \* changes with every tick, to tell an idle tick from none

LoopInit == Init /\ beat = 0
LoopTick == Tick /\ beat' = 1 - beat
LoopNext == LoopTick \/ (Elsewhere /\ UNCHANGED beat)

\* The loop ticks again and again, and tmux and the clock get on.
Fairness ==
  /\ []<><<beat' # beat>>_beat
  /\ WF_vars(TopologyEvent)
  /\ \A x \in Timers : WF_vars(TimePasses(x))

FairSpec == LoopInit /\ [][LoopNext]_<<vars, beat>> /\ Fairness

\* Every viewed window shows what it should, at its place, and no other shows
\* anything.
Settled ==
  LET target == Target([rec EXCEPT !.seen = viewed])
  IN  \A w \in Windows :
        /\ dead[w] = {}
        /\ drawn[w] = IF w \in DOMAIN viewed THEN target[w].looks ELSE Empty

\* Once nothing changes and tmux does not fail any more, the displays settle:
\* failed attempts are made up for, panes that died are drawn again, exits end
\* and a lost connection is replaced.
Converges == <>[]Settled
=============================================================================
