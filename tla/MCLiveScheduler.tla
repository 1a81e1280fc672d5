-------------------------- MODULE MCLiveScheduler --------------------------
(* Small sets of drafts, updates and limits for TLC.                       *)
EXTENDS LiveScheduler

Toast(key, prio, text, timeout, source) ==
  [key |-> key, prio |-> prio, pres |-> "toast", text |-> text,
   timeout |-> timeout, source |-> source]

Attention(key, prio, text) ==
  [key |-> key, prio |-> prio, pres |-> "attention", text |-> text,
   timeout |-> Never, source |-> TRUE]

Change(prio, text, timeout) == [prio |-> prio, text |-> text, timeout |-> timeout]

AKey  == CHOOSE k \in Keys : TRUE
AText == CHOOSE t \in Texts : TRUE

Limits(pending, visible) == [maxPending |-> pending, maxVisible |-> visible]

\* Queueing: priorities, Presentations and keyed replacement.
QueueDrafts ==
  {Toast(AKey, 0, AText, Never, TRUE), Attention(AKey, 0, AText),
   Toast(None, 1, AText, Never, FALSE), Attention(None, 1, AText)}
QueueUpdates == {Change(1, None, None)}
QueueLimits == {Limits(2, 1)}

\* Timeouts: pauses, restarts, jumps and reloads.
TimerDrafts ==
  {Toast(AKey, 0, t, 2, TRUE) : t \in Texts} \cup {Attention(AKey, 0, AText)}
    \cup {Toast(None, 1, AText, 1, TRUE), Attention(None, 0, AText)}
TimerUpdates == {Change(None, AText, None), Change(None, None, 2)}
\* A reload raises the one limit and lowers the other.
TimerLimits == {Limits(2, 1), Limits(1, 2)}
=============================================================================
