-------------------------- MODULE MCDaemonRequests --------------------------
(* Small sets of commands and limits for TLC.                              *)
EXTENDS DaemonRequests, TLC

\* Clients differ in nothing but their name.
ClientSymmetry == Permutations(Clients)

AKey  == CHOOSE k \in Keys : TRUE

Toast(text, timeout) ==
  [key |-> AKey, prio |-> 0, pres |-> "toast", text |-> text,
   timeout |-> timeout, source |-> TRUE]
Attention(text) ==
  [key |-> None, prio |-> 0, pres |-> "attention", text |-> text,
   timeout |-> Never, source |-> TRUE]

SendOf(d)   == [op |-> "send", draft |-> d]
ByKey(op)   == [op |-> op, key |-> AKey]
UpdateTo(t) == [op |-> "update", key |-> AKey,
                change |-> [prio |-> None, text |-> t, timeout |-> None]]

Limits(pending, visible) == [maxPending |-> pending, maxVisible |-> visible]

First == CHOOSE t \in Texts : TRUE
Other == IF \E t \in Texts : t # First THEN CHOOSE t \in Texts : t # First ELSE First

\* Toasts with a timeout, updated, dismissed and jumped to by key.
ToastCommands ==
  {SendOf(Toast(First, 1)), UpdateTo(Other), ByKey("dismiss"), ByKey("jump")}

\* Attentions, whose renderers act too, and a jump from History.
AttentionCommands ==
  {SendOf(Attention(First)), SendOf(Toast(First, 1)), ByKey("jump"),
   [op |-> "historyJump"]}

ActionCommands == {SendOf(Attention(First)), ByKey("jump")}

AllCommands ==
  ToastCommands \cup {SendOf(Attention(First)), [op |-> "historyJump"]}

OneLimit  == {Limits(1, 1)}
TwoLimits == {Limits(1, 1), Limits(1, 2)}
=============================================================================
