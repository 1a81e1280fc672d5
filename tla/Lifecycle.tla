----------------------------- MODULE Lifecycle -----------------------------
(***************************************************************************)
(* What the daemon promises of Notifications, without queues, ranks or     *)
(* clocks: they are accepted one after the other, wait, are shown, and are *)
(* closed for good.  LiveScheduler implements this: see ImplementsLifecycle *)
(* there.  A method of the scheduler may do much at once, so a step here   *)
(* accepts at most one Notification, and closes and shows any number.      *)
(***************************************************************************)
EXTENDS Integers

CONSTANT Ids  \* the Notifications, numbered in the order they are accepted

VARIABLES
  stage,  \* DeliveryState of each, and "none" until it is accepted
  shown   \* the Notifications on the screen

vars == <<stage, shown>>

Stages == {"none", "pending", "visible", "closed"}

Unaccepted == {i \in Ids : stage[i] = "none"}

Init ==
  /\ stage = [i \in Ids |-> "none"]
  /\ shown = {}

\* A Notification is accepted after all those with a smaller number.
Accept ==
  \A i \in Unaccepted :
    stage'[i] # "none" => \A j \in Unaccepted : i <= j

\* Nothing goes back: not to the queue once it was visible, nor to life once
\* it was closed.
Advance ==
  \A i \in Ids \ Unaccepted :
    /\ stage'[i] # "none"
    /\ stage[i] = "visible" => stage'[i] # "pending"
    /\ stage[i] = "closed" => stage'[i] = "closed"

\* What is on the screen is marked visible.  (Not the converse: a Toast may get
\* its place and lose the screen to an Attention within one step.)
Show == shown' \subseteq {i \in Ids : stage'[i] = "visible"}

Next ==
  /\ stage' \in [Ids -> Stages]
  /\ shown' \in SUBSET Ids
  /\ Accept /\ Advance /\ Show

Spec == Init /\ [][Next]_vars
=============================================================================
