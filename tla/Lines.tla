------------------------------- MODULE Lines -------------------------------
(***************************************************************************)
(* A line is a Vec<NotificationId> in which every id occurs at most once:  *)
(* the scheduler's `pending`, `active_toasts` and `closed`.  It is the     *)
(* function that gives each member its place, 1 for the front, so that     *)
(* membership is DOMAIN and no operation needs recursion.                  *)
(***************************************************************************)
EXTENDS Integers, FiniteSets

\* `l` places the members of S at 1..|S|, each place once.
IsLine(l, S) ==
  /\ l \in [S -> 1 .. Cardinality(S)]
  /\ \A i, j \in S : l[i] = l[j] => i = j

EmptyLine == [i \in {} |-> 0]

\* Vec::sort_by with the strict total order `ahead`, a set of pairs.
Sorted(S, ahead) ==
  [i \in S |-> 1 + Cardinality({j \in S : <<j, i>> \in ahead})]

\* Vec::retain: the members in S close ranks in the order they had.
Retain(l, S) ==
  LET kept == S \cap DOMAIN l
  IN  [i \in kept |-> Cardinality({j \in kept : l[j] <= l[i]})]

\* The same members, last one first.
Reversed(l) ==
  [i \in DOMAIN l |-> Cardinality({j \in DOMAIN l : l[i] <= l[j]})]

\* Vec::extend with a line of other ids.
Join(l, m) ==
  [i \in DOMAIN l \cup DOMAIN m |->
     IF i \in DOMAIN l THEN l[i] ELSE Cardinality(DOMAIN l) + m[i]]

\* Vec::push of an id that is not in the line.
Push(l, i) == Join(l, [j \in {i} |-> 1])

\* The first, and the last, n members of l that are in S (all when fewer).
FirstOf(l, S, n) ==
  {i \in S \cap DOMAIN l :
     Cardinality({j \in S \cap DOMAIN l : l[j] <= l[i]}) <= n}

LastOf(l, S, n) ==
  {i \in S \cap DOMAIN l :
     Cardinality({j \in S \cap DOMAIN l : l[i] <= l[j]}) <= n}
=============================================================================
