-------------------------- MODULE MCHistoryViewer --------------------------
(* The viewer of server "a" and a CLI process of server "b" for TLC.       *)
EXTENDS HistoryViewer

TwoServers == [h \in {"ui", "cli"} |-> IF h = "ui" THEN "a" ELSE "b"]
TenThousand == [h \in {"ui", "cli"} |-> 10000]

\* The newest row is of the other server; the oldest was hidden before.
TwoOrigins == [i \in Ids |-> IF i = MaxIds - 1 THEN "b" ELSE "a"]
NoneSourceless == {}
OneMatches == {0}
TheOldest == {0}
=============================================================================
