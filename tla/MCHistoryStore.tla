--------------------------- MODULE MCHistoryStore ---------------------------
(* Handles, their servers and their limits for TLC.                        *)
EXTENDS HistoryStore, TLC

\* The first daemon, and every reader, belongs to the server "a".
OneReaderServers == ("d1" :> "a") @@ ("d2" :> "b") @@ ("r1" :> "a")

\* A daemon that was started before history.max_entries was lowered.
MixedLimits == ("d1" :> 2) @@ ("d2" :> 1) @@ ("r1" :> 2)
=============================================================================
