--------------------------- MODULE MCRequestServer ---------------------------
(* Stripes for TLC.                                                        *)
EXTENDS RequestServer

OneStripe == [i \in Ids |-> 0]
=============================================================================
