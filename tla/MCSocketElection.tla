------------------------- MODULE MCSocketElection -------------------------
(* Symmetry for TLC.                                                       *)
EXTENDS SocketElection, TLC

ClientSymmetry == Permutations(Clients)
=============================================================================
