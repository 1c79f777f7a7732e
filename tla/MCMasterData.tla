---------------------------- MODULE MCMasterData ----------------------------
(* An instance of MasterData for TLC.                                      *)
EXTENDS MasterData, TLC

CONSTANTS w1, w2, p1, h1, h2

Symmetry == Permutations(Handler) \cup Permutations(Warehouse)
=============================================================================
