------------------------------ MODULE MCGateway ----------------------------
(* Symmetry for the gateway's safety runs.                                 *)
EXTENDS Gateway, TLC

Symmetry == Permutations(Threads) \union Permutations(Procs)
============================================================================
