------------------------------- MODULE MCVault -------------------------------
(* StrategyVault on small amounts and times. *)
EXTENDS StrategyVault, TLC

Symmetry == Permutations(Keepers)
=============================================================================
