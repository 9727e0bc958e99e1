------------------------------ MODULE MCReward ------------------------------
(* Reward on a small instance: see the README for the bounds.              *)
EXTENDS Reward, TLC

Symmetry == Permutations(Voters) \cup Permutations(Producers)
=============================================================================
