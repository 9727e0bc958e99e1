----------------------------- MODULE MCElection -----------------------------
(* Election on small instances: see the README for the bounds.             *)
EXTENDS Election, TLC

CONSTANTS VoterBalance, ProducerBalance

Balances ==
    [a \in Voters \cup Producers |->
        IF a \in Voters THEN VoterBalance ELSE ProducerBalance]

Symmetry == Permutations(Voters)
=============================================================================
