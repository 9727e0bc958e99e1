----------------------------- MODULE MCOnBlock ------------------------------
(* OnBlock on a small instance: see the README for the bounds.             *)
EXTENDS OnBlock, TLC

CONSTANTS Rich, Poor

(* The richer bidder can outbid the other.                                 *)
Balances == [b \in {Rich, Poor} |-> IF b = Rich THEN 2 ELSE 1]

Symmetry == Permutations(Keys)
=============================================================================
