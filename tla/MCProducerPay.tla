--------------------------- MODULE MCProducerPay ----------------------------
(* ProducerPay on a small instance: see the README for the bounds.         *)
EXTENDS ProducerPay, TLC

CONSTANTS FullReward

(* A whole reward, a smaller one, none and one that is refused.            *)
SomeRewards == {FullReward, FullReward - 1, 0, -1}

Symmetry == Permutations(Producers)
=============================================================================
