------------------------------- MODULE MCGas --------------------------------
(* Gas and Token on a small instance: see the README for the bounds.       *)
EXTENDS Gas, TLC

(* Gas up to the limit, and the end of all limits.                         *)
SomeGrants == { [ reserved_gas |-> MAX_GAS, is_unlimited |-> FALSE ],
                [ reserved_gas |-> 0, is_unlimited |-> TRUE ] }

Symmetry == Permutations(Symbols)
=============================================================================
