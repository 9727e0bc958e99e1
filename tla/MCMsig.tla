------------------------------- MODULE MCMsig -------------------------------
(* Msig on small instances: see the README for the bounds.                 *)
EXTENDS Msig, TLC

CONSTANTS t1    \* the transaction without a delay

Expirations == [t \in Trxs |-> IF t = t1 THEN 1 ELSE 2]

Delays == [t \in Trxs |-> IF t = t1 THEN 0 ELSE 1]

(* Each level is an account of its own.                                    *)
Owners == [l \in Levels |-> l]

(* Two levels are needed, or, with the other authority, one is enough.     *)
TwoAuthorities ==
    {[t \in Trxs |-> {S \in SUBSET Levels : Cardinality(S) = n}] : n \in {1, 2}}

(* Up to three approvals are asked for, of them two of the same level.     *)
SmallRequests ==
    {r \in [Levels -> 0..Copies] : SumFunction(r) \in 1..3}

AllHashes == Trxs \cup {NoHash}

Symmetry == Permutations(Levels)
=============================================================================
