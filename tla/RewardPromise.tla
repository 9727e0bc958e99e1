--------------------------- MODULE RewardPromise ----------------------------
(***************************************************************************)
(* What a reward dispatcher promises, with no producers, votes or          *)
(* fixed-point numbers: rewards are received, each reception may raise     *)
(* what some voters have earned, and a voter who claims is paid everything *)
(* it has earned.                                                          *)
(***************************************************************************)
EXTENDS Integers, Functions

CONSTANTS Voters

VARIABLES
    received,   \* all the rewards ever received
    earned,     \* per voter, all it ever earned
    paid        \* per voter, what it was paid of that

vars == <<received, earned, paid>>

Init ==
    /\ received = 0
    /\ earned = [v \in Voters |-> 0]
    /\ paid = [v \in Voters |-> 0]

(* A reward arrives; voters earn at most what has been received in all.    *)
Receive ==
    /\ received' > received
    /\ earned' \in [Voters -> 0..received']
    /\ \A v \in Voters : earned'[v] >= earned[v]
    /\ SumFunctionOnSet(earned', Voters) <= received'
    /\ UNCHANGED paid

(* A voter is paid in full.                                                *)
Pay(v) ==
    /\ earned[v] > paid[v]
    /\ paid' = [paid EXCEPT ![v] = earned[v]]
    /\ UNCHANGED <<received, earned>>

Next == Receive \/ \E v \in Voters : Pay(v)

Spec == Init /\ [][Next]_vars
=============================================================================
