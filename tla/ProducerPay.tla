----------------------------- MODULE ProducerPay ----------------------------
(***************************************************************************)
(* The block reward of flon.system: cfgelection sets when the election and *)
(* the rewards start and how large the first rewards are, onblock credits  *)
(* the producer of each block, and the reward halves every period.  The    *)
(* contract has no way to pay what it credits: claimrewards always fails.  *)
(*                                                                         *)
(* The clock counts blocks, two per second; 0 is time_point().  int64_t is *)
(* Width bits wide; in the wasm build its sums and products wrap around,   *)
(* its quotients are cut towards 0 and a division by 0 traps, which        *)
(* aborts onblock as a whole.                                              *)
(***************************************************************************)
EXTENDS Integers, FiniteSets, Functions

CONSTANTS
    Producers,
    Width,                 \* 64, the bits of an int64_t
    HalvingPeriodSeconds,  \* reward_halving_period_seconds, 5 years
    Rewards,               \* bound: the amounts cfgelection is called with
    MaxTime                \* bound: the last block

ASSUME ProducerPayAssumption ==
    /\ IsFiniteSet(Producers)
    /\ Width \in Nat /\ Width > 1
    /\ HalvingPeriodSeconds \in Nat \ {0}
    /\ Rewards \subseteq -(2^(Width - 1))..(2^(Width - 1) - 1)
    /\ \E r \in Rewards : r >= 0
    /\ MaxTime \in Nat \ {0}

(* What proofs use of powers of two, which the provers know nothing about. *)
ASSUME HalvingsAssumption ==
    /\ 2^0 = 1
    /\ \A n \in 0..(Width + MaxTime) : 2^n \in Nat \ {0} /\ 2^(n + 1) = 2 * 2^n

VARIABLES
    now,                         \* the time of the block
    election_activated_time,     \* _gstate
    reward_started_time,         \* _gstate
    initial_rewards_per_block,   \* _gstate
    total_produced_rewards,      \* _gstate
    total_unclaimed_rewards,     \* _gstate
    registered,                  \* producers that have a row
    unclaimed_rewards            \* producer_info::unclaimed_rewards

payvars == <<now, election_activated_time, reward_started_time,
          initial_rewards_per_block, total_produced_rewards,
          total_unclaimed_rewards, registered, unclaimed_rewards>>

Amounts == 0..(2^(Width - 1) - 1)

(* The Width-bit number that x wraps to.                                   *)
Wrap(x) == ((x + 2^(Width - 1)) % 2^Width) - 2^(Width - 1)

PayInit ==
    /\ now = 1
    /\ election_activated_time = 0
    /\ reward_started_time = 0
    /\ initial_rewards_per_block = 0
    /\ total_produced_rewards = 0
    /\ total_unclaimed_rewards = 0
    /\ registered = {}
    /\ unclaimed_rewards = [p \in Producers |-> 0]

-----------------------------------------------------------------------------
(* Mutant: the time can be moved after it has passed.                      *)
Reschedule_Always(old, new) == new > now

(* A time may be moved, into the future, until it has come.                *)
Reschedule(old, new) ==
    IF old = 0 \/ old > now THEN new > now ELSE new = old

(* The rewards start with the election or later.                           *)
InOrder(election, reward) == reward >= election

ValidAmount(amount) == amount >= 0

cfgelection(election, reward, amount) ==
    /\ ValidAmount(amount)
    /\ Reschedule(election_activated_time, election)
    /\ InOrder(election, reward)
    /\ Reschedule(reward_started_time, reward)
    /\ election_activated_time' = election
    /\ reward_started_time' = reward
    /\ initial_rewards_per_block' = amount
    /\ UNCHANGED <<now, total_produced_rewards, total_unclaimed_rewards,
                   registered, unclaimed_rewards>>

(* regproducer, as far as onblock looks at the row.                        *)
regproducer(p) ==
    /\ registered' = registered \cup {p}
    /\ UNCHANGED <<now, election_activated_time, reward_started_time,
                   initial_rewards_per_block, total_produced_rewards,
                   total_unclaimed_rewards, unclaimed_rewards>>

(* base to the exp, multiplied up in an int64_t.                           *)
power(base, exp) ==
    LET ret[n \in 0..exp] == IF n = 0 THEN 1 ELSE Wrap(base * ret[n - 1])
    IN  ret[exp]

(* The quotient of integers in C++, cut towards 0.                         *)
Quotient(x, y) ==
    LET sign == IF (x < 0) # (y < 0) THEN -1 ELSE 1
        Abs(z) == IF z < 0 THEN -z ELSE z
    IN  sign * (Abs(x) \div Abs(y))

(* Whole seconds since the rewards started, in periods.                    *)
cur_period == ((now - reward_started_time) \div 2) \div HalvingPeriodSeconds

(* Mutant: the reward does not halve.                                      *)
rewards_per_block_Flat == initial_rewards_per_block

rewards_per_block == Quotient(initial_rewards_per_block, power(2, cur_period))

(* onblock goes on after its early return.                                 *)
ElectionActive ==
    /\ election_activated_time # 0
    /\ election_activated_time <= now

(* The condition on the rewards of a block of producer p.                  *)
Rewarded(p) ==
    /\ ElectionActive
    /\ p \in registered
    /\ reward_started_time # 0
    /\ reward_started_time <= now

(* onblock divides by 0.                                                   *)
Traps(p) == Rewarded(p) /\ power(2, cur_period) = 0

Credited(amount) == Wrap(amount + rewards_per_block)

Tick == now < MaxTime /\ now' = now + 1

(* The block of producer p, and the clock of the next one.                 *)
onblockPays(p) ==
    /\ Tick
    /\ ~Traps(p)
    /\ IF Rewarded(p)
       THEN /\ unclaimed_rewards' =
                  [unclaimed_rewards EXCEPT ![p] = Credited(@)]
            /\ total_produced_rewards' = Credited(total_produced_rewards)
            /\ total_unclaimed_rewards' = Credited(total_unclaimed_rewards)
       ELSE UNCHANGED <<unclaimed_rewards, total_produced_rewards,
                        total_unclaimed_rewards>>
    /\ UNCHANGED <<election_activated_time, reward_started_time,
                   initial_rewards_per_block, registered>>

(* A block whose onblock is aborted: nothing but the time changes.         *)
Missed ==
    /\ Tick
    /\ UNCHANGED <<election_activated_time, reward_started_time,
                   initial_rewards_per_block, total_produced_rewards,
                   total_unclaimed_rewards, registered, unclaimed_rewards>>

onblockTraps(p) == Traps(p) /\ Missed

PayNext ==
    \/ \E e, r \in 1..MaxTime, a \in Rewards : cfgelection(e, r, a)
    \/ \E p \in Producers : regproducer(p)
    \/ \E p \in Producers : onblockPays(p)
    \/ \E p \in Producers : onblockTraps(p)

PaySpec == PayInit /\ [][PayNext]_payvars

-----------------------------------------------------------------------------
(* Properties.                                                             *)

PayTypeOK ==
    /\ now \in 1..MaxTime
    /\ {election_activated_time, reward_started_time} \subseteq 0..MaxTime
    /\ {initial_rewards_per_block, total_produced_rewards,
        total_unclaimed_rewards} \subseteq Amounts
    /\ registered \subseteq Producers
    /\ unclaimed_rewards \in [Producers -> Amounts]

(* However and whenever the two times are moved, the rewards never start   *)
(* before the election, both times are set or none is, and rewards were    *)
(* only produced since the start that is configured: a start that has      *)
(* passed is not moved away under the rewards already given.               *)
RewardTimesInv ==
    /\ election_activated_time <= reward_started_time
    /\ election_activated_time = 0 <=> reward_started_time = 0
    /\ total_produced_rewards > 0 => reward_started_time \in 1..(now - 1)

(* While there have been fewer periods than an int64_t has bits, onblock   *)
(* does not trap and a block earns the first reward halved once for every  *)
(* whole period, also in the last one, when the divisor has wrapped to the *)
(* smallest int64_t; from then on every block of a registered producer     *)
(* traps, for good.                                                        *)
HalvingInv ==
    \A p \in Producers : Rewarded(p) =>
        IF cur_period < Width
        THEN /\ ~Traps(p)
             /\ rewards_per_block = initial_rewards_per_block \div 2^cur_period
        ELSE Traps(p)

(* The halving bounds what is ever produced, however long the chain runs   *)
(* and whatever rewards are configured in between: two periods' worth of   *)
(* the largest reward.  So no sum wraps, and the totals are what the       *)
(* producers are credited with.  No block misses its reward, or traps,     *)
(* before there are as many periods as bits.                               *)
IssuanceInv ==
    /\ PayTypeOK
    /\ HalvingInv
    /\ total_produced_rewards = SumFunctionOnSet(unclaimed_rewards, Producers)
    /\ total_unclaimed_rewards = total_produced_rewards
    /\ \A most \in Rewards :
          (\A r \in Rewards : r <= most) =>
              total_produced_rewards <= 2 * (2 * HalvingPeriodSeconds) * most
=============================================================================
