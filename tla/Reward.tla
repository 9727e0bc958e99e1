------------------------------- MODULE Reward -------------------------------
(***************************************************************************)
(* flon.reward: the contract that spreads the rewards a producer sends it  *)
(* over the accounts that vote for the producer.                           *)
(*                                                                         *)
(* A producer's reward is not split when it arrives: the producer's        *)
(* accumulator rewards_per_vote (a fixed-point number, scaled by           *)
(* HIGH_PRECISION) grows, and each voter remembers the accumulator value   *)
(* up to which it has been paid.  The difference is settled whenever the   *)
(* voter's row is touched.                                                 *)
(*                                                                         *)
(* A transaction is atomic: a failed check aborts it and leaves no trace,  *)
(* so every check of a handler is a conjunct of its action.  A row that    *)
(* does not exist behaves as the default row the handlers emplace, except  *)
(* where a handler asks for the row; there the model asks for what the     *)
(* row must hold.  update_at stamps and RAM payers are left out.           *)
(***************************************************************************)
EXTENDS Integers, FiniteSets, Functions

CONSTANTS
    Voters,          \* accounts that vote
    Producers,       \* accounts that may be voted for
    HIGH_PRECISION,  \* the fixed-point scale, 10^18 in the contract
    MAX_AMOUNT,      \* asset::max_amount, the largest amount an asset holds
    MaxVotes         \* bound: the largest number of votes of one voter

ASSUME ConstantsAssumption ==
    /\ IsFiniteSet(Voters)
    /\ IsFiniteSet(Producers)
    /\ HIGH_PRECISION \in Nat \ {0}
    /\ MAX_AMOUNT \in Nat
    /\ MaxVotes \in Nat

VARIABLES
    initialized,     \* the global row holds a valid core symbol
    total_rewards,   \* global_state::total_rewards
    producer_tbl,    \* the rows of producer::table, by owner
    voter_tbl        \* the rows of voter::table, by owner

vars == <<initialized, total_rewards, producer_tbl, voter_tbl>>

Amounts == 0..MAX_AMOUNT

ProducerRow ==
    [ is_registered      : BOOLEAN,
      total_rewards      : Amounts,
      allocating_rewards : Amounts,
      allocated_rewards  : Amounts,
      votes              : Nat,
      rewards_per_vote   : Nat ]

(* The std::map producers is its key set and the last_rewards_per_vote of  *)
(* each key; the value of a producer that is no key is 0.                  *)
VoterRow ==
    [ votes                 : 0..MaxVotes,
      producers             : SUBSET Producers,
      last_rewards_per_vote : [Producers -> Nat],
      unclaimed_rewards     : Amounts,
      claimed_rewards       : Amounts ]

Init ==
    /\ initialized = FALSE
    /\ total_rewards = 0
    /\ producer_tbl = [p \in Producers |->
          [ is_registered |-> FALSE, total_rewards |-> 0,
            allocating_rewards |-> 0, allocated_rewards |-> 0,
            votes |-> 0, rewards_per_vote |-> 0 ]]
    /\ voter_tbl = [v \in Voters |->
          [ votes |-> 0, producers |-> {},
            last_rewards_per_vote |-> [p \in Producers |-> 0],
            unclaimed_rewards |-> 0, claimed_rewards |-> 0 ]]

-----------------------------------------------------------------------------
(* Mutant: amounts are added as plain integers.                            *)
Fits_Unchecked(amount) == TRUE

(* The check of asset's +=, which aborts on an amount it cannot hold.      *)
Fits(amount) == amount <= MAX_AMOUNT

(* The fixed-point arithmetic.                                             *)

(* Mutant: the rate is rounded up.                                         *)
calc_rewards_per_vote_Up(old, amount, votes) ==
    IF amount > 0 /\ votes > 0
    THEN old + (amount * HIGH_PRECISION + votes - 1) \div votes
    ELSE old

(* Mutant: the reward is not divided by the votes.                         *)
calc_rewards_per_vote_Whole(old, amount, votes) ==
    IF amount > 0 /\ votes > 0 THEN old + amount * HIGH_PRECISION ELSE old

calc_rewards_per_vote(old, amount, votes) ==
    IF amount > 0 /\ votes > 0
    THEN old + (amount * HIGH_PRECISION) \div votes
    ELSE old

(* Mutant: a voter's share is rounded up.                                  *)
calc_voter_rewards_Up(votes, rewards_per_vote) ==
    (votes * rewards_per_vote + HIGH_PRECISION - 1) \div HIGH_PRECISION

calc_voter_rewards(votes, rewards_per_vote) ==
    (votes * rewards_per_vote) \div HIGH_PRECISION

-----------------------------------------------------------------------------
(* Settling the producers in P for voter v, which held votes_old[p] votes  *)
(* for p since it was last paid and whose vote for p changes by            *)
(* votes_delta[p].                                                         *)

(* What v is due from p, given that it was paid up to last.                *)
new_rewards(p, votes_old, last) ==
    LET rewards_per_vote_delta == producer_tbl[p].rewards_per_vote - last
    IN  IF rewards_per_vote_delta > 0 /\ votes_old > 0
        THEN calc_voter_rewards(votes_old, rewards_per_vote_delta)
        ELSE 0

(* The checks of the loop body for one producer.                           *)
AllocateChecks(p, votes_old, votes_delta, last) ==
    LET row == producer_tbl[p]
    IN  /\ row.rewards_per_vote >= last
        /\ row.rewards_per_vote > last /\ votes_old > 0 =>
              /\ votes_old <= row.votes
              /\ row.allocating_rewards >= new_rewards(p, votes_old, last)
              /\ Fits(row.allocated_rewards + new_rewards(p, votes_old, last))
              /\ row.total_rewards = row.allocating_rewards + row.allocated_rewards
        /\ row.votes + votes_delta >= 0

(* The loop over the producers of P.  No producer occurs twice, so each    *)
(* row is settled from the state before the loop.                          *)
allocate_producer_rewards(v, P, votes_old, votes_delta) ==
    LET last == voter_tbl[v].last_rewards_per_vote
    IN  /\ \A p \in P : AllocateChecks(p, votes_old[p], votes_delta[p], last[p])
        /\ producer_tbl' = [p \in Producers |->
              IF p \in P
              THEN LET amount == new_rewards(p, votes_old[p], last[p])
                   IN [producer_tbl[p] EXCEPT
                         !.allocating_rewards = @ - amount,
                         !.allocated_rewards = @ + amount,
                         !.votes = @ + votes_delta[p]]
              ELSE producer_tbl[p]]

(* The amount the loop adds to the voter's unclaimed_rewards.              *)
AllocatedSum(v, P, votes_old) ==
    SumFunctionOnSet(
        [p \in Producers |->
            new_rewards(p, votes_old[p], voter_tbl[v].last_rewards_per_vote[p])],
        P)

(* Mutant: the accumulator value is not stored.                            *)
PaidUpTo_Never(P) == [p \in Producers |-> 0]

(* Mutant: the entries of removed producers stay.                          *)
PaidUpTo_Keep(P) == [p \in Producers |-> producer_tbl[p].rewards_per_vote]

(* The accumulator values the loop leaves in a producer map with keys P.   *)
PaidUpTo(P) ==
    [p \in Producers |-> IF p \in P THEN producer_tbl[p].rewards_per_vote ELSE 0]

-----------------------------------------------------------------------------
(* The actions of the contract.                                            *)

init ==
    /\ ~initialized
    /\ initialized' = TRUE
    /\ total_rewards' = 0
    /\ UNCHANGED <<producer_tbl, voter_tbl>>

regproducer(p) ==
    /\ initialized
    /\ producer_tbl' = [producer_tbl EXCEPT ![p].is_registered = TRUE]
    /\ UNCHANGED <<initialized, total_rewards, voter_tbl>>

change_vote(v, votes, is_adding) ==
    LET row == voter_tbl[v]
        votes_delta == IF is_adding THEN votes ELSE -votes
        paid == AllocatedSum(v, row.producers, [p \in Producers |-> row.votes])
    IN  /\ initialized
        /\ votes > 0
        /\ ~is_adding => row.votes >= votes
        /\ row.votes + votes_delta <= MaxVotes
        /\ Fits(row.unclaimed_rewards + paid)
        /\ allocate_producer_rewards(v, row.producers,
               [p \in Producers |-> row.votes],
               [p \in Producers |-> votes_delta])
        /\ voter_tbl' = [voter_tbl EXCEPT ![v] = [row EXCEPT
              !.votes = @ + votes_delta,
              !.last_rewards_per_vote = PaidUpTo(row.producers),
              !.unclaimed_rewards = @ + paid]]
        /\ UNCHANGED <<initialized, total_rewards>>

addvote(v, votes) == change_vote(v, votes, TRUE)

subvote(v, votes) == change_vote(v, votes, FALSE)

(* Mutant: a new producer is settled from its first reward on.             *)
OldVotes_All(v) == [p \in Producers |-> voter_tbl[v].votes]

(* The merge of the old map with the new sorted list splits both into      *)
(* removed, kept and added producers; an added producer starts with an     *)
(* accumulator value of 0 and with no old votes.                           *)
OldVotes(v) ==
    [p \in Producers |->
        IF p \in voter_tbl[v].producers THEN voter_tbl[v].votes ELSE 0]

(* Mutant: kept producers get the votes again.                             *)
VotesMoved_Again(v, producers) ==
    [p \in Producers |-> IF p \in producers THEN voter_tbl[v].votes
                                            ELSE -voter_tbl[v].votes]

VotesMoved(v, producers) ==
    LET row == voter_tbl[v]
    IN  [p \in Producers |->
            CASE p \in row.producers \ producers -> -row.votes
              [] p \in producers \ row.producers -> row.votes
              [] OTHER -> 0]

voteproducer(v, producers) ==
    LET row == voter_tbl[v]
        votes_old == OldVotes(v)
        paid == AllocatedSum(v, row.producers \cup producers, votes_old)
    IN  /\ initialized
        /\ Fits(row.unclaimed_rewards + paid)
        /\ allocate_producer_rewards(v, row.producers \cup producers,
                                     votes_old, VotesMoved(v, producers))
        /\ voter_tbl' = [voter_tbl EXCEPT ![v] = [row EXCEPT
              !.producers = producers,
              !.last_rewards_per_vote = PaidUpTo(producers),
              !.unclaimed_rewards = @ + paid]]
        /\ UNCHANGED <<initialized, total_rewards>>

(* Mutant: what is settled by the claim is not paid.                       *)
claimable_Unsettled(v) == voter_tbl[v].unclaimed_rewards

(* What claim_rewards pays out: the unclaimed rewards after settling.      *)
claimable(v) ==
    LET row == voter_tbl[v]
    IN  row.unclaimed_rewards
          + (IF row.votes > 0
             THEN AllocatedSum(v, row.producers, [p \in Producers |-> row.votes])
             ELSE 0)

claim_rewards(v) ==
    LET row == voter_tbl[v]
        settled == IF row.votes > 0 THEN row.producers ELSE {}
    IN  /\ claimable(v) > 0
        /\ Fits(claimable(v))
        /\ Fits(row.claimed_rewards + claimable(v))
        /\ allocate_producer_rewards(v, settled,
               [p \in Producers |-> row.votes], [p \in Producers |-> 0])
        /\ voter_tbl' = [voter_tbl EXCEPT ![v] = [row EXCEPT
              !.last_rewards_per_vote =
                  IF row.votes > 0 THEN PaidUpTo(row.producers) ELSE @,
              !.unclaimed_rewards = 0,
              !.claimed_rewards = @ + claimable(v)]]
        /\ UNCHANGED <<initialized, total_rewards>>

claimrewards(v) == initialized /\ claim_rewards(v)

(* Anyone may make the contract pay a voter.                               *)
claimfor(claimer, v) == initialized /\ claim_rewards(v)

(* The notification of flon.token::transfer(from, self, quantity) in the   *)
(* core symbol, which no symbol is before init.                            *)
ontransfer(from, quantity) ==
    LET row == producer_tbl[from]
    IN  IF initialized
        THEN /\ from \in Producers
             /\ row.is_registered
             /\ Fits(total_rewards + quantity)
             /\ Fits(row.total_rewards + quantity)
             /\ Fits(row.allocating_rewards + quantity)
             /\ total_rewards' = total_rewards + quantity
             /\ producer_tbl' = [producer_tbl EXCEPT ![from] = [row EXCEPT
                   !.total_rewards = @ + quantity,
                   !.allocating_rewards = @ + quantity,
                   !.rewards_per_vote =
                       calc_rewards_per_vote(@, quantity, row.votes)]]
             /\ UNCHANGED <<initialized, voter_tbl>>
        ELSE UNCHANGED vars

-----------------------------------------------------------------------------
Next ==
    \/ init
    \/ \E p \in Producers : regproducer(p)
    \/ \E v \in Voters, n \in 1..MaxVotes : addvote(v, n)
    \/ \E v \in Voters, n \in 1..MaxVotes : subvote(v, n)
    \/ \E v \in Voters, P \in SUBSET Producers : voteproducer(v, P)
    \/ \E v \in Voters : claimrewards(v)
    \/ \E u, v \in Voters : claimfor(u, v)
    \/ \E p \in Producers, q \in 1..MAX_AMOUNT : ontransfer(p, q)

Spec == Init /\ [][Next]_vars

-----------------------------------------------------------------------------
(* Properties.                                                             *)

TypeOK ==
    /\ initialized \in BOOLEAN
    /\ total_rewards \in Amounts
    /\ producer_tbl \in [Producers -> ProducerRow]
    /\ voter_tbl \in [Voters -> VoterRow]

(* The votes voter v has on producer p.                                    *)
VotesOn(v, p) ==
    IF p \in voter_tbl[v].producers THEN voter_tbl[v].votes ELSE 0

(* What p owes v since v was last paid, scaled by HIGH_PRECISION.          *)
Owed(v, p) ==
    VotesOn(v, p)
      * (producer_tbl[p].rewards_per_vote - voter_tbl[v].last_rewards_per_vote[p])

(* producer::votes is exactly the votes of the voters whose map holds the  *)
(* producer, through every order of addvote, subvote and voteproducer.     *)
TallyInv ==
    \A p \in Producers :
        producer_tbl[p].votes
          = SumFunctionOnSet([v \in Voters |-> VotesOn(v, p)], Voters)

(* Each producer still holds (allocating_rewards) at least what it owes to *)
(* all of its voters together, however the roundings fell: the check       *)
(* "producer allocating rewards insufficient" can never stop a voter.      *)
SolvencyInv ==
    \A p \in Producers :
        HIGH_PRECISION * producer_tbl[p].allocating_rewards
          >= SumFunctionOnSet([v \in Voters |-> Owed(v, p)], Voters)

(* A voter was never paid beyond a producer's accumulator, and only has a  *)
(* paid-up value for the producers of its map.                             *)
PaidUpToInv ==
    \A v \in Voters, p \in Producers :
        /\ voter_tbl[v].last_rewards_per_vote[p] <= producer_tbl[p].rewards_per_vote
        /\ p \notin voter_tbl[v].producers =>
              voter_tbl[v].last_rewards_per_vote[p] = 0

(* Every unit ever received is in one place: not yet allocated by its      *)
(* producer, or credited to a voter and unclaimed, or claimed.             *)
ConservationInv ==
    /\ \A p \in Producers :
          producer_tbl[p].total_rewards
            = producer_tbl[p].allocating_rewards + producer_tbl[p].allocated_rewards
    /\ total_rewards
         = SumFunctionOnSet([p \in Producers |-> producer_tbl[p].total_rewards],
                            Producers)
    /\ SumFunctionOnSet([p \in Producers |-> producer_tbl[p].allocated_rewards],
                        Producers)
         = SumFunctionOnSet([v \in Voters |-> voter_tbl[v].unclaimed_rewards
                                                + voter_tbl[v].claimed_rewards],
                            Voters)

(* The int128 accumulator and every product of calc_voter_rewards stay     *)
(* within HIGH_PRECISION * MAX_AMOUNT < 2^127, whatever rewards arrive     *)
(* while a producer has few votes: no fixed-point computation overflows.   *)
FixedPointRangeInv ==
    \A p \in Producers :
        /\ producer_tbl[p].rewards_per_vote
             <= HIGH_PRECISION * producer_tbl[p].total_rewards
        /\ \A v \in Voters : Owed(v, p) <= HIGH_PRECISION * MAX_AMOUNT

(* No check of the contract's own bookkeeping can refuse a voter: it can   *)
(* always take all its votes off every producer it votes for, and be paid  *)
(* whatever claim_rewards finds due.                                       *)
ExitInv ==
    initialized =>
      \A v \in Voters :
        LET row == voter_tbl[v] IN
        /\ \A p \in row.producers :
              AllocateChecks(p, row.votes, -row.votes, row.last_rewards_per_vote[p])
        /\ row.claimed_rewards + claimable(v) <= MAX_AMOUNT

(* All that v has earned: claimed, unclaimed and still to be settled.      *)
Earned(v) == voter_tbl[v].claimed_rewards + claimable(v)

(* What the contract promises its voters, see RewardPromise: votes,        *)
(* producer lists and settlements move rewards between rows but never      *)
(* change what anyone has earned; only a reward received from a producer   *)
(* adds to it, and never more than was received; a claim pays all of it.   *)
Promise == INSTANCE RewardPromise WITH
    received <- total_rewards,
    earned <- [v \in Voters |-> Earned(v)],
    paid <- [v \in Voters |-> voter_tbl[v].claimed_rewards]

KeepsPromise == Promise!Spec

(* Rewards no voter can ever get: what a producer holds beyond what it     *)
(* owes (rewards that arrived while it had no votes, and rounding).        *)
Stranded(p) ==
    HIGH_PRECISION * producer_tbl[p].allocating_rewards
      - SumFunctionOnSet([v \in Voters |-> Owed(v, p)], Voters)

(* What is stranded stays stranded: no action brings rewards that were not *)
(* distributed when they arrived back to the voters.                       *)
StrandedForever ==
    [][\A p \in Producers : Stranded(p)' >= Stranded(p)]_vars

=============================================================================
