---------------------------- MODULE RewardProofs ----------------------------
(***************************************************************************)
(* Theorems about Reward, for any finite sets of voters and producers, any *)
(* precision and any bounds: the tallies, the debts to the voters, the     *)
(* conservation of rewards and the refinement of RewardPromise.            *)
(***************************************************************************)
EXTENDS Reward, SumTheorems

USE DEF Fits, Amounts

(* Division rounds down.                                                   *)
LEMMA DivFloor ==
    ASSUME NEW a \in Nat, NEW b \in Nat, b > 0
    PROVE  a \div b \in Nat /\ b * (a \div b) <= a
<1>1. a \div b \in Int /\ a = b * (a \div b) + (a % b) /\ a % b \in 0..(b - 1)
  OBVIOUS
<1>2. ASSUME a \div b < 0 PROVE FALSE
  <2>1. a \div b <= -1
    BY <1>1, <1>2
  <2>2. b * (a \div b) <= b * (-1)
    BY <1>1, <2>1
  <2> QED BY <1>1, <2>2
<1> QED BY <1>1, <1>2

(* What a settlement credits is never negative.                            *)
LEMMA NewRewardsNat ==
    ASSUME TypeOK, NEW p \in Producers, NEW old \in Nat, NEW last \in Nat
    PROVE  new_rewards(p, old, last) \in Nat
<1> DEFINE d == producer_tbl[p].rewards_per_vote - last
<1>1. d \in Int
  BY DEF TypeOK, ProducerRow
<1>2. CASE d > 0 /\ old > 0
  <2>1. old * d \in Nat
    BY <1>1, <1>2
  <2>2. (old * d) \div HIGH_PRECISION \in Nat
    <3> HIDE DEF d
    <3> QED BY <2>1, DivFloor, ConstantsAssumption
  <2> QED BY <1>2, <2>2 DEF new_rewards, calc_voter_rewards
<1>3. CASE ~(d > 0 /\ old > 0)
  BY <1>3 DEF new_rewards
<1> QED BY <1>2, <1>3

LEMMA AllocatedSumNat ==
    ASSUME TypeOK, NEW v \in Voters, NEW P \in SUBSET Producers,
           NEW old \in [Producers -> Nat]
    PROVE  AllocatedSum(v, P, old) \in Nat
<1> DEFINE f == [p \in Producers |->
                   new_rewards(p, old[p], voter_tbl[v].last_rewards_per_vote[p])]
<1>1. \A p \in Producers : voter_tbl[v].last_rewards_per_vote[p] \in Nat
  BY DEF TypeOK, VoterRow
<1>2. \A p \in Producers : f[p] \in Nat
  BY <1>1, NewRewardsNat
<1>3. SumFunctionOnSet(f, P) \in Nat
  <2> HIDE DEF f
  <2> QED BY <1>2, SumNat, ConstantsAssumption
<1> QED BY <1>3 DEF AllocatedSum

(* The row of one producer after allocate_producer_rewards.                *)
LEMMA AllocateRow ==
    ASSUME TypeOK, NEW v \in Voters, NEW P \in SUBSET Producers,
           NEW old \in [Producers -> Nat], NEW delta \in [Producers -> Int],
           allocate_producer_rewards(v, P, old, delta),
           NEW p \in P
    PROVE  LET amount == new_rewards(p, old[p], voter_tbl[v].last_rewards_per_vote[p])
               row == producer_tbl[p]
           IN  /\ amount \in Nat
               /\ row.allocating_rewards >= amount
               /\ row.allocated_rewards + amount <= MAX_AMOUNT
               /\ row.votes + delta[p] >= 0
               /\ producer_tbl'[p] =
                     [ is_registered |-> row.is_registered,
                       total_rewards |-> row.total_rewards,
                       allocating_rewards |-> row.allocating_rewards - amount,
                       allocated_rewards |-> row.allocated_rewards + amount,
                       votes |-> row.votes + delta[p],
                       rewards_per_vote |-> row.rewards_per_vote ]
<1> DEFINE last == voter_tbl[v].last_rewards_per_vote[p]
           amount == new_rewards(p, old[p], last)
           row == producer_tbl[p]
<1>1. /\ row \in ProducerRow /\ last \in Nat /\ old[p] \in Nat /\ delta[p] \in Int
      /\ p \in Producers
  BY DEF TypeOK, VoterRow
<1>2. amount \in Nat
  BY <1>1, NewRewardsNat
<1>3. AllocateChecks(p, old[p], delta[p], last)
  BY DEF allocate_producer_rewards
<1>4. ~(row.rewards_per_vote - last > 0 /\ old[p] > 0) => amount = 0
  BY DEF new_rewards
<1>5. row.rewards_per_vote \in Nat
  BY <1>1 DEF ProducerRow
<1>6. producer_tbl'[p] =
         [row EXCEPT !.allocating_rewards = @ - amount,
                     !.allocated_rewards = @ + amount,
                     !.votes = @ + delta[p]]
  BY <1>1 DEF allocate_producer_rewards
<1>7. /\ row.allocating_rewards >= amount
      /\ row.allocated_rewards + amount <= MAX_AMOUNT
      /\ row.votes + delta[p] >= 0
  <2> HIDE DEF amount, last
  <2>1. CASE row.rewards_per_vote - last > 0 /\ old[p] > 0
    <3>1. row.rewards_per_vote > last
      BY <1>1, <1>5, <2>1
    <3> QED BY <1>1, <1>3, <2>1, <3>1 DEF AllocateChecks, amount
  <2>2. CASE ~(row.rewards_per_vote - last > 0 /\ old[p] > 0)
    <3>1. amount = 0
      BY <1>4, <2>2
    <3> QED BY <1>1, <1>3, <3>1 DEF AllocateChecks, ProducerRow
  <2> QED BY <2>1, <2>2
<1>8. producer_tbl'[p] =
         [ is_registered |-> row.is_registered,
           total_rewards |-> row.total_rewards,
           allocating_rewards |-> row.allocating_rewards - amount,
           allocated_rewards |-> row.allocated_rewards + amount,
           votes |-> row.votes + delta[p],
           rewards_per_vote |-> row.rewards_per_vote ]
  <2> HIDE DEF amount, row
  <2> QED BY <1>1, <1>6 DEF ProducerRow
<1> QED BY <1>2, <1>7, <1>8

(* allocate_producer_rewards leaves a table of producer rows.              *)
LEMMA AllocateType ==
    ASSUME TypeOK, NEW v \in Voters, NEW P \in SUBSET Producers,
           NEW old \in [Producers -> Nat], NEW delta \in [Producers -> Int],
           allocate_producer_rewards(v, P, old, delta)
    PROVE  /\ producer_tbl' \in [Producers -> ProducerRow]
           /\ \A p \in Producers \ P : producer_tbl'[p] = producer_tbl[p]
<1>1. \A p \in Producers \ P : producer_tbl'[p] = producer_tbl[p]
  BY DEF allocate_producer_rewards
<1>2. ASSUME NEW p \in Producers PROVE producer_tbl'[p] \in ProducerRow
  <2>1. CASE p \notin P
    BY <1>1, <2>1 DEF TypeOK
  <2>2. CASE p \in P
    <3>1. producer_tbl[p] \in ProducerRow /\ delta[p] \in Int /\ MAX_AMOUNT \in Nat
      BY ConstantsAssumption DEF TypeOK
    <3> DEFINE amount == new_rewards(p, old[p], voter_tbl[v].last_rewards_per_vote[p])
               row == producer_tbl[p]
    <3>2. /\ amount \in Nat
          /\ row.allocating_rewards >= amount
          /\ row.allocated_rewards + amount <= MAX_AMOUNT
          /\ row.votes + delta[p] >= 0
          /\ producer_tbl'[p] =
                [ is_registered |-> row.is_registered,
                  total_rewards |-> row.total_rewards,
                  allocating_rewards |-> row.allocating_rewards - amount,
                  allocated_rewards |-> row.allocated_rewards + amount,
                  votes |-> row.votes + delta[p],
                  rewards_per_vote |-> row.rewards_per_vote ]
      BY <2>2, AllocateRow
    <3>3. /\ row.is_registered \in BOOLEAN
          /\ row.total_rewards \in 0..MAX_AMOUNT
          /\ row.allocating_rewards \in 0..MAX_AMOUNT
          /\ row.allocated_rewards \in 0..MAX_AMOUNT
          /\ row.votes \in Nat
          /\ row.rewards_per_vote \in Nat
      BY <3>1 DEF ProducerRow
    <3> HIDE DEF amount, row
    <3>4. /\ row.allocating_rewards - amount \in 0..MAX_AMOUNT
          /\ row.allocated_rewards + amount \in 0..MAX_AMOUNT
          /\ row.votes + delta[p] \in Nat
      BY <3>1, <3>2, <3>3
    <3> QED BY <3>2, <3>3, <3>4 DEF ProducerRow
  <2> QED BY <2>1, <2>2
<1>3. producer_tbl' = [p \in Producers |-> producer_tbl'[p]]
  BY DEF allocate_producer_rewards
<1> QED BY <1>1, <1>2, <1>3

(* The accumulator values a voter stores are naturals.                     *)
LEMMA PaidUpToType ==
    ASSUME TypeOK, NEW P
    PROVE  PaidUpTo(P) \in [Producers -> Nat]
<1>1. \A p \in Producers : producer_tbl[p].rewards_per_vote \in Nat
  BY DEF TypeOK, ProducerRow
<1> QED BY <1>1 DEF PaidUpTo

(* A table of voter rows in which one row is replaced by a voter row.      *)
LEMMA VoterUpdateType ==
    ASSUME TypeOK, NEW v \in Voters, NEW votes \in 0..MaxVotes,
           NEW producers \in SUBSET Producers, NEW last \in [Producers -> Nat],
           NEW unclaimed \in Amounts, NEW claimed \in Amounts,
           voter_tbl' = [voter_tbl EXCEPT
              ![v] = [ votes |-> votes, producers |-> producers,
                       last_rewards_per_vote |-> last,
                       unclaimed_rewards |-> unclaimed,
                       claimed_rewards |-> claimed ]]
    PROVE  voter_tbl' \in [Voters -> VoterRow]
BY DEF TypeOK, VoterRow

(* The rows of a table of voter rows.                                      *)
LEMMA VoterRowFields ==
    ASSUME TypeOK, NEW v \in Voters
    PROVE  /\ voter_tbl[v].votes \in 0..MaxVotes
           /\ voter_tbl[v].votes \in Nat
           /\ voter_tbl[v].producers \in SUBSET Producers
           /\ voter_tbl[v].last_rewards_per_vote \in [Producers -> Nat]
           /\ voter_tbl[v].unclaimed_rewards \in 0..MAX_AMOUNT
           /\ voter_tbl[v].claimed_rewards \in 0..MAX_AMOUNT
           /\ voter_tbl[v] =
                [ votes |-> voter_tbl[v].votes,
                  producers |-> voter_tbl[v].producers,
                  last_rewards_per_vote |-> voter_tbl[v].last_rewards_per_vote,
                  unclaimed_rewards |-> voter_tbl[v].unclaimed_rewards,
                  claimed_rewards |-> voter_tbl[v].claimed_rewards ]
BY ConstantsAssumption DEF TypeOK, VoterRow

(* The voter's row after change_vote, voteproducer and claim_rewards.      *)
LEMMA ChangeVoteExcept ==
    ASSUME NEW row \in VoterRow, NEW n, NEW l, NEW u
    PROVE  [row EXCEPT !.votes = n, !.last_rewards_per_vote = l,
                       !.unclaimed_rewards = u]
           = [ votes |-> n, producers |-> row.producers,
               last_rewards_per_vote |-> l,
               unclaimed_rewards |-> u,
               claimed_rewards |-> row.claimed_rewards ]
<1> DEFINE r1 == [row EXCEPT !.votes = n]
           r2 == [r1 EXCEPT !.last_rewards_per_vote = l]
           r3 == [r2 EXCEPT !.unclaimed_rewards = u]
<1>1. r1 = [ votes |-> n, producers |-> row.producers,
             last_rewards_per_vote |-> row.last_rewards_per_vote,
             unclaimed_rewards |-> row.unclaimed_rewards,
             claimed_rewards |-> row.claimed_rewards ]
  BY DEF VoterRow
<1> HIDE DEF r1
<1>2. r2 = [ votes |-> n, producers |-> row.producers,
             last_rewards_per_vote |-> l,
             unclaimed_rewards |-> row.unclaimed_rewards,
             claimed_rewards |-> row.claimed_rewards ]
  BY <1>1
<1> HIDE DEF r2
<1>3. r3 = [ votes |-> n, producers |-> row.producers,
             last_rewards_per_vote |-> l,
             unclaimed_rewards |-> u,
             claimed_rewards |-> row.claimed_rewards ]
  BY <1>2
<1>4. r3 = [row EXCEPT !.votes = n, !.last_rewards_per_vote = l,
                      !.unclaimed_rewards = u]
  BY Zenon DEF r1, r2, r3
<1> QED BY <1>3, <1>4

LEMMA ClaimExcept ==
    ASSUME NEW row \in VoterRow, NEW l, NEW u, NEW c
    PROVE  [row EXCEPT !.last_rewards_per_vote = l, !.unclaimed_rewards = u,
                       !.claimed_rewards = c]
           = [ votes |-> row.votes, producers |-> row.producers,
               last_rewards_per_vote |-> l,
               unclaimed_rewards |-> u,
               claimed_rewards |-> c ]
<1> DEFINE r1 == [row EXCEPT !.last_rewards_per_vote = l]
           r2 == [r1 EXCEPT !.unclaimed_rewards = u]
           r3 == [r2 EXCEPT !.claimed_rewards = c]
<1>1. r1 = [ votes |-> row.votes, producers |-> row.producers,
             last_rewards_per_vote |-> l,
             unclaimed_rewards |-> row.unclaimed_rewards,
             claimed_rewards |-> row.claimed_rewards ]
  BY DEF VoterRow
<1> HIDE DEF r1
<1>2. r2 = [ votes |-> row.votes, producers |-> row.producers,
             last_rewards_per_vote |-> l,
             unclaimed_rewards |-> u,
             claimed_rewards |-> row.claimed_rewards ]
  BY <1>1
<1> HIDE DEF r2
<1>3. r3 = [ votes |-> row.votes, producers |-> row.producers,
             last_rewards_per_vote |-> l,
             unclaimed_rewards |-> u,
             claimed_rewards |-> c ]
  BY <1>2
<1>4. r3 = [row EXCEPT !.last_rewards_per_vote = l, !.unclaimed_rewards = u,
                      !.claimed_rewards = c]
  BY Zenon DEF r1, r2, r3
<1> QED BY <1>3, <1>4

(* What change_vote leaves in the voter's row.                             *)
LEMMA ChangeVoteRow ==
    ASSUME TypeOK, NEW v \in Voters, NEW n \in 1..MaxVotes,
           NEW adding \in BOOLEAN, change_vote(v, n, adding)
    PROVE  LET row == voter_tbl[v]
               delta == IF adding THEN n ELSE -n
               old == [p \in Producers |-> row.votes]
               paid == AllocatedSum(v, row.producers, old)
           IN  /\ row.votes + delta \in 0..MaxVotes
               /\ paid \in Nat
               /\ row.unclaimed_rewards + paid \in Amounts
               /\ voter_tbl' = [voter_tbl EXCEPT
                     ![v] = [ votes |-> row.votes + delta,
                              producers |-> row.producers,
                              last_rewards_per_vote |-> PaidUpTo(row.producers),
                              unclaimed_rewards |-> row.unclaimed_rewards + paid,
                              claimed_rewards |-> row.claimed_rewards ]]
<1> DEFINE row == voter_tbl[v]
           delta == IF adding THEN n ELSE -n
           old == [p \in Producers |-> row.votes]
           paid == AllocatedSum(v, row.producers, old)
<1>1. old \in [Producers -> Nat]
  BY VoterRowFields
<1>2. paid \in Nat
  <2> HIDE DEF old
  <2> QED BY <1>1, VoterRowFields, AllocatedSumNat
<1>3. row.votes + delta \in 0..MaxVotes
  <2>1. (~adding => row.votes >= n) /\ row.votes + delta <= MaxVotes
    BY DEF change_vote
  <2>2. row.votes \in Nat /\ MaxVotes \in Nat
    BY VoterRowFields, ConstantsAssumption
  <2>3. CASE adding
    BY <2>1, <2>2, <2>3
  <2>4. CASE ~adding
    BY <2>1, <2>2, <2>4
  <2> QED BY <2>3, <2>4
<1>4. row.unclaimed_rewards + paid \in Amounts
  <2>1. row.unclaimed_rewards + paid <= MAX_AMOUNT
    BY DEF change_vote
  <2>2. row.unclaimed_rewards \in 0..MAX_AMOUNT /\ MAX_AMOUNT \in Nat
    BY VoterRowFields, ConstantsAssumption
  <2> HIDE DEF paid
  <2> QED BY <1>2, <2>1, <2>2
<1>5. voter_tbl' = [voter_tbl EXCEPT ![v] = [row EXCEPT
         !.votes = @ + delta,
         !.last_rewards_per_vote = PaidUpTo(row.producers),
         !.unclaimed_rewards = @ + paid]]
  BY DEF change_vote
<1>6. voter_tbl' = [voter_tbl EXCEPT
         ![v] = [ votes |-> row.votes + delta,
                  producers |-> row.producers,
                  last_rewards_per_vote |-> PaidUpTo(row.producers),
                  unclaimed_rewards |-> row.unclaimed_rewards + paid,
                  claimed_rewards |-> row.claimed_rewards ]]
  <2> HIDE DEF paid, delta, row
  <2>1. row \in VoterRow
    BY DEF TypeOK, row
  <2>2. [row EXCEPT
           !.votes = @ + delta,
           !.last_rewards_per_vote = PaidUpTo(row.producers),
           !.unclaimed_rewards = @ + paid]
          = [ votes |-> row.votes + delta,
              producers |-> row.producers,
              last_rewards_per_vote |-> PaidUpTo(row.producers),
              unclaimed_rewards |-> row.unclaimed_rewards + paid,
              claimed_rewards |-> row.claimed_rewards ]
    BY <2>1, ChangeVoteExcept
  <2> QED BY <1>5, <2>2
<1> QED BY <1>2, <1>3, <1>4, <1>6

LEMMA VotesMovedType ==
    ASSUME TypeOK, NEW v \in Voters, NEW P \in SUBSET Producers
    PROVE  OldVotes(v) \in [Producers -> Nat] /\ VotesMoved(v, P) \in [Producers -> Int]
<1>1. voter_tbl[v].votes \in Nat
  BY VoterRowFields
<1>2. OldVotes(v) \in [Producers -> Nat]
  BY <1>1 DEF OldVotes
<1>3. VotesMoved(v, P) \in [Producers -> Int]
  BY <1>1 DEF VotesMoved
<1> QED BY <1>2, <1>3

(* What voteproducer leaves in the voter's row.                            *)
LEMMA VoteproducerRow ==
    ASSUME TypeOK, NEW v \in Voters, NEW P \in SUBSET Producers,
           voteproducer(v, P)
    PROVE  LET row == voter_tbl[v]
               paid == AllocatedSum(v, row.producers \cup P, OldVotes(v))
           IN  /\ paid \in Nat
               /\ row.unclaimed_rewards + paid \in Amounts
               /\ voter_tbl' = [voter_tbl EXCEPT
                     ![v] = [ votes |-> row.votes,
                              producers |-> P,
                              last_rewards_per_vote |-> PaidUpTo(P),
                              unclaimed_rewards |-> row.unclaimed_rewards + paid,
                              claimed_rewards |-> row.claimed_rewards ]]
<1> DEFINE row == voter_tbl[v]
           paid == AllocatedSum(v, row.producers \cup P, OldVotes(v))
<1>1. row.producers \cup P \in SUBSET Producers
  BY VoterRowFields
<1>2. paid \in Nat
  BY <1>1, VotesMovedType, AllocatedSumNat
<1>3. row.unclaimed_rewards + paid \in Amounts
  <2>1. row.unclaimed_rewards + paid <= MAX_AMOUNT
    BY DEF voteproducer
  <2>2. row.unclaimed_rewards \in 0..MAX_AMOUNT /\ MAX_AMOUNT \in Nat
    BY VoterRowFields, ConstantsAssumption
  <2> HIDE DEF paid
  <2> QED BY <1>2, <2>1, <2>2
<1>4. voter_tbl' = [voter_tbl EXCEPT ![v] = [row EXCEPT
         !.producers = P,
         !.last_rewards_per_vote = PaidUpTo(P),
         !.unclaimed_rewards = @ + paid]]
  BY DEF voteproducer
<1>5. [row EXCEPT !.producers = P,
                  !.last_rewards_per_vote = PaidUpTo(P),
                  !.unclaimed_rewards = @ + paid]
        = [ votes |-> row.votes,
            producers |-> P,
            last_rewards_per_vote |-> PaidUpTo(P),
            unclaimed_rewards |-> row.unclaimed_rewards + paid,
            claimed_rewards |-> row.claimed_rewards ]
  <2> HIDE DEF paid, row
  <2>1. row \in VoterRow
    BY DEF TypeOK, row
  <2> DEFINE l == PaidUpTo(P)
             u == row.unclaimed_rewards + paid
  <2> HIDE DEF l, u
  <2> DEFINE r1 == [row EXCEPT !.producers = P]
             r2 == [r1 EXCEPT !.last_rewards_per_vote = l]
             r3 == [r2 EXCEPT !.unclaimed_rewards = u]
  <2>2. r1 = [ votes |-> row.votes, producers |-> P,
               last_rewards_per_vote |-> row.last_rewards_per_vote,
               unclaimed_rewards |-> row.unclaimed_rewards,
               claimed_rewards |-> row.claimed_rewards ]
    BY <2>1 DEF VoterRow
  <2> HIDE DEF r1
  <2>3. r2 = [ votes |-> row.votes, producers |-> P,
               last_rewards_per_vote |-> l,
               unclaimed_rewards |-> row.unclaimed_rewards,
               claimed_rewards |-> row.claimed_rewards ]
    BY <2>2
  <2> HIDE DEF r2
  <2>4. r3 = [ votes |-> row.votes, producers |-> P,
               last_rewards_per_vote |-> l,
               unclaimed_rewards |-> u,
               claimed_rewards |-> row.claimed_rewards ]
    BY <2>3
  <2>5. r3 = [row EXCEPT !.producers = P, !.last_rewards_per_vote = l,
                        !.unclaimed_rewards = u]
    BY Zenon DEF r1, r2, r3
  <2> QED BY <2>4, <2>5, Zenon DEF l, u
<1> QED BY <1>2, <1>3, <1>4, <1>5

(* What claim_rewards leaves in the voter's row.                           *)
LEMMA ClaimRow ==
    ASSUME TypeOK, NEW v \in Voters, claim_rewards(v)
    PROVE  LET row == voter_tbl[v]
               last == IF row.votes > 0 THEN PaidUpTo(row.producers)
                                        ELSE row.last_rewards_per_vote
           IN  /\ claimable(v) \in Nat
               /\ row.claimed_rewards + claimable(v) \in Amounts
               /\ last \in [Producers -> Nat]
               /\ voter_tbl' = [voter_tbl EXCEPT
                     ![v] = [ votes |-> row.votes,
                              producers |-> row.producers,
                              last_rewards_per_vote |-> last,
                              unclaimed_rewards |-> 0,
                              claimed_rewards |-> row.claimed_rewards + claimable(v) ]]
<1> DEFINE row == voter_tbl[v]
           old == [p \in Producers |-> row.votes]
           last == IF row.votes > 0 THEN PaidUpTo(row.producers)
                                    ELSE row.last_rewards_per_vote
<1>1. old \in [Producers -> Nat]
  BY VoterRowFields
<1>2. AllocatedSum(v, row.producers, old) \in Nat
  <2> HIDE DEF old
  <2> QED BY <1>1, VoterRowFields, AllocatedSumNat
<1>3. row.unclaimed_rewards \in 0..MAX_AMOUNT /\ row.claimed_rewards \in 0..MAX_AMOUNT
      /\ MAX_AMOUNT \in Nat
  BY VoterRowFields, ConstantsAssumption
<1>4. claimable(v) \in Nat
  BY <1>2, <1>3 DEF claimable
<1>5. row.claimed_rewards + claimable(v) \in Amounts
  <2>1. row.claimed_rewards + claimable(v) <= MAX_AMOUNT
    BY DEF claim_rewards
  <2> QED BY <1>3, <1>4, <2>1
<1>6. last \in [Producers -> Nat]
  BY VoterRowFields, PaidUpToType
<1>7. voter_tbl' = [voter_tbl EXCEPT ![v] = [row EXCEPT
         !.last_rewards_per_vote = last,
         !.unclaimed_rewards = 0,
         !.claimed_rewards = @ + claimable(v)]]
  BY DEF claim_rewards
<1>8. [row EXCEPT !.last_rewards_per_vote = last,
                  !.unclaimed_rewards = 0,
                  !.claimed_rewards = @ + claimable(v)]
        = [ votes |-> row.votes,
            producers |-> row.producers,
            last_rewards_per_vote |-> last,
            unclaimed_rewards |-> 0,
            claimed_rewards |-> row.claimed_rewards + claimable(v) ]
  <2> HIDE DEF last, row
  <2>1. row \in VoterRow
    BY DEF TypeOK, row
  <2> QED BY <2>1, ClaimExcept
<1> QED BY <1>4, <1>5, <1>6, <1>7, <1>8

(* A reward can only raise the accumulator, by no more than it brings.     *)
LEMMA RateRises ==
    ASSUME NEW old \in Nat, NEW q \in Nat, NEW n \in Nat
    PROVE  /\ calc_rewards_per_vote(old, q, n) \in Nat
           /\ calc_rewards_per_vote(old, q, n) >= old
           /\ n * (calc_rewards_per_vote(old, q, n) - old) <= HIGH_PRECISION * q
<1> DEFINE d == (q * HIGH_PRECISION) \div n
<1>1. q * HIGH_PRECISION \in Nat /\ q * HIGH_PRECISION = HIGH_PRECISION * q
  BY ConstantsAssumption
<1>2. CASE q > 0 /\ n > 0
  <2>1. d \in Nat /\ n * d <= q * HIGH_PRECISION
    BY <1>1, <1>2, DivFloor
  <2>2. calc_rewards_per_vote(old, q, n) = old + d
    BY <1>2 DEF calc_rewards_per_vote
  <2> HIDE DEF d
  <2>3. (old + d) - old = d /\ old + d >= old /\ old + d \in Nat
    BY <2>1
  <2> QED BY <1>1, <2>1, <2>2, <2>3
<1>3. CASE ~(q > 0 /\ n > 0)
  <2>1. calc_rewards_per_vote(old, q, n) = old
    BY <1>3 DEF calc_rewards_per_vote
  <2>2. old - old = 0 /\ n * 0 = 0
    OBVIOUS
  <2> QED BY <1>1, <2>1, <2>2
<1> QED BY <1>2, <1>3

(* The producer's row after it sent a reward.                              *)
LEMMA TransferRow ==
    ASSUME TypeOK, initialized, NEW p \in Producers, NEW q \in 1..MAX_AMOUNT,
           ontransfer(p, q)
    PROVE  LET row == producer_tbl[p]
               rate == calc_rewards_per_vote(row.rewards_per_vote, q, row.votes)
           IN  /\ total_rewards' = total_rewards + q
               /\ total_rewards' \in Amounts
               /\ row.total_rewards + q \in Amounts
               /\ row.allocating_rewards + q \in Amounts
               /\ rate \in Nat
               /\ initialized' = initialized
               /\ voter_tbl' = voter_tbl
               /\ producer_tbl' = [producer_tbl EXCEPT
                     ![p] = [ is_registered |-> row.is_registered,
                              total_rewards |-> row.total_rewards + q,
                              allocating_rewards |-> row.allocating_rewards + q,
                              allocated_rewards |-> row.allocated_rewards,
                              votes |-> row.votes,
                              rewards_per_vote |-> rate ]]
<1> DEFINE row == producer_tbl[p]
           rate == calc_rewards_per_vote(row.rewards_per_vote, q, row.votes)
<1>1. row \in ProducerRow /\ total_rewards \in 0..MAX_AMOUNT /\ MAX_AMOUNT \in Nat
      /\ row.total_rewards \in 0..MAX_AMOUNT
      /\ row.allocating_rewards \in 0..MAX_AMOUNT
      /\ row.votes \in Nat /\ row.rewards_per_vote \in Nat /\ q \in Nat
  BY ConstantsAssumption DEF TypeOK, ProducerRow
<1>2. rate \in Nat
  BY <1>1, RateRises
<1>3. /\ total_rewards' = total_rewards + q
      /\ total_rewards + q <= MAX_AMOUNT
      /\ row.total_rewards + q <= MAX_AMOUNT
      /\ row.allocating_rewards + q <= MAX_AMOUNT
      /\ initialized' = initialized
      /\ voter_tbl' = voter_tbl
  BY DEF ontransfer
<1>4. producer_tbl' = [producer_tbl EXCEPT ![p] = [row EXCEPT
         !.total_rewards = @ + q,
         !.allocating_rewards = @ + q,
         !.rewards_per_vote = rate]]
  BY DEF ontransfer
<1>5. [row EXCEPT !.total_rewards = @ + q, !.allocating_rewards = @ + q,
                  !.rewards_per_vote = rate]
        = [ is_registered |-> row.is_registered,
            total_rewards |-> row.total_rewards + q,
            allocating_rewards |-> row.allocating_rewards + q,
            allocated_rewards |-> row.allocated_rewards,
            votes |-> row.votes,
            rewards_per_vote |-> rate ]
  <2> DEFINE t == row.total_rewards + q
             a == row.allocating_rewards + q
             r1 == [row EXCEPT !.total_rewards = t]
             r2 == [r1 EXCEPT !.allocating_rewards = a]
             r3 == [r2 EXCEPT !.rewards_per_vote = rate]
  <2> HIDE DEF row, rate, t, a
  <2>1. r1 = [ is_registered |-> row.is_registered,
               total_rewards |-> t,
               allocating_rewards |-> row.allocating_rewards,
               allocated_rewards |-> row.allocated_rewards,
               votes |-> row.votes,
               rewards_per_vote |-> row.rewards_per_vote ]
    BY <1>1 DEF ProducerRow
  <2> HIDE DEF r1
  <2>2. r2 = [ is_registered |-> row.is_registered,
               total_rewards |-> t,
               allocating_rewards |-> a,
               allocated_rewards |-> row.allocated_rewards,
               votes |-> row.votes,
               rewards_per_vote |-> row.rewards_per_vote ]
    BY <2>1
  <2> HIDE DEF r2
  <2>3. r3 = [ is_registered |-> row.is_registered,
               total_rewards |-> t,
               allocating_rewards |-> a,
               allocated_rewards |-> row.allocated_rewards,
               votes |-> row.votes,
               rewards_per_vote |-> rate ]
    BY <2>2
  <2>4. r3 = [row EXCEPT !.total_rewards = t, !.allocating_rewards = a,
                         !.rewards_per_vote = rate]
    BY Zenon DEF r1, r2, r3
  <2> QED BY <2>3, <2>4, Zenon DEF t, a
<1>6. /\ total_rewards' \in Amounts
      /\ row.total_rewards + q \in Amounts
      /\ row.allocating_rewards + q \in Amounts
  <2> HIDE DEF row, rate
  <2> QED BY <1>1, <1>3
<1> QED BY <1>2, <1>3, <1>4, <1>5, <1>6

-----------------------------------------------------------------------------
(* Every action leaves rows of the declared types.                         *)
LEMMA TypeInductive ==
    ASSUME TypeOK, [Next]_vars
    PROVE  TypeOK'
<1>1. CASE UNCHANGED vars
  BY <1>1 DEF vars, TypeOK
<1>2. CASE init
  BY <1>2, ConstantsAssumption DEF init, TypeOK
<1>3. ASSUME NEW p \in Producers, regproducer(p)
      PROVE  TypeOK'
  BY <1>3 DEF regproducer, TypeOK, ProducerRow
<1>4. ASSUME NEW v \in Voters, NEW n \in 1..MaxVotes, NEW adding \in BOOLEAN,
             change_vote(v, n, adding)
      PROVE  TypeOK'
  <2> DEFINE row == voter_tbl[v]
             old == [p \in Producers |-> row.votes]
             delta == [p \in Producers |-> IF adding THEN n ELSE -n]
  <2>1. old \in [Producers -> Nat] /\ delta \in [Producers -> Int]
    <3>1. row.votes \in Nat
      BY VoterRowFields
    <3>2. n \in Int /\ -n \in Int
      BY ConstantsAssumption
    <3> HIDE DEF row
    <3> QED BY <3>1, <3>2
  <2>2. allocate_producer_rewards(v, row.producers, old, delta)
    BY <1>4 DEF change_vote
  <2>3. producer_tbl' \in [Producers -> ProducerRow]
    <3> HIDE DEF old, delta
    <3> QED BY <2>1, <2>2, AllocateType, VoterRowFields
  <2>4. voter_tbl' \in [Voters -> VoterRow]
    BY <1>4, ChangeVoteRow, VoterRowFields, PaidUpToType DEF TypeOK, VoterRow
  <2>5. initialized' \in BOOLEAN /\ total_rewards' \in Amounts
    BY <1>4 DEF change_vote, TypeOK
  <2> QED BY <2>3, <2>4, <2>5 DEF TypeOK
<1>5. ASSUME NEW v \in Voters, NEW P \in SUBSET Producers, voteproducer(v, P)
      PROVE  TypeOK'
  <2> DEFINE row == voter_tbl[v]
  <2>1. allocate_producer_rewards(v, row.producers \cup P, OldVotes(v),
                                  VotesMoved(v, P))
    BY <1>5 DEF voteproducer
  <2>2. producer_tbl' \in [Producers -> ProducerRow]
    BY <2>1, AllocateType, VoterRowFields, VotesMovedType
  <2>3. voter_tbl' \in [Voters -> VoterRow]
    <3> DEFINE u == row.unclaimed_rewards
                      + AllocatedSum(v, row.producers \cup P, OldVotes(v))
    <3>1. /\ u \in Amounts
          /\ voter_tbl' = [voter_tbl EXCEPT
                ![v] = [ votes |-> row.votes, producers |-> P,
                         last_rewards_per_vote |-> PaidUpTo(P),
                         unclaimed_rewards |-> u,
                         claimed_rewards |-> row.claimed_rewards ]]
      BY <1>5, VoteproducerRow
    <3>2. /\ row.votes \in 0..MaxVotes /\ row.claimed_rewards \in Amounts
          /\ PaidUpTo(P) \in [Producers -> Nat]
      BY VoterRowFields, PaidUpToType
    <3> HIDE DEF u, row
    <3> QED BY <3>1, <3>2, VoterUpdateType
  <2>4. initialized' \in BOOLEAN /\ total_rewards' \in Amounts
    BY <1>5 DEF voteproducer, TypeOK
  <2> QED BY <2>2, <2>3, <2>4 DEF TypeOK
<1>6. ASSUME NEW v \in Voters, claim_rewards(v)
      PROVE  TypeOK'
  <2> DEFINE row == voter_tbl[v]
             settled == IF row.votes > 0 THEN row.producers ELSE {}
             old == [p \in Producers |-> row.votes]
             delta == [p \in Producers |-> 0]
  <2>1. old \in [Producers -> Nat] /\ delta \in [Producers -> Int]
        /\ settled \in SUBSET Producers
    <3>1. row.votes \in Nat /\ row.producers \in SUBSET Producers
      BY VoterRowFields
    <3> QED BY <3>1
  <2>2. allocate_producer_rewards(v, settled, old, delta)
    BY <1>6 DEF claim_rewards
  <2>3. producer_tbl' \in [Producers -> ProducerRow]
    <3> HIDE DEF old, delta, settled
    <3> QED BY <2>1, <2>2, AllocateType
  <2>4. voter_tbl' \in [Voters -> VoterRow]
    BY <1>6, ClaimRow, VoterRowFields, ConstantsAssumption DEF TypeOK, VoterRow
  <2>5. initialized' \in BOOLEAN /\ total_rewards' \in Amounts
    BY <1>6 DEF claim_rewards, TypeOK
  <2> QED BY <2>3, <2>4, <2>5 DEF TypeOK
<1>7. ASSUME NEW p \in Producers, NEW q \in 1..MAX_AMOUNT, ontransfer(p, q)
      PROVE  TypeOK'
  <2>1. CASE initialized
    <3> DEFINE row == producer_tbl[p]
               rate == calc_rewards_per_vote(row.rewards_per_vote, q, row.votes)
               new == [ is_registered |-> row.is_registered,
                        total_rewards |-> row.total_rewards + q,
                        allocating_rewards |-> row.allocating_rewards + q,
                        allocated_rewards |-> row.allocated_rewards,
                        votes |-> row.votes,
                        rewards_per_vote |-> rate ]
    <3>1. /\ total_rewards' \in Amounts
          /\ row.total_rewards + q \in Amounts
          /\ row.allocating_rewards + q \in Amounts
          /\ rate \in Nat
          /\ initialized' = initialized
          /\ voter_tbl' = voter_tbl
          /\ producer_tbl' = [producer_tbl EXCEPT ![p] = new]
      BY <1>7, <2>1, TransferRow
    <3>2. new \in ProducerRow
      <4>1. row \in ProducerRow
        BY DEF TypeOK
      <4> HIDE DEF row, rate
      <4> QED BY <3>1, <4>1 DEF ProducerRow
    <3> HIDE DEF new
    <3> QED BY <3>1, <3>2 DEF TypeOK
  <2>2. CASE ~initialized
    BY <1>7, <2>2 DEF ontransfer, TypeOK, vars
  <2> QED BY <2>1, <2>2
<1> QED
  BY <1>1, <1>2, <1>3, <1>4, <1>5, <1>6, <1>7
     DEF Next, addvote, subvote, claimrewards, claimfor

LEMMA InitTypeOK ==
    ASSUME Init PROVE TypeOK
<1>1. 0 \in Amounts /\ 0 \in 0..MaxVotes
  BY ConstantsAssumption
<1>2. initialized \in BOOLEAN /\ total_rewards \in Amounts
  BY <1>1 DEF Init
<1>3. producer_tbl \in [Producers -> ProducerRow]
  BY <1>1 DEF Init, ProducerRow
<1>4. voter_tbl \in [Voters -> VoterRow]
  <2>1. [p \in Producers |-> 0] \in [Producers -> Nat] /\ {} \in SUBSET Producers
    OBVIOUS
  <2> QED BY <1>1, <2>1 DEF Init, VoterRow
<1> QED BY <1>2, <1>3, <1>4 DEF TypeOK

(* In every state flon.reward reaches, the rows of its tables hold what    *)
(* their C++ types can hold: no amount leaves 0..MAX_AMOUNT and no vote    *)
(* count or accumulator becomes negative.                                  *)
THEOREM TypeCorrect == Spec => []TypeOK
<1>1. Init => TypeOK
  BY InitTypeOK
<1>2. TypeOK /\ [Next]_vars => TypeOK'
  BY TypeInductive
<1> QED BY <1>1, <1>2, PTL DEF Spec

-----------------------------------------------------------------------------
(* The tally and the solvency of one producer, and the inductive invariant *)
(* they need: SolvencyInv is only preserved by a settlement because a      *)
(* voter is never ahead of the accumulator (PaidUpToInv), and only         *)
(* preserved by a reward because the rate was computed from the true       *)
(* number of votes (TallyInv).                                             *)
VotesOf(p) == [v \in Voters |-> VotesOn(v, p)]

OwedBy(p) == [v \in Voters |-> Owed(v, p)]

TallyAt(p) == producer_tbl[p].votes = SumFunctionOnSet(VotesOf(p), Voters)

SolventAt(p) ==
    HIGH_PRECISION * producer_tbl[p].allocating_rewards
      >= SumFunctionOnSet(OwedBy(p), Voters)

Ind == TypeOK /\ PaidUpToInv /\ TallyInv /\ SolvencyInv

LEMMA ByProducer ==
    /\ TallyInv <=> \A p \in Producers : TallyAt(p)
    /\ SolvencyInv <=> \A p \in Producers : SolventAt(p)
BY DEF TallyInv, TallyAt, VotesOf, SolvencyInv, SolventAt, OwedBy

(* Votes and debts are naturals.                                           *)
LEMMA OwedNat ==
    ASSUME TypeOK, PaidUpToInv, NEW v \in Voters, NEW p \in Producers
    PROVE  /\ VotesOn(v, p) \in Nat
           /\ producer_tbl[p].rewards_per_vote
                - voter_tbl[v].last_rewards_per_vote[p] \in Nat
           /\ Owed(v, p) \in Nat
<1> DEFINE d == producer_tbl[p].rewards_per_vote - voter_tbl[v].last_rewards_per_vote[p]
<1>1. VotesOn(v, p) \in Nat
  BY VoterRowFields DEF VotesOn
<1>2. d \in Nat
  <2>1. /\ producer_tbl[p].rewards_per_vote \in Nat
        /\ voter_tbl[v].last_rewards_per_vote[p] \in Nat
    BY VoterRowFields DEF TypeOK, ProducerRow
  <2>2. voter_tbl[v].last_rewards_per_vote[p] <= producer_tbl[p].rewards_per_vote
    BY DEF PaidUpToInv
  <2> QED BY <2>1, <2>2
<1>3. VotesOn(v, p) * d \in Nat
  <2> HIDE DEF d
  <2> QED BY <1>1, <1>2
<1> QED BY <1>1, <1>2, <1>3 DEF Owed

(* What p owes to all its voters, and what it holds, are naturals.         *)
LEMMA OwedSumNat ==
    ASSUME TypeOK, PaidUpToInv, NEW p \in Producers
    PROVE  /\ SumFunctionOnSet(OwedBy(p), Voters) \in Nat
           /\ HIGH_PRECISION * producer_tbl[p].allocating_rewards \in Nat
<1>1. \A v \in Voters : OwedBy(p)[v] \in Nat
  BY OwedNat DEF OwedBy
<1>2. Voters \in SUBSET Voters
  OBVIOUS
<1>3. SumFunctionOnSet(OwedBy(p), Voters) \in Nat
  BY <1>1, <1>2, SumNat, ConstantsAssumption
<1>4. producer_tbl[p].allocating_rewards \in Nat /\ HIGH_PRECISION \in Nat
  BY ConstantsAssumption DEF TypeOK, ProducerRow
<1>5. HIGH_PRECISION * producer_tbl[p].allocating_rewards \in Nat
  BY <1>4
<1> QED BY <1>3, <1>5

(* A settlement never credits more than the debt it settles.               *)
LEMMA SettlesAtMost ==
    ASSUME TypeOK, PaidUpToInv, NEW v \in Voters, NEW p \in Producers
    PROVE  HIGH_PRECISION
             * new_rewards(p, VotesOn(v, p), voter_tbl[v].last_rewards_per_vote[p])
             <= Owed(v, p)
<1> DEFINE d == producer_tbl[p].rewards_per_vote - voter_tbl[v].last_rewards_per_vote[p]
           w == VotesOn(v, p)
           amount == new_rewards(p, w, voter_tbl[v].last_rewards_per_vote[p])
<1>1. w \in Nat /\ d \in Nat /\ Owed(v, p) \in Nat /\ Owed(v, p) = w * d
  BY OwedNat DEF Owed
<1>2. HIGH_PRECISION \in Nat /\ HIGH_PRECISION > 0
  BY ConstantsAssumption
<1>3. amount = IF d > 0 /\ w > 0 THEN (w * d) \div HIGH_PRECISION ELSE 0
  BY DEF new_rewards, calc_voter_rewards
<1> HIDE DEF d, w, amount
<1>4. CASE d > 0 /\ w > 0
  <2>1. HIGH_PRECISION * ((w * d) \div HIGH_PRECISION) <= w * d
    BY <1>1, <1>2, DivFloor
  <2> QED BY <1>1, <1>3, <1>4, <2>1 DEF amount, w
<1>5. CASE ~(d > 0 /\ w > 0)
  <2>1. amount = 0
    BY <1>3, <1>5
  <2>2. HIGH_PRECISION * amount <= Owed(v, p)
    BY <1>1, <1>2, <2>1
  <2> QED BY <2>2 DEF amount, w
<1> QED BY <1>4, <1>5

(* A settlement of voter v keeps producer p's tally and solvency if p's    *)
(* votes change by as much as v's vote for p, and p gives away no more     *)
(* than v's debt shrinks.                                                  *)
LEMMA SettleKeeps ==
    ASSUME TypeOK, PaidUpToInv, TypeOK', PaidUpToInv',
           NEW v \in Voters, NEW p \in Producers,
           TallyAt(p), SolventAt(p),
           \A u \in Voters \ {v} : voter_tbl'[u] = voter_tbl[u],
           producer_tbl'[p].rewards_per_vote = producer_tbl[p].rewards_per_vote,
           producer_tbl'[p].votes
             = producer_tbl[p].votes - VotesOn(v, p) + VotesOn(v, p)',
           HIGH_PRECISION * producer_tbl[p].allocating_rewards
               - HIGH_PRECISION * producer_tbl'[p].allocating_rewards
             <= Owed(v, p) - Owed(v, p)'
    PROVE  TallyAt(p)' /\ SolventAt(p)'
<1> DEFINE f == VotesOf(p)
           h == VotesOf(p)'
           o == OwedBy(p)
           k == OwedBy(p)'
<1>1. /\ IntOn(f, Voters) /\ h[v] \in Int
      /\ f[v] = VotesOn(v, p) /\ h[v] = VotesOn(v, p)'
      /\ \A u \in Voters \ {v} : h[u] = f[u]
  <2>1. \A u \in Voters : VotesOn(u, p) \in Nat
    BY OwedNat
  <2>2. VotesOn(v, p)' \in Nat
    BY VoterRowFields DEF VotesOn, TypeOK, VoterRow
  <2>3. \A u \in Voters \ {v} : VotesOn(u, p)' = VotesOn(u, p)
    BY DEF VotesOn
  <2> QED BY <2>1, <2>2, <2>3 DEF IntOn, VotesOf
<1>2. /\ IntOn(o, Voters) /\ k[v] \in Int
      /\ o[v] = Owed(v, p) /\ k[v] = Owed(v, p)'
      /\ \A u \in Voters \ {v} : k[u] = o[u]
  <2>1. \A u \in Voters : Owed(u, p) \in Nat
    BY OwedNat
  <2>2. Owed(v, p)' \in Int
    <3>1. VotesOn(v, p)' \in Nat
      BY DEF VotesOn, TypeOK, VoterRow
    <3>2. /\ producer_tbl'[p].rewards_per_vote \in Nat
          /\ voter_tbl'[v].last_rewards_per_vote[p] \in Nat
      BY DEF TypeOK, VoterRow, ProducerRow
    <3> QED BY <3>1, <3>2 DEF Owed
  <2>3. \A u \in Voters \ {v} : Owed(u, p)' = Owed(u, p)
    BY DEF VotesOn, Owed
  <2> QED BY <2>1, <2>2, <2>3 DEF IntOn, OwedBy
<1> HIDE DEF f, h, o, k
<1>3. /\ SumFunctionOnSet(h, Voters) = SumFunctionOnSet(f, Voters) - f[v] + h[v]
      /\ SumFunctionOnSet(f, Voters) \in Int
  BY <1>1, SumUpdate, ConstantsAssumption
<1>4. /\ SumFunctionOnSet(k, Voters) = SumFunctionOnSet(o, Voters) - o[v] + k[v]
      /\ SumFunctionOnSet(o, Voters) \in Int
  BY <1>2, SumUpdate, ConstantsAssumption
<1>5. producer_tbl'[p].votes = SumFunctionOnSet(h, Voters)
  BY <1>1, <1>3 DEF TallyAt, f
<1>6. HIGH_PRECISION * producer_tbl'[p].allocating_rewards
        >= SumFunctionOnSet(k, Voters)
  <2> DEFINE A == HIGH_PRECISION * producer_tbl[p].allocating_rewards
             B == HIGH_PRECISION * producer_tbl'[p].allocating_rewards
  <2>1. A \in Int /\ B \in Int
    BY ConstantsAssumption DEF TypeOK, ProducerRow
  <2>2. A >= SumFunctionOnSet(o, Voters)
    BY DEF SolventAt, o
  <2>3. A - B <= o[v] - k[v] /\ o[v] \in Int /\ k[v] \in Int
    BY <1>2 DEF IntOn
  <2> HIDE DEF A, B
  <2>4. B >= SumFunctionOnSet(k, Voters)
    BY <1>4, <2>1, <2>2, <2>3
  <2> QED BY <2>4 DEF B
<1> QED BY <1>5, <1>6 DEF TallyAt, SolventAt, h, k

(* allocate_producer_rewards keeps every tally and every solvency if it is *)
(* told the voter's true old votes and their true change, and the voter's  *)
(* accumulator values are stored.                                          *)
LEMMA AllocateKeeps ==
    ASSUME Ind, TypeOK', PaidUpToInv',
           NEW v \in Voters, NEW P \in SUBSET Producers,
           NEW old \in [Producers -> Nat], NEW delta \in [Producers -> Int],
           allocate_producer_rewards(v, P, old, delta),
           \A u \in Voters \ {v} : voter_tbl'[u] = voter_tbl[u],
           \A p \in P :
              /\ old[p] = VotesOn(v, p)
              /\ VotesOn(v, p)' = VotesOn(v, p) + delta[p]
              /\ \/ voter_tbl'[v].last_rewards_per_vote[p]
                      = producer_tbl[p].rewards_per_vote
                 \/ VotesOn(v, p)' = 0,
           \A p \in Producers \ P : VotesOn(v, p) = 0 /\ VotesOn(v, p)' = 0
    PROVE  TallyInv' /\ SolvencyInv'
<1> USE DEF Ind
<1> SUFFICES ASSUME NEW p \in Producers
             PROVE  TallyAt(p)' /\ SolventAt(p)'
  BY DEF TallyInv, TallyAt, VotesOf, SolvencyInv, SolventAt, OwedBy
<1> DEFINE last == voter_tbl[v].last_rewards_per_vote[p]
           amount == new_rewards(p, old[p], last)
           row == producer_tbl[p]
<1>1. TallyAt(p) /\ SolventAt(p)
  BY ByProducer
<1>2. /\ VotesOn(v, p) \in Nat /\ Owed(v, p) \in Nat
      /\ row.rewards_per_vote \in Nat /\ row.votes \in Nat
      /\ row.allocating_rewards \in Nat
      /\ HIGH_PRECISION \in Nat
  BY OwedNat, ConstantsAssumption DEF TypeOK, ProducerRow
<1>3. CASE p \in P
  <2>1. /\ amount \in Nat
        /\ row.allocating_rewards >= amount
        /\ producer_tbl'[p] =
              [ is_registered |-> row.is_registered,
                total_rewards |-> row.total_rewards,
                allocating_rewards |-> row.allocating_rewards - amount,
                allocated_rewards |-> row.allocated_rewards + amount,
                votes |-> row.votes + delta[p],
                rewards_per_vote |-> row.rewards_per_vote ]
    BY <1>3, AllocateRow
  <2>2. HIGH_PRECISION * amount <= Owed(v, p)
    BY <1>3, SettlesAtMost
  <2> HIDE DEF amount
  <2>3. /\ producer_tbl'[p].rewards_per_vote = row.rewards_per_vote
        /\ producer_tbl'[p].votes = row.votes + delta[p]
        /\ producer_tbl'[p].allocating_rewards = row.allocating_rewards - amount
    BY <2>1
  <2>4. producer_tbl'[p].votes = row.votes - VotesOn(v, p) + VotesOn(v, p)'
    <3>1. delta[p] \in Int
      OBVIOUS
    <3> QED BY <1>2, <1>3, <2>3, <3>1
  <2>5. Owed(v, p)' = 0
    <3>1. CASE VotesOn(v, p)' = 0
      <4>1. producer_tbl'[p].rewards_per_vote
              - voter_tbl'[v].last_rewards_per_vote[p] \in Int
        BY DEF TypeOK, ProducerRow, VoterRow
      <4> QED BY <3>1, <4>1 DEF Owed
    <3>2. CASE voter_tbl'[v].last_rewards_per_vote[p] = row.rewards_per_vote
      <4>1. producer_tbl'[p].rewards_per_vote
              - voter_tbl'[v].last_rewards_per_vote[p] = 0
        BY <1>2, <2>3, <3>2
      <4>2. VotesOn(v, p)' \in Nat
        BY DEF VotesOn, TypeOK, VoterRow
      <4> QED BY <4>1, <4>2 DEF Owed
    <3> QED BY <1>3, <3>1, <3>2
  <2>6. HIGH_PRECISION * row.allocating_rewards
          - HIGH_PRECISION * producer_tbl'[p].allocating_rewards
          <= Owed(v, p) - Owed(v, p)'
    <3>1. HIGH_PRECISION * row.allocating_rewards
            - HIGH_PRECISION * (row.allocating_rewards - amount)
            = HIGH_PRECISION * amount
      <4> HIDE DEF row
      <4> QED BY <1>2, <2>1
    <3> QED BY <1>2, <2>1, <2>2, <2>3, <2>5, <3>1
  <2> QED BY <1>1, <2>3, <2>4, <2>6, SettleKeeps
<1>4. CASE p \notin P
  <2>1. producer_tbl'[p] = row
    BY <1>4, AllocateType
  <2>2. VotesOn(v, p) = 0 /\ VotesOn(v, p)' = 0
    BY <1>4
  <2>3. Owed(v, p) = 0 /\ Owed(v, p)' = 0
    <3>1. /\ producer_tbl[p].rewards_per_vote
               - voter_tbl[v].last_rewards_per_vote[p] \in Int
          /\ producer_tbl'[p].rewards_per_vote
               - voter_tbl'[v].last_rewards_per_vote[p] \in Int
      BY DEF TypeOK, ProducerRow, VoterRow
    <3> QED BY <2>2, <3>1 DEF Owed
  <2>4. producer_tbl'[p].votes = row.votes - VotesOn(v, p) + VotesOn(v, p)'
    BY <1>2, <2>1, <2>2
  <2>5. HIGH_PRECISION * row.allocating_rewards
          - HIGH_PRECISION * producer_tbl'[p].allocating_rewards
          <= Owed(v, p) - Owed(v, p)'
    <3>1. HIGH_PRECISION * row.allocating_rewards \in Int
      BY <1>2
    <3> QED BY <2>1, <2>3, <3>1
  <2> QED BY <1>1, <2>1, <2>4, <2>5, SettleKeeps
<1> QED BY <1>3, <1>4

(* A voter row that stores PaidUpTo keeps PaidUpToInv.                     *)
LEMMA PaidUpToKept ==
    ASSUME TypeOK, PaidUpToInv, NEW v \in Voters,
           \A u \in Voters \ {v} : voter_tbl'[u] = voter_tbl[u],
           \A p \in Producers :
              producer_tbl'[p].rewards_per_vote = producer_tbl[p].rewards_per_vote,
           \/ voter_tbl'[v].last_rewards_per_vote = PaidUpTo(voter_tbl'[v].producers)
           \/ /\ voter_tbl'[v].last_rewards_per_vote = voter_tbl[v].last_rewards_per_vote
              /\ voter_tbl'[v].producers = voter_tbl[v].producers
    PROVE  PaidUpToInv'
<1> SUFFICES ASSUME NEW u \in Voters, NEW p \in Producers
             PROVE  /\ voter_tbl'[u].last_rewards_per_vote[p]
                         <= producer_tbl'[p].rewards_per_vote
                    /\ p \notin voter_tbl'[u].producers =>
                         voter_tbl'[u].last_rewards_per_vote[p] = 0
  BY DEF PaidUpToInv
<1>1. /\ voter_tbl[u].last_rewards_per_vote[p] <= producer_tbl[p].rewards_per_vote
      /\ p \notin voter_tbl[u].producers =>
            voter_tbl[u].last_rewards_per_vote[p] = 0
  BY DEF PaidUpToInv
<1>2. producer_tbl[p].rewards_per_vote \in Nat
  BY DEF TypeOK, ProducerRow
<1>3. CASE u # v
  BY <1>1, <1>3
<1>4. CASE u = v /\ voter_tbl'[v].last_rewards_per_vote = PaidUpTo(voter_tbl'[v].producers)
  <2>1. voter_tbl'[v].last_rewards_per_vote[p]
          = IF p \in voter_tbl'[v].producers THEN producer_tbl[p].rewards_per_vote ELSE 0
    BY <1>4 DEF PaidUpTo
  <2> QED BY <1>2, <1>4, <2>1
<1>5. CASE /\ u = v
           /\ voter_tbl'[v].last_rewards_per_vote = voter_tbl[v].last_rewards_per_vote
           /\ voter_tbl'[v].producers = voter_tbl[v].producers
  BY <1>1, <1>5
<1> QED BY <1>3, <1>4, <1>5

(* allocate_producer_rewards changes no accumulator.                       *)
LEMMA AllocateRate ==
    ASSUME TypeOK, NEW v \in Voters, NEW P \in SUBSET Producers,
           NEW old \in [Producers -> Nat], NEW delta \in [Producers -> Int],
           allocate_producer_rewards(v, P, old, delta), NEW p \in Producers
    PROVE  producer_tbl'[p].rewards_per_vote = producer_tbl[p].rewards_per_vote
<1>1. CASE p \in P
  <2> DEFINE amount == new_rewards(p, old[p], voter_tbl[v].last_rewards_per_vote[p])
             row == producer_tbl[p]
  <2>1. producer_tbl'[p] =
          [ is_registered |-> row.is_registered,
            total_rewards |-> row.total_rewards,
            allocating_rewards |-> row.allocating_rewards - amount,
            allocated_rewards |-> row.allocated_rewards + amount,
            votes |-> row.votes + delta[p],
            rewards_per_vote |-> row.rewards_per_vote ]
    BY <1>1, AllocateRow
  <2> HIDE DEF amount
  <2> QED BY <2>1
<1>2. CASE p \notin P
  BY <1>2, AllocateType
<1> QED BY <1>1, <1>2

(* A reward raises the accumulator of its producer by no more than the     *)
(* producer's votes let it pay.                                            *)
LEMMA TransferKeeps ==
    ASSUME Ind, NEW from \in Producers, NEW q \in 1..MAX_AMOUNT,
           ontransfer(from, q), initialized
    PROVE  /\ PaidUpToInv' /\ TallyInv' /\ SolvencyInv'
           /\ \A p \in Producers : Stranded(p)' >= Stranded(p)
<1> USE DEF Ind
<1> DEFINE row == producer_tbl[from]
           rate == calc_rewards_per_vote(row.rewards_per_vote, q, row.votes)
           d == rate - row.rewards_per_vote
<1>1. /\ row.votes \in Nat /\ row.rewards_per_vote \in Nat
      /\ row.allocating_rewards \in Nat
      /\ q \in Nat /\ HIGH_PRECISION \in Nat
  BY ConstantsAssumption DEF TypeOK, ProducerRow
<1>2. /\ voter_tbl' = voter_tbl
      /\ producer_tbl' = [producer_tbl EXCEPT
            ![from] = [ is_registered |-> row.is_registered,
                        total_rewards |-> row.total_rewards + q,
                        allocating_rewards |-> row.allocating_rewards + q,
                        allocated_rewards |-> row.allocated_rewards,
                        votes |-> row.votes,
                        rewards_per_vote |-> rate ]]
  BY TransferRow
<1>3. rate \in Nat /\ rate >= row.rewards_per_vote /\ row.votes * d <= HIGH_PRECISION * q
  BY <1>1, RateRises
<1> HIDE DEF rate
<1>4. /\ producer_tbl'[from].rewards_per_vote = rate
      /\ producer_tbl'[from].votes = row.votes
      /\ producer_tbl'[from].allocating_rewards = row.allocating_rewards + q
      /\ \A p \in Producers \ {from} : producer_tbl'[p] = producer_tbl[p]
  BY <1>2 DEF TypeOK
<1>5. \A p \in Producers : producer_tbl'[p].rewards_per_vote \in Nat
        /\ producer_tbl[p].rewards_per_vote \in Nat
        /\ producer_tbl'[p].rewards_per_vote >= producer_tbl[p].rewards_per_vote
  <2>1. \A p \in Producers : producer_tbl[p].rewards_per_vote \in Nat
    BY DEF TypeOK, ProducerRow
  <2> QED BY <1>3, <1>4, <2>1
<1>6. PaidUpToInv'
  <2> SUFFICES ASSUME NEW u \in Voters, NEW p \in Producers
               PROVE  /\ voter_tbl[u].last_rewards_per_vote[p]
                           <= producer_tbl'[p].rewards_per_vote
                      /\ p \notin voter_tbl[u].producers =>
                           voter_tbl[u].last_rewards_per_vote[p] = 0
    BY <1>2 DEF PaidUpToInv
  <2>1. /\ voter_tbl[u].last_rewards_per_vote[p] <= producer_tbl[p].rewards_per_vote
        /\ p \notin voter_tbl[u].producers =>
              voter_tbl[u].last_rewards_per_vote[p] = 0
    BY DEF PaidUpToInv
  <2>2. voter_tbl[u].last_rewards_per_vote[p] \in Nat
    BY VoterRowFields
  <2> QED BY <1>5, <2>1, <2>2
<1>7. ASSUME NEW p \in Producers PROVE TallyAt(p)'
  <2>1. producer_tbl'[p].votes = producer_tbl[p].votes
    BY <1>4
  <2>2. VotesOf(p)' = VotesOf(p)
    BY <1>2 DEF VotesOf, VotesOn
  <2>3. TallyAt(p)
    BY ByProducer
  <2> QED BY <2>1, <2>2, <2>3 DEF TallyAt
<1>8. ASSUME NEW p \in Producers
      PROVE  SolventAt(p)' /\ Stranded(p)' >= Stranded(p)
  <2>1. SolventAt(p) /\ TallyAt(p)
    BY ByProducer
  <2>2. CASE p # from
    <3>1. OwedBy(p)' = OwedBy(p)
      BY <1>2, <1>4, <2>2 DEF OwedBy, Owed, VotesOn
    <3>2. producer_tbl'[p] = producer_tbl[p]
      BY <1>4, <2>2
    <3>3. Stranded(p)' = Stranded(p)
      BY <3>1, <3>2 DEF Stranded, OwedBy
    <3>4. Stranded(p) \in Int
      BY OwedSumNat DEF Stranded, OwedBy
    <3> QED BY <2>1, <3>1, <3>2, <3>3, <3>4 DEF SolventAt
  <2>3. CASE p = from
    <3> DEFINE f == OwedBy(p)
               g == VotesOf(p)
               h == OwedBy(p)'
    <3>1. \A u \in Voters : f[u] \in Nat /\ g[u] \in Nat /\ h[u] = f[u] + d * g[u]
      <4> SUFFICES ASSUME NEW u \in Voters
                   PROVE  f[u] \in Nat /\ g[u] \in Nat /\ h[u] = f[u] + d * g[u]
        OBVIOUS
      <4> DEFINE w == VotesOn(u, p)
                 last == voter_tbl[u].last_rewards_per_vote[p]
      <4>1. w \in Nat /\ last \in Nat /\ Owed(u, p) \in Nat
        BY OwedNat, VoterRowFields
      <4>2. f[u] = w * (row.rewards_per_vote - last) /\ g[u] = w
        BY <2>3 DEF OwedBy, VotesOf, Owed
      <4>3. h[u] = w * (rate - last)
        BY <1>2, <1>4, <2>3 DEF OwedBy, Owed, VotesOn
      <4>4. f[u] = Owed(u, p)
        BY DEF OwedBy
      <4> DEFINE x == row.rewards_per_vote
      <4>5. x \in Nat
        BY <1>1
      <4> HIDE DEF w, last, f, g, h, x
      <4>6. w * (rate - last) = w * (x - last) + (rate - x) * w
        BY <1>3, <4>1, <4>5
      <4> QED BY <4>1, <4>2, <4>3, <4>4, <4>6 DEF x
    <3>2. d \in Nat
      BY <1>1, <1>3
    <3> HIDE DEF f, g, h, d
    <3>3. /\ SumFunctionOnSet(h, Voters)
               = SumFunctionOnSet(f, Voters) + d * SumFunctionOnSet(g, Voters)
      BY <3>1, <3>2, SumLinear, ConstantsAssumption DEF IntOn
    <3>4. SumFunctionOnSet(f, Voters) \in Int /\ SumFunctionOnSet(g, Voters) \in Int
      BY <3>1, SumInt, ConstantsAssumption DEF IntOn
    <3>5. /\ SumFunctionOnSet(g, Voters) = row.votes
          /\ HIGH_PRECISION * row.allocating_rewards >= SumFunctionOnSet(f, Voters)
      BY <2>1, <2>3 DEF TallyAt, SolventAt, f, g
    <3>6. d * row.votes <= HIGH_PRECISION * q
      <4>1. d * row.votes = row.votes * d
        BY <1>1, <3>2
      <4> QED BY <1>3, <4>1 DEF d
    <3>7. HIGH_PRECISION * (row.allocating_rewards + q)
            = HIGH_PRECISION * row.allocating_rewards + HIGH_PRECISION * q
      <4> HIDE DEF row
      <4> QED BY <1>1
    <3>8. /\ HIGH_PRECISION * (row.allocating_rewards + q) >= SumFunctionOnSet(h, Voters)
          /\ HIGH_PRECISION * (row.allocating_rewards + q) - SumFunctionOnSet(h, Voters)
               >= HIGH_PRECISION * row.allocating_rewards - SumFunctionOnSet(f, Voters)
      <4> DEFINE A == HIGH_PRECISION * row.allocating_rewards
                 B == HIGH_PRECISION * q
                 C == d * row.votes
      <4>1. A \in Int /\ B \in Int /\ C \in Int
        BY <1>1, <3>2
      <4>2. SumFunctionOnSet(h, Voters) = SumFunctionOnSet(f, Voters) + C
        BY <3>3, <3>5
      <4> HIDE DEF A, B, C
      <4>3. /\ A + B >= SumFunctionOnSet(h, Voters)
            /\ (A + B) - SumFunctionOnSet(h, Voters) >= A - SumFunctionOnSet(f, Voters)
        BY <3>4, <3>5, <3>6, <4>1, <4>2 DEF A, B, C
      <4> QED BY <3>7, <4>3 DEF A, B
    <3>9. Stranded(p)' >= Stranded(p)
      BY <1>4, <2>3, <3>8 DEF Stranded, OwedBy, f, h
    <3> QED BY <1>4, <2>3, <3>8, <3>9 DEF SolventAt, h
  <2> QED BY <2>2, <2>3
<1>9. TallyInv' /\ SolvencyInv'
  BY <1>7, <1>8 DEF TallyInv, TallyAt, VotesOf, SolvencyInv, SolventAt, OwedBy
<1> QED BY <1>6, <1>8, <1>9

-----------------------------------------------------------------------------
LEMMA InitInd == Init => Ind
<1> SUFFICES ASSUME Init PROVE Ind
  OBVIOUS
<1>1. TypeOK
  BY InitTypeOK
<1>2. PaidUpToInv
  BY DEF Init, PaidUpToInv
<1>3. ASSUME NEW p \in Producers PROVE TallyAt(p) /\ SolventAt(p)
  <2>1. \A v \in Voters : VotesOf(p)[v] = 0 /\ OwedBy(p)[v] = 0
    BY <1>3 DEF Init, VotesOf, OwedBy, Owed, VotesOn
  <2>2. SumFunctionOnSet(VotesOf(p), Voters) = 0
    BY <2>1, SumZero, ConstantsAssumption
  <2>3. SumFunctionOnSet(OwedBy(p), Voters) = 0
    BY <2>1, SumZero, ConstantsAssumption
  <2>4. producer_tbl[p].votes = 0 /\ producer_tbl[p].allocating_rewards = 0
    BY <1>3 DEF Init
  <2> QED BY <2>2, <2>3, <2>4, ConstantsAssumption DEF TallyAt, SolventAt
<1> QED BY <1>1, <1>2, <1>3, ByProducer DEF Ind

(* A producer that neither wins nor loses rows: nothing the invariant      *)
(* reads has changed.                                                      *)
LEMMA IndUnchanged ==
    ASSUME Ind, TypeOK', voter_tbl' = voter_tbl,
           \A p \in Producers :
              /\ producer_tbl'[p].votes = producer_tbl[p].votes
              /\ producer_tbl'[p].rewards_per_vote = producer_tbl[p].rewards_per_vote
              /\ producer_tbl'[p].allocating_rewards
                   = producer_tbl[p].allocating_rewards
    PROVE  Ind'
<1> USE DEF Ind
<1>1. PaidUpToInv'
  BY DEF PaidUpToInv
<1>2. ASSUME NEW p \in Producers PROVE TallyAt(p)' /\ SolventAt(p)'
  <2>1. VotesOf(p)' = VotesOf(p) /\ OwedBy(p)' = OwedBy(p)
    BY DEF VotesOf, OwedBy, Owed, VotesOn
  <2>2. TallyAt(p) /\ SolventAt(p)
    BY ByProducer
  <2> QED BY <2>1, <2>2 DEF TallyAt, SolventAt
<1>3. TallyInv' /\ SolvencyInv'
  BY <1>2 DEF TallyInv, TallyAt, VotesOf, SolvencyInv, SolventAt, OwedBy
<1> QED BY <1>1, <1>3

LEMMA ChangeVoteInd ==
    ASSUME Ind, TypeOK', NEW v \in Voters, NEW n \in 1..MaxVotes,
           NEW adding \in BOOLEAN, change_vote(v, n, adding)
    PROVE  Ind'
<1> USE DEF Ind
<1> DEFINE row == voter_tbl[v]
           change == IF adding THEN n ELSE -n
           old == [p \in Producers |-> row.votes]
           delta == [p \in Producers |-> change]
           paid == AllocatedSum(v, row.producers, old)
<1>1. row.votes \in Nat /\ row.producers \in SUBSET Producers
  BY VoterRowFields
<1>2. change \in Int
  BY ConstantsAssumption
<1>3. old \in [Producers -> Nat] /\ delta \in [Producers -> Int]
  <2> HIDE DEF row, change
  <2> QED BY <1>1, <1>2
<1>4. allocate_producer_rewards(v, row.producers, old, delta)
  BY DEF change_vote
<1>5. voter_tbl' = [voter_tbl EXCEPT
         ![v] = [ votes |-> row.votes + change,
                  producers |-> row.producers,
                  last_rewards_per_vote |-> PaidUpTo(row.producers),
                  unclaimed_rewards |-> row.unclaimed_rewards + paid,
                  claimed_rewards |-> row.claimed_rewards ]]
  BY ChangeVoteRow
<1> HIDE DEF paid, change
<1>6. /\ voter_tbl'[v].votes = row.votes + change
      /\ voter_tbl'[v].producers = row.producers
      /\ voter_tbl'[v].last_rewards_per_vote = PaidUpTo(row.producers)
      /\ \A u \in Voters \ {v} : voter_tbl'[u] = voter_tbl[u]
  BY <1>5 DEF TypeOK
<1>7. PaidUpToInv'
  <2>1. \A p \in Producers :
           producer_tbl'[p].rewards_per_vote = producer_tbl[p].rewards_per_vote
    <3> HIDE DEF old, delta
    <3> QED BY <1>1, <1>3, <1>4, AllocateRate
  <2> QED BY <1>6, <2>1, PaidUpToKept
<1>8. \A p \in row.producers :
         /\ old[p] = VotesOn(v, p)
         /\ VotesOn(v, p)' = VotesOn(v, p) + delta[p]
         /\ voter_tbl'[v].last_rewards_per_vote[p] = producer_tbl[p].rewards_per_vote
  BY <1>1, <1>6 DEF VotesOn, PaidUpTo
<1>9. \A p \in Producers \ row.producers : VotesOn(v, p) = 0 /\ VotesOn(v, p)' = 0
  BY <1>6 DEF VotesOn
<1>10. TallyInv' /\ SolvencyInv'
  <2> HIDE DEF old, delta
  <2> QED BY <1>1, <1>3, <1>4, <1>6, <1>7, <1>8, <1>9, AllocateKeeps
<1> QED BY <1>7, <1>10

LEMMA VoteproducerInd ==
    ASSUME Ind, TypeOK', NEW v \in Voters, NEW P \in SUBSET Producers,
           voteproducer(v, P)
    PROVE  Ind'
<1> USE DEF Ind
<1> DEFINE row == voter_tbl[v]
           all == row.producers \cup P
           old == OldVotes(v)
           delta == VotesMoved(v, P)
           unclaimed == row.unclaimed_rewards + AllocatedSum(v, all, old)
<1>1. /\ row.votes \in Nat /\ row.producers \in SUBSET Producers
      /\ all \in SUBSET Producers
  BY VoterRowFields
<1>2. old \in [Producers -> Nat] /\ delta \in [Producers -> Int]
  BY VotesMovedType
<1>3. allocate_producer_rewards(v, all, old, delta)
  BY DEF voteproducer
<1>4. voter_tbl' = [voter_tbl EXCEPT
         ![v] = [ votes |-> row.votes,
                  producers |-> P,
                  last_rewards_per_vote |-> PaidUpTo(P),
                  unclaimed_rewards |-> unclaimed,
                  claimed_rewards |-> row.claimed_rewards ]]
  BY VoteproducerRow
<1> HIDE DEF unclaimed
<1>5. /\ voter_tbl'[v].votes = row.votes
      /\ voter_tbl'[v].producers = P
      /\ voter_tbl'[v].last_rewards_per_vote = PaidUpTo(P)
      /\ \A u \in Voters \ {v} : voter_tbl'[u] = voter_tbl[u]
  BY <1>4 DEF TypeOK
<1>6. PaidUpToInv'
  <2>1. \A p \in Producers :
           producer_tbl'[p].rewards_per_vote = producer_tbl[p].rewards_per_vote
    <3> HIDE DEF old, delta, all
    <3> QED BY <1>1, <1>2, <1>3, AllocateRate
  <2> QED BY <1>5, <2>1, PaidUpToKept
<1>7. ASSUME NEW p \in all
      PROVE  /\ old[p] = VotesOn(v, p)
             /\ VotesOn(v, p)' = VotesOn(v, p) + delta[p]
             /\ \/ voter_tbl'[v].last_rewards_per_vote[p]
                     = producer_tbl[p].rewards_per_vote
                \/ VotesOn(v, p)' = 0
  <2>1. p \in Producers
    BY <1>1, <1>7
  <2>2. old[p] = VotesOn(v, p)
    BY <2>1 DEF OldVotes, VotesOn
  <2>3. VotesOn(v, p)' = IF p \in P THEN row.votes ELSE 0
    BY <1>5 DEF VotesOn
  <2>4. VotesOn(v, p)' = VotesOn(v, p) + delta[p]
    <3>1. CASE p \in row.producers \ P
      <4>1. delta[p] = -row.votes
        BY <2>1, <3>1 DEF VotesMoved
      <4> QED BY <1>1, <2>3, <3>1, <4>1 DEF VotesOn
    <3>2. CASE p \in P \ row.producers
      <4>1. delta[p] = row.votes
        BY <2>1, <3>2 DEF VotesMoved
      <4> QED BY <1>1, <2>3, <3>2, <4>1 DEF VotesOn
    <3>3. CASE p \in P \cap row.producers
      <4>1. delta[p] = 0
        BY <2>1, <3>3 DEF VotesMoved
      <4> QED BY <1>1, <2>3, <3>3, <4>1 DEF VotesOn
    <3> QED BY <1>7, <3>1, <3>2, <3>3
  <2>5. \/ voter_tbl'[v].last_rewards_per_vote[p] = producer_tbl[p].rewards_per_vote
        \/ VotesOn(v, p)' = 0
    BY <1>5, <2>1, <2>3 DEF PaidUpTo
  <2> QED BY <2>2, <2>4, <2>5
<1>8. \A p \in Producers \ all : VotesOn(v, p) = 0 /\ VotesOn(v, p)' = 0
  BY <1>5 DEF VotesOn
<1>9. TallyInv' /\ SolvencyInv'
  <2> HIDE DEF old, delta, all
  <2> QED BY <1>1, <1>2, <1>3, <1>5, <1>6, <1>7, <1>8, AllocateKeeps
<1> QED BY <1>6, <1>9

LEMMA ClaimInd ==
    ASSUME Ind, TypeOK', NEW v \in Voters, claim_rewards(v)
    PROVE  Ind'
<1> USE DEF Ind
<1> DEFINE row == voter_tbl[v]
           settled == IF row.votes > 0 THEN row.producers ELSE {}
           old == [p \in Producers |-> row.votes]
           delta == [p \in Producers |-> 0]
           last == IF row.votes > 0 THEN PaidUpTo(row.producers)
                                    ELSE row.last_rewards_per_vote
           claimed == row.claimed_rewards + claimable(v)
<1>1. row.votes \in Nat /\ row.producers \in SUBSET Producers
  BY VoterRowFields
<1>2. old \in [Producers -> Nat] /\ delta \in [Producers -> Int]
      /\ settled \in SUBSET Producers
  <2> HIDE DEF row
  <2> QED BY <1>1
<1>3. allocate_producer_rewards(v, settled, old, delta)
  BY DEF claim_rewards
<1>4. voter_tbl' = [voter_tbl EXCEPT
         ![v] = [ votes |-> row.votes,
                  producers |-> row.producers,
                  last_rewards_per_vote |-> last,
                  unclaimed_rewards |-> 0,
                  claimed_rewards |-> claimed ]]
  BY ClaimRow
<1> HIDE DEF last, claimed
<1>5. /\ voter_tbl'[v].votes = row.votes
      /\ voter_tbl'[v].producers = row.producers
      /\ voter_tbl'[v].last_rewards_per_vote = last
      /\ \A u \in Voters \ {v} : voter_tbl'[u] = voter_tbl[u]
  BY <1>4 DEF TypeOK
<1>6. PaidUpToInv'
  <2>1. \A p \in Producers :
           producer_tbl'[p].rewards_per_vote = producer_tbl[p].rewards_per_vote
    <3> HIDE DEF old, delta, settled
    <3> QED BY <1>1, <1>2, <1>3, AllocateRate
  <2>2. last = PaidUpTo(voter_tbl'[v].producers) \/ last = row.last_rewards_per_vote
    BY <1>5 DEF last
  <2> QED BY <1>5, <2>1, <2>2, PaidUpToKept
<1>7. \A p \in settled :
         /\ old[p] = VotesOn(v, p)
         /\ VotesOn(v, p)' = VotesOn(v, p) + delta[p]
         /\ voter_tbl'[v].last_rewards_per_vote[p] = producer_tbl[p].rewards_per_vote
  BY <1>1, <1>5 DEF VotesOn, PaidUpTo, last
<1>8. \A p \in Producers \ settled : VotesOn(v, p) = 0 /\ VotesOn(v, p)' = 0
  BY <1>1, <1>5 DEF VotesOn
<1>9. TallyInv' /\ SolvencyInv'
  <2> HIDE DEF old, delta, settled
  <2> QED BY <1>1, <1>2, <1>3, <1>5, <1>6, <1>7, <1>8, AllocateKeeps
<1> QED BY <1>6, <1>9

(* Every action preserves the inductive invariant.                         *)
LEMMA NextInd ==
    ASSUME Ind, [Next]_vars
    PROVE  Ind'
<1>1. TypeOK'
  BY TypeInductive DEF Ind
<1>2. CASE UNCHANGED vars
  BY <1>1, <1>2, IndUnchanged DEF vars
<1>3. CASE init
  BY <1>1, <1>3, IndUnchanged DEF init
<1>4. ASSUME NEW p \in Producers, regproducer(p)
      PROVE  Ind'
  <2>1. voter_tbl' = voter_tbl
    BY <1>4 DEF regproducer
  <2>2. \A r \in Producers :
          /\ producer_tbl'[r].votes = producer_tbl[r].votes
          /\ producer_tbl'[r].rewards_per_vote = producer_tbl[r].rewards_per_vote
          /\ producer_tbl'[r].allocating_rewards = producer_tbl[r].allocating_rewards
    BY <1>4 DEF regproducer, Ind, TypeOK, ProducerRow
  <2> QED BY <1>1, <2>1, <2>2, IndUnchanged
<1>5. ASSUME NEW v \in Voters, NEW n \in 1..MaxVotes, NEW adding \in BOOLEAN,
             change_vote(v, n, adding)
      PROVE  Ind'
  BY <1>1, <1>5, ChangeVoteInd
<1>6. ASSUME NEW v \in Voters, NEW P \in SUBSET Producers, voteproducer(v, P)
      PROVE  Ind'
  BY <1>1, <1>6, VoteproducerInd
<1>7. ASSUME NEW v \in Voters, claim_rewards(v)
      PROVE  Ind'
  BY <1>1, <1>7, ClaimInd
<1>8. ASSUME NEW p \in Producers, NEW q \in 1..MAX_AMOUNT, ontransfer(p, q)
      PROVE  Ind'
  <2>1. CASE initialized
    BY <1>1, <1>8, <2>1, TransferKeeps DEF Ind
  <2>2. CASE ~initialized
    BY <1>1, <1>8, <2>2, IndUnchanged DEF ontransfer, vars
  <2> QED BY <2>1, <2>2
<1> QED
  BY <1>2, <1>3, <1>4, <1>5, <1>6, <1>7, <1>8
     DEF Next, addvote, subvote, claimrewards, claimfor

(* The inductive invariant holds in every reachable state.                 *)
THEOREM Invariance == Spec => []Ind
<1>1. Init => Ind
  BY InitInd
<1>2. Ind /\ [Next]_vars => Ind'
  BY NextInd
<1> QED BY <1>1, <1>2, PTL DEF Spec

(* However addvote, subvote and voteproducer follow each other, a          *)
(* producer's votes are those of the voters that list it.                  *)
THEOREM TallyCorrect == Spec => []TallyInv
BY Invariance, PTL DEF Ind

(* No producer ever owes its voters more than it still holds for them, so  *)
(* allocate_producer_rewards can always settle.                            *)
THEOREM Solvent == Spec => []SolvencyInv
BY Invariance, PTL DEF Ind

(* A voter is never ahead of a producer's accumulator.                     *)
THEOREM NeverAhead == Spec => []PaidUpToInv
BY Invariance, PTL DEF Ind

-----------------------------------------------------------------------------
(* flon.reward keeps every unit it receives in exactly one place, never    *)
(* refuses a voter and implements RewardPromise.                           *)
(*                                                                         *)
(* addvote, subvote, voteproducer and the claims all do the same thing to  *)
(* the rewards: they settle one voter with all its producers.  Settled     *)
(* states it once; what the theorems say of those actions follows from it. *)

(* What a settlement would credit to v from p now.                         *)
Due(v, p) ==
    new_rewards(p, VotesOn(v, p), voter_tbl[v].last_rewards_per_vote[p])

DueOf(v) == [p \in Producers |-> Due(v, p)]

DueTo(p) == [v \in Voters |-> Due(v, p)]

(* All that v was credited so far.                                         *)
Credited(v) == voter_tbl[v].unclaimed_rewards + voter_tbl[v].claimed_rewards

CreditedOf == [v \in Voters |-> Credited(v)]

AllocatedOf == [p \in Producers |-> producer_tbl[p].allocated_rewards]

AllocatingOf == [p \in Producers |-> producer_tbl[p].allocating_rewards]

TotalOf == [p \in Producers |-> producer_tbl[p].total_rewards]

(* A step that settles voter v with all its producers.                     *)
Settled(v) ==
    /\ UNCHANGED <<initialized, total_rewards>>
    /\ \A u \in Voters \ {v} : voter_tbl'[u] = voter_tbl[u]
    /\ \A p \in Producers :
          /\ producer_tbl'[p].total_rewards = producer_tbl[p].total_rewards
          /\ producer_tbl'[p].rewards_per_vote = producer_tbl[p].rewards_per_vote
          /\ producer_tbl'[p].allocating_rewards
               = producer_tbl[p].allocating_rewards - Due(v, p)
          /\ producer_tbl'[p].allocated_rewards
               = producer_tbl[p].allocated_rewards + Due(v, p)
          /\ Due(v, p)' = 0
          /\ Owed(v, p)' = 0
    /\ Credited(v)' = Credited(v) + SumFunctionOnSet(DueOf(v), Producers)

(* The fields of a producer's row.                                         *)
LEMMA ProducerRowFields ==
    ASSUME TypeOK, NEW p \in Producers
    PROVE  /\ producer_tbl[p].total_rewards \in 0..MAX_AMOUNT
           /\ producer_tbl[p].allocating_rewards \in 0..MAX_AMOUNT
           /\ producer_tbl[p].allocated_rewards \in 0..MAX_AMOUNT
           /\ producer_tbl[p].votes \in Nat
           /\ producer_tbl[p].rewards_per_vote \in Nat
           /\ MAX_AMOUNT \in Nat
           /\ HIGH_PRECISION \in Nat \ {0}
BY ConstantsAssumption DEF TypeOK, ProducerRow

(* The amounts of a voter's row.                                           *)
LEMMA VoterRowNats ==
    ASSUME TypeOK, NEW v \in Voters
    PROVE  /\ voter_tbl[v].unclaimed_rewards \in Nat
           /\ voter_tbl[v].claimed_rewards \in Nat
<1>1. /\ voter_tbl[v].unclaimed_rewards \in 0..MAX_AMOUNT
      /\ voter_tbl[v].claimed_rewards \in 0..MAX_AMOUNT
  BY VoterRowFields
<1> QED BY <1>1, ConstantsAssumption

LEMMA DueNat ==
    ASSUME TypeOK, NEW v \in Voters, NEW p \in Producers
    PROVE  Due(v, p) \in Nat
<1>1. VotesOn(v, p) \in Nat /\ voter_tbl[v].last_rewards_per_vote[p] \in Nat
  BY VoterRowFields DEF VotesOn
<1> QED BY <1>1, NewRewardsNat DEF Due

(* Nothing is due without votes or beyond the accumulator.                 *)
LEMMA NothingDue ==
    ASSUME TypeOK, NEW p \in Producers, NEW old \in Nat, NEW last \in Nat,
           old = 0 \/ last = producer_tbl[p].rewards_per_vote
    PROVE  new_rewards(p, old, last) = 0
<1>1. producer_tbl[p].rewards_per_vote \in Nat
  BY ProducerRowFields
<1> QED BY <1>1 DEF new_rewards

(* allocate_producer_rewards, told the true old votes of v, pays what is   *)
(* due to v, if no producer outside P has votes of v.                      *)
LEMMA AllocatePaysDue ==
    ASSUME TypeOK, NEW v \in Voters, NEW P \in SUBSET Producers,
           NEW old \in [Producers -> Nat],
           \A p \in P : old[p] = VotesOn(v, p),
           \A p \in Producers \ P : VotesOn(v, p) = 0
    PROVE  AllocatedSum(v, P, old) = SumFunctionOnSet(DueOf(v), Producers)
<1> DEFINE f == [p \in Producers |->
                   new_rewards(p, old[p], voter_tbl[v].last_rewards_per_vote[p])]
           g == DueOf(v)
<1>1. \A p \in Producers : voter_tbl[v].last_rewards_per_vote[p] \in Nat
  BY VoterRowFields
<1>2. \A p \in P : g[p] = f[p]
  BY DEF DueOf, Due
<1>3. \A p \in Producers \ P : g[p] = 0
  BY <1>1, NothingDue DEF DueOf, Due
<1>4. IntOn(f, P)
  BY <1>1, NewRewardsNat DEF IntOn
<1>5. AllocatedSum(v, P, old) = SumFunctionOnSet(f, P)
  BY DEF AllocatedSum
<1> HIDE DEF f, g
<1>6. SumFunctionOnSet(g, Producers) = SumFunctionOnSet(f, P)
  BY <1>2, <1>3, <1>4, SumRestrict, ConstantsAssumption
<1> QED BY <1>5, <1>6 DEF g

(* What an allocation leaves behind, in terms of what is due.              *)
LEMMA AllocateSettles ==
    ASSUME Ind, TypeOK', NEW v \in Voters, NEW P \in SUBSET Producers,
           NEW old \in [Producers -> Nat], NEW delta \in [Producers -> Int],
           allocate_producer_rewards(v, P, old, delta),
           UNCHANGED <<initialized, total_rewards>>,
           \A u \in Voters \ {v} : voter_tbl'[u] = voter_tbl[u],
           \A p \in P :
              /\ old[p] = VotesOn(v, p)
              /\ \/ voter_tbl'[v].last_rewards_per_vote[p]
                      = producer_tbl[p].rewards_per_vote
                 \/ VotesOn(v, p)' = 0,
           \A p \in Producers \ P : VotesOn(v, p) = 0 /\ VotesOn(v, p)' = 0,
           Credited(v)' = Credited(v) + AllocatedSum(v, P, old)
    PROVE  Settled(v)
<1> USE DEF Ind
<1>1. ASSUME NEW p \in Producers
      PROVE  /\ producer_tbl'[p].total_rewards = producer_tbl[p].total_rewards
             /\ producer_tbl'[p].rewards_per_vote = producer_tbl[p].rewards_per_vote
             /\ producer_tbl'[p].allocating_rewards
                  = producer_tbl[p].allocating_rewards - Due(v, p)
             /\ producer_tbl'[p].allocated_rewards
                  = producer_tbl[p].allocated_rewards + Due(v, p)
  <2> DEFINE row == producer_tbl[p]
             amount == new_rewards(p, old[p], voter_tbl[v].last_rewards_per_vote[p])
  <2>1. CASE p \in P
    <3>1. producer_tbl'[p] =
              [ is_registered |-> row.is_registered,
                total_rewards |-> row.total_rewards,
                allocating_rewards |-> row.allocating_rewards - amount,
                allocated_rewards |-> row.allocated_rewards + amount,
                votes |-> row.votes + delta[p],
                rewards_per_vote |-> row.rewards_per_vote ]
      BY <2>1, AllocateRow
    <3>2. amount = Due(v, p)
      BY <2>1 DEF Due
    <3> HIDE DEF amount
    <3> QED BY <3>1, <3>2
  <2>2. CASE p \notin P
    <3>1. producer_tbl'[p] = row
      BY <2>2, AllocateType
    <3>2. voter_tbl[v].last_rewards_per_vote[p] \in Nat
      BY VoterRowFields
    <3>3. VotesOn(v, p) = 0
      BY <2>2
    <3>4. Due(v, p) = 0
      BY <3>2, <3>3, NothingDue DEF Due
    <3>5. row.allocating_rewards \in Int /\ row.allocated_rewards \in Int
      BY ProducerRowFields
    <3> HIDE DEF row
    <3>6. row.allocating_rewards - 0 = row.allocating_rewards
          /\ row.allocated_rewards + 0 = row.allocated_rewards
      BY <3>5
    <3> QED BY <3>1, <3>4, <3>6 DEF row
  <2> QED BY <2>1, <2>2
<1>2. ASSUME NEW p \in Producers
      PROVE  Due(v, p)' = 0 /\ Owed(v, p)' = 0
  <2> DEFINE n == VotesOn(v, p)'
             l == voter_tbl'[v].last_rewards_per_vote[p]
             r == producer_tbl'[p].rewards_per_vote
  <2>1. n \in Nat /\ l \in Nat /\ r \in Nat
    BY DEF VotesOn, TypeOK, VoterRow, ProducerRow
  <2>2. n = 0 \/ l = r
    BY <1>1
  <2>3. Owed(v, p)' = n * (r - l)
    BY DEF Owed
  <2>4. Due(v, p)' = IF r - l > 0 /\ n > 0
                     THEN calc_voter_rewards(n, r - l) ELSE 0
    BY DEF Due, new_rewards
  <2> HIDE DEF n, l, r
  <2>5. n * (r - l) = 0 /\ ~(r - l > 0 /\ n > 0)
    BY <2>1, <2>2
  <2> QED BY <2>3, <2>4, <2>5
<1>3. AllocatedSum(v, P, old) = SumFunctionOnSet(DueOf(v), Producers)
  BY AllocatePaysDue
<1> QED BY <1>1, <1>2, <1>3 DEF Settled

-----------------------------------------------------------------------------
(* Each action of a voter is a settlement.                                 *)

LEMMA ChangeVoteSettles ==
    ASSUME Ind, TypeOK', NEW v \in Voters, NEW n \in 1..MaxVotes,
           NEW adding \in BOOLEAN, change_vote(v, n, adding)
    PROVE  Settled(v) /\ voter_tbl'[v].claimed_rewards = voter_tbl[v].claimed_rewards
<1> USE DEF Ind
<1> DEFINE row == voter_tbl[v]
           change == IF adding THEN n ELSE -n
           old == [p \in Producers |-> row.votes]
           delta == [p \in Producers |-> change]
           paid == AllocatedSum(v, row.producers, old)
<1>1. row.votes \in Nat /\ row.producers \in SUBSET Producers
  BY VoterRowFields
<1>2. change \in Int
  BY ConstantsAssumption
<1>3. old \in [Producers -> Nat] /\ delta \in [Producers -> Int]
  <2> HIDE DEF row, change
  <2> QED BY <1>1, <1>2
<1>4. allocate_producer_rewards(v, row.producers, old, delta)
      /\ UNCHANGED <<initialized, total_rewards>>
  BY DEF change_vote
<1>5. /\ paid \in Nat
      /\ voter_tbl' = [voter_tbl EXCEPT
         ![v] = [ votes |-> row.votes + change,
                  producers |-> row.producers,
                  last_rewards_per_vote |-> PaidUpTo(row.producers),
                  unclaimed_rewards |-> row.unclaimed_rewards + paid,
                  claimed_rewards |-> row.claimed_rewards ]]
  BY ChangeVoteRow
<1> HIDE DEF paid, change
<1>6. /\ voter_tbl'[v].producers = row.producers
      /\ voter_tbl'[v].last_rewards_per_vote = PaidUpTo(row.producers)
      /\ voter_tbl'[v].unclaimed_rewards = row.unclaimed_rewards + paid
      /\ voter_tbl'[v].claimed_rewards = row.claimed_rewards
      /\ \A u \in Voters \ {v} : voter_tbl'[u] = voter_tbl[u]
  BY <1>5 DEF TypeOK
<1>7. \A p \in row.producers :
         /\ old[p] = VotesOn(v, p)
         /\ voter_tbl'[v].last_rewards_per_vote[p] = producer_tbl[p].rewards_per_vote
  BY <1>1, <1>6 DEF VotesOn, PaidUpTo
<1>8. \A p \in Producers \ row.producers : VotesOn(v, p) = 0 /\ VotesOn(v, p)' = 0
  BY <1>6 DEF VotesOn
<1>9. Credited(v)' = Credited(v) + paid
  <2>1. row.unclaimed_rewards \in Int /\ row.claimed_rewards \in Int
    BY VoterRowFields, VoterRowNats
  <2>2. Credited(v)' = (row.unclaimed_rewards + paid) + row.claimed_rewards
    BY <1>6 DEF Credited
  <2>3. Credited(v) = row.unclaimed_rewards + row.claimed_rewards
    BY DEF Credited
  <2> HIDE DEF row
  <2> QED BY <1>5, <2>1, <2>2, <2>3
<1>10. Settled(v)
  <2> HIDE DEF old, delta
  <2> QED BY <1>1, <1>3, <1>4, <1>6, <1>7, <1>8, <1>9, AllocateSettles DEF paid
<1> QED BY <1>6, <1>10

LEMMA VoteproducerSettles ==
    ASSUME Ind, TypeOK', NEW v \in Voters, NEW P \in SUBSET Producers,
           voteproducer(v, P)
    PROVE  Settled(v) /\ voter_tbl'[v].claimed_rewards = voter_tbl[v].claimed_rewards
<1> USE DEF Ind
<1> DEFINE row == voter_tbl[v]
           all == row.producers \cup P
           old == OldVotes(v)
           delta == VotesMoved(v, P)
           paid == AllocatedSum(v, all, old)
<1>1. row.votes \in Nat /\ all \in SUBSET Producers
  BY VoterRowFields
<1>2. old \in [Producers -> Nat] /\ delta \in [Producers -> Int]
  BY VotesMovedType
<1>3. allocate_producer_rewards(v, all, old, delta)
      /\ UNCHANGED <<initialized, total_rewards>>
  BY DEF voteproducer
<1>4. /\ paid \in Nat
      /\ voter_tbl' = [voter_tbl EXCEPT
         ![v] = [ votes |-> row.votes,
                  producers |-> P,
                  last_rewards_per_vote |-> PaidUpTo(P),
                  unclaimed_rewards |-> row.unclaimed_rewards + paid,
                  claimed_rewards |-> row.claimed_rewards ]]
  BY VoteproducerRow
<1> HIDE DEF paid
<1>5. /\ voter_tbl'[v].producers = P
      /\ voter_tbl'[v].last_rewards_per_vote = PaidUpTo(P)
      /\ voter_tbl'[v].unclaimed_rewards = row.unclaimed_rewards + paid
      /\ voter_tbl'[v].claimed_rewards = row.claimed_rewards
      /\ \A u \in Voters \ {v} : voter_tbl'[u] = voter_tbl[u]
  BY <1>4 DEF TypeOK
<1>6. \A p \in all :
         /\ old[p] = VotesOn(v, p)
         /\ \/ voter_tbl'[v].last_rewards_per_vote[p]
                 = producer_tbl[p].rewards_per_vote
            \/ VotesOn(v, p)' = 0
  BY <1>1, <1>5 DEF VotesOn, OldVotes, PaidUpTo
<1>7. \A p \in Producers \ all : VotesOn(v, p) = 0 /\ VotesOn(v, p)' = 0
  BY <1>5 DEF VotesOn
<1>8. Credited(v)' = Credited(v) + paid
  <2>1. row.unclaimed_rewards \in Int /\ row.claimed_rewards \in Int
    BY VoterRowFields, VoterRowNats
  <2>2. Credited(v)' = (row.unclaimed_rewards + paid) + row.claimed_rewards
    BY <1>5 DEF Credited
  <2>3. Credited(v) = row.unclaimed_rewards + row.claimed_rewards
    BY DEF Credited
  <2> HIDE DEF row
  <2> QED BY <1>4, <2>1, <2>2, <2>3
<1>9. Settled(v)
  <2> HIDE DEF old, delta, all
  <2> QED BY <1>1, <1>2, <1>3, <1>5, <1>6, <1>7, <1>8, AllocateSettles DEF paid
<1> QED BY <1>5, <1>9

(* The unclaimed rewards a claim pays out are all that is due.             *)
LEMMA ClaimableIsDue ==
    ASSUME TypeOK, NEW v \in Voters
    PROVE  /\ claimable(v) = voter_tbl[v].unclaimed_rewards
                               + SumFunctionOnSet(DueOf(v), Producers)
           /\ SumFunctionOnSet(DueOf(v), Producers) \in Nat
           /\ Earned(v) = Credited(v) + SumFunctionOnSet(DueOf(v), Producers)
<1> DEFINE row == voter_tbl[v]
           old == [p \in Producers |-> row.votes]
           due == SumFunctionOnSet(DueOf(v), Producers)
<1>1. /\ row.votes \in Nat /\ row.producers \in SUBSET Producers
      /\ row.unclaimed_rewards \in Nat /\ row.claimed_rewards \in Nat
      /\ row.last_rewards_per_vote \in [Producers -> Nat]
  BY VoterRowFields, VoterRowNats
<1>2. due \in Nat
  <2>1. \A p \in Producers : DueOf(v)[p] \in Nat
    BY DueNat DEF DueOf
  <2>2. Producers \in SUBSET Producers
    OBVIOUS
  <2> QED BY <2>1, <2>2, SumNat, ConstantsAssumption
<1>3. claimable(v) = row.unclaimed_rewards + due
  <2>1. CASE row.votes > 0
    <3>1. \A p \in row.producers : old[p] = VotesOn(v, p)
      BY <1>1 DEF VotesOn
    <3>2. \A p \in Producers \ row.producers : VotesOn(v, p) = 0
      BY DEF VotesOn
    <3>3. old \in [Producers -> Nat]
      BY <1>1
    <3>4. AllocatedSum(v, row.producers, old) = due
      <4> HIDE DEF old
      <4> QED BY <1>1, <3>1, <3>2, <3>3, AllocatePaysDue
    <3> QED BY <2>1, <3>4 DEF claimable
  <2>2. CASE ~(row.votes > 0)
    <3>1. row.votes = 0
      BY <1>1, <2>2
    <3>2. \A p \in Producers : DueOf(v)[p] = 0
      BY <1>1, <3>1, NothingDue DEF DueOf, Due, VotesOn
    <3>3. due = 0
      BY <3>2, SumZero, ConstantsAssumption
    <3>4. claimable(v) = row.unclaimed_rewards + 0
      BY <2>2 DEF claimable
    <3> QED BY <3>3, <3>4
  <2> QED BY <2>1, <2>2
<1>4. Earned(v) = Credited(v) + due
  <2>1. Earned(v) = row.claimed_rewards + (row.unclaimed_rewards + due)
    BY <1>3 DEF Earned
  <2>2. Credited(v) = row.unclaimed_rewards + row.claimed_rewards
    BY DEF Credited
  <2> HIDE DEF row, due
  <2> QED BY <1>1, <1>2, <2>1, <2>2
<1> QED BY <1>2, <1>3, <1>4

LEMMA ClaimSettles ==
    ASSUME Ind, TypeOK', NEW v \in Voters, claim_rewards(v)
    PROVE  /\ Settled(v)
           /\ voter_tbl'[v].claimed_rewards = Earned(v)
           /\ Earned(v) > voter_tbl[v].claimed_rewards
<1> USE DEF Ind
<1> DEFINE row == voter_tbl[v]
           settled == IF row.votes > 0 THEN row.producers ELSE {}
           old == [p \in Producers |-> row.votes]
           delta == [p \in Producers |-> 0]
           last == IF row.votes > 0 THEN PaidUpTo(row.producers)
                                    ELSE row.last_rewards_per_vote
           due == SumFunctionOnSet(DueOf(v), Producers)
<1>1. /\ row.votes \in Nat /\ row.producers \in SUBSET Producers
      /\ row.unclaimed_rewards \in Nat /\ row.claimed_rewards \in Nat
  BY VoterRowFields, VoterRowNats
<1>2. old \in [Producers -> Nat] /\ delta \in [Producers -> Int]
      /\ settled \in SUBSET Producers
  <2> HIDE DEF row
  <2> QED BY <1>1
<1>3. /\ allocate_producer_rewards(v, settled, old, delta)
      /\ UNCHANGED <<initialized, total_rewards>>
      /\ claimable(v) > 0
  BY DEF claim_rewards
<1>4. voter_tbl' = [voter_tbl EXCEPT
         ![v] = [ votes |-> row.votes,
                  producers |-> row.producers,
                  last_rewards_per_vote |-> last,
                  unclaimed_rewards |-> 0,
                  claimed_rewards |-> row.claimed_rewards + claimable(v) ]]
  BY ClaimRow
<1> HIDE DEF last
<1>5. /\ voter_tbl'[v].votes = row.votes
      /\ voter_tbl'[v].producers = row.producers
      /\ voter_tbl'[v].last_rewards_per_vote = last
      /\ voter_tbl'[v].unclaimed_rewards = 0
      /\ voter_tbl'[v].claimed_rewards = row.claimed_rewards + claimable(v)
      /\ \A u \in Voters \ {v} : voter_tbl'[u] = voter_tbl[u]
  BY <1>4 DEF TypeOK
<1>6. \A p \in settled :
         /\ old[p] = VotesOn(v, p)
         /\ voter_tbl'[v].last_rewards_per_vote[p] = producer_tbl[p].rewards_per_vote
  BY <1>1, <1>5 DEF VotesOn, PaidUpTo, last
<1>7. \A p \in Producers \ settled : VotesOn(v, p) = 0 /\ VotesOn(v, p)' = 0
  BY <1>1, <1>5 DEF VotesOn
<1>8. /\ claimable(v) = row.unclaimed_rewards + due
      /\ due \in Nat
      /\ Earned(v) = row.claimed_rewards + claimable(v)
  BY ClaimableIsDue DEF Earned
<1>9. AllocatedSum(v, settled, old) = due
  <2> HIDE DEF settled, old
  <2> QED BY <1>2, <1>6, <1>7, AllocatePaysDue
<1>10. Credited(v)' = Credited(v) + AllocatedSum(v, settled, old)
  <2>1. Credited(v)' = 0 + (row.claimed_rewards + claimable(v))
    BY <1>5 DEF Credited
  <2>2. Credited(v) = row.unclaimed_rewards + row.claimed_rewards
    BY DEF Credited
  <2> HIDE DEF row, due, settled, old
  <2> QED BY <1>1, <1>8, <1>9, <2>1, <2>2
<1>11. Settled(v)
  <2> HIDE DEF old, delta, settled
  <2> QED BY <1>1, <1>2, <1>3, <1>5, <1>6, <1>7, <1>10, AllocateSettles
<1>12. Earned(v) > row.claimed_rewards
  <2> HIDE DEF row, due
  <2> QED BY <1>1, <1>3, <1>8
<1> QED BY <1>5, <1>8, <1>11, <1>12

-----------------------------------------------------------------------------
(* The books balance.  The second part of ConservationInv would not        *)
(* survive init, which resets the global total, if rewards could be        *)
(* received before it; and the accumulator is bounded by what the producer *)
(* brought in only together with the totals.                               *)

RateInv ==
    \A p \in Producers :
        producer_tbl[p].rewards_per_vote
          <= HIGH_PRECISION * producer_tbl[p].total_rewards

Books ==
    /\ Ind
    /\ ConservationInv
    /\ ~initialized => total_rewards = 0
    /\ RateInv

LEMMA ConservationParts ==
    ConservationInv <=>
      /\ \A p \in Producers :
            producer_tbl[p].total_rewards
              = producer_tbl[p].allocating_rewards + producer_tbl[p].allocated_rewards
      /\ total_rewards = SumFunctionOnSet(TotalOf, Producers)
      /\ SumFunctionOnSet(AllocatedOf, Producers)
           = SumFunctionOnSet(CreditedOf, Voters)
BY DEF ConservationInv, TotalOf, AllocatedOf, CreditedOf, Credited

LEMMA CreditedNat ==
    ASSUME TypeOK, NEW v \in Voters
    PROVE  Credited(v) \in Nat
BY VoterRowFields, VoterRowNats DEF Credited

(* A settlement moves rewards from a producer to a voter.                  *)
LEMMA SettledConserves ==
    ASSUME TypeOK, TypeOK', ConservationInv, NEW v \in Voters, Settled(v)
    PROVE  ConservationInv'
<1> DEFINE f == AllocatedOf
           g == DueOf(v)
           h == AllocatedOf'
           c == CreditedOf
           k == CreditedOf'
<1>1. ASSUME NEW p \in Producers
      PROVE  producer_tbl'[p].total_rewards
               = producer_tbl'[p].allocating_rewards + producer_tbl'[p].allocated_rewards
  <2> DEFINE a == producer_tbl[p].allocating_rewards
             b == producer_tbl[p].allocated_rewards
             d == Due(v, p)
  <2>1. a \in Int /\ b \in Int /\ d \in Int
    BY ProducerRowFields, DueNat
  <2>2. producer_tbl[p].total_rewards = a + b
    BY DEF ConservationInv
  <2>3. /\ producer_tbl'[p].total_rewards = producer_tbl[p].total_rewards
        /\ producer_tbl'[p].allocating_rewards = a - d
        /\ producer_tbl'[p].allocated_rewards = b + d
    BY DEF Settled
  <2> HIDE DEF a, b, d
  <2>4. (a - d) + (b + d) = a + b
    BY <2>1
  <2> QED BY <2>2, <2>3, <2>4
<1>2. total_rewards' = SumFunctionOnSet(TotalOf', Producers)
  <2>1. TotalOf' = TotalOf /\ total_rewards' = total_rewards
    BY DEF Settled, TotalOf
  <2> QED BY <2>1, ConservationParts
<1>3. IntOn(f, Producers) /\ IntOn(g, Producers) /\ IntOn(c, Voters)
  BY ProducerRowFields, DueNat, CreditedNat DEF IntOn, AllocatedOf, DueOf, CreditedOf
<1>4. \A p \in Producers : h[p] = f[p] + 1 * g[p]
  <2>1. \A p \in Producers : h[p] = f[p] + g[p]
    BY DEF Settled, AllocatedOf, DueOf
  <2> HIDE DEF f, g, h
  <2> QED BY <1>3, <2>1 DEF IntOn
<1>5. \A u \in Voters \ {v} : k[u] = c[u]
  BY DEF Settled, CreditedOf, Credited
<1>6. c[v] = Credited(v) /\ k[v] = Credited(v) + SumFunctionOnSet(g, Producers)
  BY DEF Settled, CreditedOf
<1>7. SumFunctionOnSet(f, Producers) = SumFunctionOnSet(c, Voters)
  BY ConservationParts
<1>8. Credited(v) \in Int
  BY CreditedNat
<1> HIDE DEF f, g, h, c, k
<1>9. SumFunctionOnSet(h, Producers)
        = SumFunctionOnSet(f, Producers) + 1 * SumFunctionOnSet(g, Producers)
  BY <1>3, <1>4, SumLinear, ConstantsAssumption
<1>10. SumFunctionOnSet(f, Producers) \in Int /\ SumFunctionOnSet(g, Producers) \in Int
  <2>1. Producers \in SUBSET Producers
    OBVIOUS
  <2> QED BY <1>3, <2>1, SumInt, ConstantsAssumption
<1>11. k[v] \in Int
  BY <1>6, <1>8, <1>10
<1>12. /\ SumFunctionOnSet(k, Voters) = SumFunctionOnSet(c, Voters) - c[v] + k[v]
       /\ SumFunctionOnSet(c, Voters) \in Int
  BY ONLY <1>3, <1>5, <1>11, v \in Voters, SumUpdate, ConstantsAssumption
<1>13. SumFunctionOnSet(h, Producers) = SumFunctionOnSet(k, Voters)
  BY <1>6, <1>7, <1>8, <1>9, <1>10, <1>12
<1> QED BY <1>1, <1>2, <1>13 DEF ConservationInv, TotalOf, h, k, AllocatedOf, CreditedOf, Credited

(* A reward is entered in the producer's total, its rewards to allocate    *)
(* and the global total.                                                   *)
LEMMA TransferConserves ==
    ASSUME Books, TypeOK', initialized, NEW from \in Producers,
           NEW q \in 1..MAX_AMOUNT, ontransfer(from, q)
    PROVE  ConservationInv' /\ RateInv'
<1> USE DEF Books, Ind
<1> DEFINE row == producer_tbl[from]
           rate == calc_rewards_per_vote(row.rewards_per_vote, q, row.votes)
<1>1. /\ row.votes \in Nat /\ row.rewards_per_vote \in Nat
      /\ row.allocating_rewards \in Nat /\ row.allocated_rewards \in Nat
      /\ row.total_rewards \in Nat
      /\ q \in Nat /\ HIGH_PRECISION \in Nat
  BY ConstantsAssumption DEF TypeOK, ProducerRow
<1>2. /\ total_rewards' = total_rewards + q
      /\ voter_tbl' = voter_tbl
      /\ producer_tbl' = [producer_tbl EXCEPT
            ![from] = [ is_registered |-> row.is_registered,
                        total_rewards |-> row.total_rewards + q,
                        allocating_rewards |-> row.allocating_rewards + q,
                        allocated_rewards |-> row.allocated_rewards,
                        votes |-> row.votes,
                        rewards_per_vote |-> rate ]]
  BY TransferRow
<1>3. rate \in Nat /\ rate <= row.rewards_per_vote + HIGH_PRECISION * q
  <2> DEFINE d == rate - row.rewards_per_vote
             m == row.votes
             s == HIGH_PRECISION * q
  <2>0. s \in Nat
    <3> HIDE DEF row
    <3> QED BY <1>1
  <2>1. rate \in Nat /\ rate >= row.rewards_per_vote /\ m * d <= s
    BY <1>1, RateRises
  <2>2. m = 0 => d = 0
    <3>1. m = 0 => rate = row.rewards_per_vote
      BY DEF calc_rewards_per_vote
    <3> HIDE DEF rate, row
    <3> QED BY <1>1, <3>1
  <2>3. d \in Nat /\ m \in Nat
    BY <1>1, <2>1
  <2> HIDE DEF d, m, s, rate, row
  <2>4. d <= s
    <3>1. CASE m = 0
      BY <2>0, <2>2, <3>1
    <3>2. CASE m # 0
      <4>1. m - 1 \in Nat
        BY <2>3, <3>2
      <4>2. (m - 1) * d \in Nat
        BY <2>3, <4>1
      <4>3. m * d = d + (m - 1) * d
        BY <2>3, <4>1
      <4> QED BY <2>0, <2>1, <2>3, <4>2, <4>3
    <3> QED BY <3>1, <3>2
  <2>5. rate = row.rewards_per_vote + d
    BY <1>1, <2>1 DEF d
  <2>6. rate <= row.rewards_per_vote + s
    BY <1>1, <2>0, <2>1, <2>3, <2>4, <2>5
  <2> QED BY <2>1, <2>6 DEF s
<1> HIDE DEF rate
<1>4. /\ producer_tbl'[from].rewards_per_vote = rate
      /\ producer_tbl'[from].total_rewards = row.total_rewards + q
      /\ producer_tbl'[from].allocating_rewards = row.allocating_rewards + q
      /\ producer_tbl'[from].allocated_rewards = row.allocated_rewards
      /\ \A p \in Producers \ {from} : producer_tbl'[p] = producer_tbl[p]
  BY <1>2 DEF TypeOK
<1>5. RateInv'
  <2> SUFFICES ASSUME NEW p \in Producers
               PROVE  producer_tbl'[p].rewards_per_vote
                        <= HIGH_PRECISION * producer_tbl'[p].total_rewards
    BY DEF RateInv
  <2>1. CASE p # from
    BY <1>4, <2>1 DEF RateInv
  <2>2. CASE p = from
    <3>1. row.rewards_per_vote <= HIGH_PRECISION * row.total_rewards
      BY DEF RateInv
    <3> HIDE DEF row
    <3>2. HIGH_PRECISION * (row.total_rewards + q)
            = HIGH_PRECISION * row.total_rewards + HIGH_PRECISION * q
      BY <1>1
    <3> DEFINE a == HIGH_PRECISION * row.total_rewards
               b == HIGH_PRECISION * q
    <3>3. a \in Nat /\ b \in Nat
      BY <1>1
    <3>4. rate <= a + b
      <4>1. row.rewards_per_vote <= a /\ rate <= row.rewards_per_vote + b
        BY <1>3, <3>1
      <4> HIDE DEF a, b
      <4> QED BY <1>1, <1>3, <3>3, <4>1
    <3> QED BY <1>4, <2>2, <3>2, <3>4
  <2> QED BY <2>1, <2>2
<1>6. ASSUME NEW p \in Producers
      PROVE  producer_tbl'[p].total_rewards
               = producer_tbl'[p].allocating_rewards + producer_tbl'[p].allocated_rewards
  <2>1. CASE p # from
    BY <1>4, <2>1 DEF ConservationInv
  <2>2. CASE p = from
    <3>1. row.total_rewards = row.allocating_rewards + row.allocated_rewards
      BY DEF ConservationInv
    <3> HIDE DEF row
    <3> QED BY <1>1, <1>4, <2>2, <3>1
  <2> QED BY <2>1, <2>2
<1>7. total_rewards' = SumFunctionOnSet(TotalOf', Producers)
  <2> DEFINE f == TotalOf
             h == TotalOf'
  <2>1. IntOn(f, Producers)
    BY ProducerRowFields DEF IntOn, TotalOf
  <2>2. f[from] = row.total_rewards /\ h[from] = row.total_rewards + q
    BY <1>4 DEF TotalOf
  <2>3. \A p \in Producers \ {from} : h[p] = f[p]
    BY <1>4 DEF TotalOf
  <2>4. total_rewards = SumFunctionOnSet(f, Producers)
    BY ConservationParts
  <2> HIDE DEF f, h, row
  <2>5. h[from] \in Int
    BY <1>1, <2>2
  <2>6. /\ SumFunctionOnSet(h, Producers)
             = SumFunctionOnSet(f, Producers) - f[from] + h[from]
        /\ SumFunctionOnSet(f, Producers) \in Int
    BY ONLY <2>1, <2>3, <2>5, from \in Producers, SumUpdate, ConstantsAssumption
  <2>7. total_rewards' = SumFunctionOnSet(h, Producers)
    BY <1>1, <1>2, <2>2, <2>4, <2>6
  <2> QED BY <2>7 DEF h
<1>8. SumFunctionOnSet(AllocatedOf', Producers) = SumFunctionOnSet(CreditedOf', Voters)
  <2>1. AllocatedOf' = AllocatedOf
    BY <1>4 DEF AllocatedOf
  <2>2. CreditedOf' = CreditedOf
    BY <1>2 DEF CreditedOf, Credited
  <2> QED BY <2>1, <2>2, ConservationParts
<1>9. ConservationInv'
  BY <1>6, <1>7, <1>8 DEF ConservationInv, TotalOf, AllocatedOf, CreditedOf, Credited
<1> QED BY <1>5, <1>9

-----------------------------------------------------------------------------
(* The books stay balanced.                                                *)

LEMMA InitBooks == ASSUME Init PROVE Books
<1>1. Ind
  BY InitInd
<1>2. \A p \in Producers : TotalOf[p] = 0 /\ AllocatedOf[p] = 0
  BY DEF Init, TotalOf, AllocatedOf
<1>3. \A v \in Voters : CreditedOf[v] = 0
  BY DEF Init, CreditedOf, Credited
<1>4. /\ SumFunctionOnSet(TotalOf, Producers) = 0
      /\ SumFunctionOnSet(AllocatedOf, Producers) = 0
      /\ SumFunctionOnSet(CreditedOf, Voters) = 0
  BY <1>2, <1>3, SumZero, ConstantsAssumption
<1>5. \A p \in Producers :
         producer_tbl[p].total_rewards
           = producer_tbl[p].allocating_rewards + producer_tbl[p].allocated_rewards
  BY DEF Init
<1>6. total_rewards = 0
  BY DEF Init
<1>7. ConservationInv
  BY <1>4, <1>5, <1>6, ConservationParts
<1>8. RateInv
  BY ConstantsAssumption DEF Init, RateInv
<1> QED BY <1>1, <1>6, <1>7, <1>8 DEF Books

LEMMA SettledBooks ==
    ASSUME Books, Ind', NEW v \in Voters, Settled(v)
    PROVE  Books'
<1>1. ConservationInv'
  BY SettledConserves DEF Books, Ind
<1>2. RateInv'
  BY DEF Books, RateInv, Settled
<1>3. ~initialized' => total_rewards' = 0
  BY DEF Books, Settled
<1> QED BY <1>1, <1>2, <1>3 DEF Books

(* The same books with other registrations.                                *)
LEMMA BooksUnchanged ==
    ASSUME Books, Ind', voter_tbl' = voter_tbl, total_rewards' = total_rewards,
           initialized => initialized',
           \A p \in Producers :
              /\ producer_tbl'[p].total_rewards = producer_tbl[p].total_rewards
              /\ producer_tbl'[p].rewards_per_vote = producer_tbl[p].rewards_per_vote
              /\ producer_tbl'[p].allocated_rewards = producer_tbl[p].allocated_rewards
              /\ producer_tbl'[p].allocating_rewards
                   = producer_tbl[p].allocating_rewards
    PROVE  Books'
<1>1. RateInv' /\ (~initialized' => total_rewards' = 0)
  BY DEF Books, RateInv
<1>2. TotalOf' = TotalOf /\ AllocatedOf' = AllocatedOf /\ CreditedOf' = CreditedOf
  BY DEF TotalOf, AllocatedOf, CreditedOf, Credited
<1>3. /\ \A p \in Producers :
            producer_tbl[p].total_rewards
              = producer_tbl[p].allocating_rewards + producer_tbl[p].allocated_rewards
      /\ total_rewards = SumFunctionOnSet(TotalOf, Producers)
      /\ SumFunctionOnSet(AllocatedOf, Producers)
           = SumFunctionOnSet(CreditedOf, Voters)
  BY ConservationParts DEF Books
<1>4. /\ \A p \in Producers :
            producer_tbl'[p].total_rewards
              = producer_tbl'[p].allocating_rewards + producer_tbl'[p].allocated_rewards
      /\ total_rewards' = SumFunctionOnSet(TotalOf', Producers)
      /\ SumFunctionOnSet(AllocatedOf', Producers)
           = SumFunctionOnSet(CreditedOf', Voters)
  BY <1>2, <1>3
<1>5. ConservationInv'
  BY <1>4 DEF ConservationInv, TotalOf, AllocatedOf, CreditedOf, Credited
<1> QED BY <1>1, <1>5 DEF Books

(* What each step does to the rewards.  Every step settles one voter, pays *)
(* one voter, receives a reward or leaves the rewards alone.               *)
Quiet ==
    /\ voter_tbl' = voter_tbl
    /\ total_rewards' = total_rewards
    /\ initialized => initialized'
    /\ \A p \in Producers :
          /\ producer_tbl'[p].total_rewards = producer_tbl[p].total_rewards
          /\ producer_tbl'[p].rewards_per_vote = producer_tbl[p].rewards_per_vote
          /\ producer_tbl'[p].allocated_rewards = producer_tbl[p].allocated_rewards
          /\ producer_tbl'[p].allocating_rewards = producer_tbl[p].allocating_rewards

LEMMA StepKinds ==
    ASSUME Books, [Next]_vars
    PROVE  \/ Quiet
           \/ \E v \in Voters :
                 /\ Settled(v)
                 /\ voter_tbl'[v].claimed_rewards = voter_tbl[v].claimed_rewards
           \/ \E v \in Voters :
                 /\ Settled(v)
                 /\ voter_tbl'[v].claimed_rewards = Earned(v)
                 /\ Earned(v) > voter_tbl[v].claimed_rewards
           \/ \E p \in Producers, q \in 1..MAX_AMOUNT :
                 ontransfer(p, q) /\ initialized
<1> DEFINE Goal ==
           \/ Quiet
           \/ \E v \in Voters :
                 /\ Settled(v)
                 /\ voter_tbl'[v].claimed_rewards = voter_tbl[v].claimed_rewards
           \/ \E v \in Voters :
                 /\ Settled(v)
                 /\ voter_tbl'[v].claimed_rewards = Earned(v)
                 /\ Earned(v) > voter_tbl[v].claimed_rewards
           \/ \E p \in Producers, q \in 1..MAX_AMOUNT :
                 ontransfer(p, q) /\ initialized
<1>1. Ind /\ TypeOK /\ TypeOK'
  BY TypeInductive DEF Books, Ind
<1>2. CASE UNCHANGED vars
  BY <1>2 DEF vars, Quiet
<1>3. CASE init
  <2>1. ~initialized /\ total_rewards' = 0 /\ UNCHANGED <<producer_tbl, voter_tbl>>
    BY <1>3 DEF init
  <2>2. total_rewards = 0
    BY <2>1 DEF Books
  <2> QED BY <2>1, <2>2 DEF Quiet
<1>4. ASSUME NEW p \in Producers, regproducer(p)
      PROVE  Goal
  <2>1. voter_tbl' = voter_tbl /\ total_rewards' = total_rewards
        /\ initialized' = initialized
    BY <1>4 DEF regproducer
  <2>2. \A r \in Producers :
          /\ producer_tbl'[r].total_rewards = producer_tbl[r].total_rewards
          /\ producer_tbl'[r].rewards_per_vote = producer_tbl[r].rewards_per_vote
          /\ producer_tbl'[r].allocated_rewards = producer_tbl[r].allocated_rewards
          /\ producer_tbl'[r].allocating_rewards = producer_tbl[r].allocating_rewards
    BY <1>1, <1>4 DEF regproducer, TypeOK, ProducerRow
  <2>3. Quiet
    BY <2>1, <2>2 DEF Quiet
  <2> QED BY <2>3
<1>5. ASSUME NEW v \in Voters, NEW n \in 1..MaxVotes, NEW adding \in BOOLEAN,
             change_vote(v, n, adding)
      PROVE  Goal
  BY <1>1, <1>5, ChangeVoteSettles
<1>6. ASSUME NEW v \in Voters, NEW P \in SUBSET Producers, voteproducer(v, P)
      PROVE  Goal
  BY <1>1, <1>6, VoteproducerSettles
<1>7. ASSUME NEW v \in Voters, claim_rewards(v)
      PROVE  Goal
  BY <1>1, <1>7, ClaimSettles
<1>8. ASSUME NEW p \in Producers, NEW q \in 1..MAX_AMOUNT, ontransfer(p, q)
      PROVE  Goal
  <2>1. CASE initialized
    BY <1>8, <2>1
  <2>2. CASE ~initialized
    <3>1. UNCHANGED vars
      BY <1>8, <2>2 DEF ontransfer
    <3> QED BY <3>1 DEF vars, Quiet
  <2> QED BY <2>1, <2>2
<1> HIDE DEF Goal
<1>9. Goal
  BY <1>2, <1>3, <1>4, <1>5, <1>6, <1>7, <1>8
     DEF Next, addvote, subvote, claimrewards, claimfor, Goal
<1> QED BY <1>9 DEF Goal

LEMMA NextBooks ==
    ASSUME Books, [Next]_vars
    PROVE  Books'
<1>1. Ind'
  BY NextInd DEF Books
<1>2. CASE Quiet
  BY <1>1, <1>2, BooksUnchanged DEF Quiet
<1>3. CASE \E v \in Voters : Settled(v)
  BY <1>1, <1>3, SettledBooks
<1>4. CASE \E p \in Producers, q \in 1..MAX_AMOUNT : ontransfer(p, q) /\ initialized
  <2>1. PICK p \in Producers, q \in 1..MAX_AMOUNT : ontransfer(p, q) /\ initialized
    BY <1>4
  <2>2. ConservationInv' /\ RateInv'
    BY <1>1, <2>1, TransferConserves DEF Ind
  <2>3. initialized'
    BY <2>1 DEF ontransfer
  <2> QED BY <1>1, <2>2, <2>3 DEF Books
<1> QED BY <1>2, <1>3, <1>4, StepKinds

(* The books of flon.reward balance in every reachable state.              *)
THEOREM BooksBalance == Spec => []Books
<1>1. Init => Books
  BY InitBooks
<1>2. Books /\ [Next]_vars => Books'
  BY NextBooks
<1> QED BY <1>1, <1>2, PTL DEF Spec

(* Every unit a producer ever sent is in exactly one place: waiting in the *)
(* producer's allocating_rewards, or in some voter's unclaimed or claimed  *)
(* rewards.                                                                *)
THEOREM Conserves == Spec => []ConservationInv
BY BooksBalance, PTL DEF Books

-----------------------------------------------------------------------------
(* What is due is covered.                                                 *)

LEMMA Cancel ==
    ASSUME NEW c \in Nat, c > 0, NEW a \in Int, NEW b \in Int, c * a <= c * b
    PROVE  a <= b
<1>1. SUFFICES ASSUME a >= b + 1 PROVE FALSE
  OBVIOUS
<1>2. a - b - 1 \in Nat
  BY <1>1
<1>3. c * (a - b - 1) \in Nat
  BY <1>2
<1>4. c * (a - b - 1) = c * a - c * b - c
  OBVIOUS
<1>5. c * a \in Int /\ c * b \in Int
  OBVIOUS
<1> QED BY <1>3, <1>4, <1>5

(* A producer can settle with all its voters at once.                      *)
LEMMA DueCovered ==
    ASSUME Ind, NEW p \in Producers
    PROVE  /\ SumFunctionOnSet(DueTo(p), Voters) \in Nat
           /\ SumFunctionOnSet(DueTo(p), Voters) <= producer_tbl[p].allocating_rewards
           /\ \A v \in Voters : Due(v, p) <= producer_tbl[p].allocating_rewards
           /\ \A v \in Voters :
                 Owed(v, p) <= HIGH_PRECISION * producer_tbl[p].allocating_rewards
<1> USE DEF Ind
<1> DEFINE f == [v \in Voters |-> 0]
           g == DueTo(p)
           h == [v \in Voters |-> HIGH_PRECISION * g[v]]
           o == OwedBy(p)
           a == producer_tbl[p].allocating_rewards
<1>1. HIGH_PRECISION \in Nat /\ HIGH_PRECISION > 0 /\ a \in Nat
  BY ProducerRowFields
<1>2. \A v \in Voters : g[v] = Due(v, p) /\ g[v] \in Nat
  BY DueNat DEF DueTo
<1>3. \A v \in Voters : o[v] = Owed(v, p) /\ o[v] \in Nat
  BY OwedNat DEF OwedBy
<1>4. \A v \in Voters : HIGH_PRECISION * Due(v, p) <= Owed(v, p)
  BY SettlesAtMost DEF Due
<1>5. SumFunctionOnSet(o, Voters) <= HIGH_PRECISION * a
      /\ SumFunctionOnSet(o, Voters) \in Nat /\ HIGH_PRECISION * a \in Nat
  BY OwedSumNat, ByProducer DEF SolventAt
<1> HIDE DEF g, o, a
<1>6. \A v \in Voters : f[v] = 0 /\ h[v] \in Int /\ h[v] = f[v] + HIGH_PRECISION * g[v]
  BY <1>1, <1>2
<1>7. \A v \in Voters : h[v] <= o[v]
  BY <1>2, <1>3, <1>4
<1>8. SumFunctionOnSet(f, Voters) = 0
  <2> HIDE DEF f
  <2> QED BY <1>6, SumZero, ConstantsAssumption
<1> HIDE DEF f, h
<1>9. IntOn(f, Voters) /\ IntOn(g, Voters) /\ IntOn(h, Voters) /\ IntOn(o, Voters)
  BY <1>2, <1>3, <1>6 DEF IntOn
<1>10. SumFunctionOnSet(h, Voters)
         = SumFunctionOnSet(f, Voters) + HIGH_PRECISION * SumFunctionOnSet(g, Voters)
  BY <1>1, <1>6, <1>9, SumLinear, ConstantsAssumption
<1>11. SumFunctionOnSet(h, Voters) <= SumFunctionOnSet(o, Voters)
  BY <1>7, <1>9, SumMonotone, ConstantsAssumption
<1>12. SumFunctionOnSet(g, Voters) \in Nat
  <2>1. Voters \in SUBSET Voters
    OBVIOUS
  <2> QED BY <1>2, <2>1, SumNat, ConstantsAssumption
<1> DEFINE G == SumFunctionOnSet(g, Voters)
<1>13. HIGH_PRECISION * G <= HIGH_PRECISION * a
  <2> DEFINE x == HIGH_PRECISION * G
             y == HIGH_PRECISION * a
  <2>1. x \in Nat
    <3> HIDE DEF G
    <3> QED BY <1>1, <1>12 DEF G
  <2>2. x = SumFunctionOnSet(h, Voters)
    <3> HIDE DEF x
    <3>1. SumFunctionOnSet(h, Voters) = 0 + x
      BY <1>8, <1>10 DEF x
    <3> QED BY <2>1, <3>1
  <2>3. SumFunctionOnSet(o, Voters) <= y /\ y \in Nat
    BY <1>5
  <2> HIDE DEF x, y
  <2>4. x <= y
    BY <1>5, <1>11, <2>1, <2>2, <2>3
  <2> QED BY <2>4 DEF x, y
<1>14. G <= a
  <2>1. G \in Int /\ a \in Int
    BY <1>1, <1>12
  <2> HIDE DEF G
  <2> QED BY <1>1, <1>13, <2>1, Cancel
<1>15. \A v \in Voters : g[v] <= SumFunctionOnSet(g, Voters)
  BY <1>2, SumBound, ConstantsAssumption
<1>16. \A v \in Voters : o[v] <= SumFunctionOnSet(o, Voters)
  BY <1>3, SumBound, ConstantsAssumption
<1>17. \A v \in Voters : Due(v, p) <= a
  BY <1>1, <1>2, <1>12, <1>14, <1>15
<1>18. \A v \in Voters : Owed(v, p) <= HIGH_PRECISION * a
  <2> DEFINE y == HIGH_PRECISION * a
  <2>1. y \in Nat /\ SumFunctionOnSet(o, Voters) <= y
    BY <1>5
  <2> HIDE DEF y
  <2>2. \A v \in Voters : Owed(v, p) <= y
    BY <1>3, <1>5, <1>16, <2>1
  <2> QED BY <2>2 DEF y
<1> QED BY <1>12, <1>14, <1>17, <1>18 DEF g, a

EarnedOf == [v \in Voters |-> Earned(v)]

(* The voters never earned more, all together, than was received.          *)
LEMMA EarnedCovered ==
    ASSUME Ind, ConservationInv
    PROVE  /\ SumFunctionOnSet(EarnedOf, Voters) <= total_rewards
           /\ \A v \in Voters : EarnedOf[v] \in 0..total_rewards
<1> USE DEF Ind
<1> DEFINE rows == [v \in Voters |-> SumFunctionOnSet(DueOf(v), Producers)]
           cols == [p \in Producers |-> SumFunctionOnSet(DueTo(p), Voters)]
           D == [v \in Voters |-> DueOf(v)]
           t == TotalOf
           b == AllocatedOf
           a == AllocatingOf
           c == CreditedOf
           e == EarnedOf
<1>1. \A v \in Voters :
         /\ rows[v] \in Nat /\ c[v] \in Nat /\ e[v] \in Nat
         /\ e[v] = c[v] + 1 * rows[v]
  <2> SUFFICES ASSUME NEW v \in Voters
               PROVE  /\ rows[v] \in Nat /\ c[v] \in Nat /\ e[v] \in Nat
                      /\ e[v] = c[v] + 1 * rows[v]
    OBVIOUS
  <2>1. /\ rows[v] \in Nat /\ Earned(v) = Credited(v) + rows[v]
        /\ Credited(v) \in Nat
    BY ClaimableIsDue, CreditedNat
  <2>2. c[v] = Credited(v) /\ e[v] = Earned(v)
    BY DEF CreditedOf, EarnedOf
  <2> HIDE DEF rows, c, e
  <2> QED BY <2>1, <2>2
<1>2. \A p \in Producers : cols[p] \in Nat /\ a[p] \in Nat /\ cols[p] <= a[p]
  BY DueCovered, ProducerRowFields DEF AllocatingOf
<1>3. SumFunctionOnSet(rows, Voters) = SumFunctionOnSet(cols, Producers)
  <2>1. \A v \in Voters, p \in Producers : D[v][p] \in Int
    BY DueNat DEF DueOf
  <2>2. rows = [v \in Voters |-> SumFunctionOnSet(D[v], Producers)]
    OBVIOUS
  <2>3. \A p \in Producers : DueTo(p) = [v \in Voters |-> D[v][p]]
    BY DEF DueTo, DueOf
  <2>4. cols = [p \in Producers |->
                   SumFunctionOnSet([v \in Voters |-> D[v][p]], Voters)]
    BY <2>3
  <2> HIDE DEF rows, cols, D
  <2> QED BY <2>1, <2>2, <2>4, SumSwap, ConstantsAssumption
<1>4. \A p \in Producers :
         b[p] \in Nat /\ a[p] \in Nat /\ t[p] = b[p] + 1 * a[p]
  <2> SUFFICES ASSUME NEW p \in Producers
               PROVE  b[p] \in Nat /\ a[p] \in Nat /\ t[p] = b[p] + 1 * a[p]
    OBVIOUS
  <2>1. t[p] = a[p] + b[p]
    BY DEF ConservationInv, TotalOf, AllocatingOf, AllocatedOf
  <2>2. b[p] \in Nat /\ a[p] \in Nat
    BY ProducerRowFields DEF AllocatingOf, AllocatedOf
  <2> HIDE DEF t, a, b
  <2> QED BY <2>1, <2>2
<1>5. /\ total_rewards = SumFunctionOnSet(t, Producers)
      /\ SumFunctionOnSet(b, Producers) = SumFunctionOnSet(c, Voters)
  BY ConservationParts
<1> HIDE DEF rows, cols, D, t, b, a, c, e
<1>6. SumFunctionOnSet(e, Voters)
        = SumFunctionOnSet(c, Voters) + 1 * SumFunctionOnSet(rows, Voters)
  <2>1. IntOn(c, Voters) /\ IntOn(rows, Voters)
    BY <1>1 DEF IntOn
  <2> QED BY <1>1, <2>1, SumLinear, ConstantsAssumption
<1>7. SumFunctionOnSet(t, Producers)
        = SumFunctionOnSet(b, Producers) + 1 * SumFunctionOnSet(a, Producers)
  <2>1. IntOn(b, Producers) /\ IntOn(a, Producers)
    BY <1>4 DEF IntOn
  <2> QED BY <1>4, <2>1, SumLinear, ConstantsAssumption
<1>8. SumFunctionOnSet(cols, Producers) <= SumFunctionOnSet(a, Producers)
  <2>1. IntOn(cols, Producers) /\ IntOn(a, Producers)
    BY <1>2 DEF IntOn
  <2> QED BY <1>2, <2>1, SumMonotone, ConstantsAssumption
<1>9. /\ SumFunctionOnSet(c, Voters) \in Nat /\ SumFunctionOnSet(rows, Voters) \in Nat
      /\ SumFunctionOnSet(e, Voters) \in Nat
      /\ SumFunctionOnSet(a, Producers) \in Nat
  <2>1. Voters \in SUBSET Voters /\ Producers \in SUBSET Producers
    OBVIOUS
  <2> QED BY <1>1, <1>2, <2>1, SumNat, ConstantsAssumption
<1>10. SumFunctionOnSet(e, Voters) <= total_rewards
  BY <1>3, <1>5, <1>6, <1>7, <1>8, <1>9
<1>11. ASSUME NEW v \in Voters PROVE e[v] \in 0..total_rewards
  <2>1. e[v] <= SumFunctionOnSet(e, Voters)
    BY <1>1, SumBound, ConstantsAssumption
  <2>2. total_rewards \in Nat
    BY ConstantsAssumption DEF TypeOK
  <2> QED BY <1>1, <1>9, <1>10, <2>1, <2>2
<1> QED BY <1>10, <1>11 DEF e

(* No fixed-point product of the contract leaves the range of int128: the  *)
(* accumulator is at most HIGH_PRECISION times what its producer sent, and *)
(* a voter's product at most HIGH_PRECISION * MAX_AMOUNT.                  *)
THEOREM FixedPointInRange == Spec => []FixedPointRangeInv
<1>1. ASSUME Books PROVE FixedPointRangeInv
  <2> USE DEF Books, Ind
  <2> SUFFICES ASSUME NEW p \in Producers
               PROVE  /\ producer_tbl[p].rewards_per_vote
                           <= HIGH_PRECISION * producer_tbl[p].total_rewards
                      /\ \A v \in Voters : Owed(v, p) <= HIGH_PRECISION * MAX_AMOUNT
    BY DEF FixedPointRangeInv
  <2>1. producer_tbl[p].rewards_per_vote
          <= HIGH_PRECISION * producer_tbl[p].total_rewards
    BY <1>1 DEF RateInv
  <2> DEFINE a == producer_tbl[p].allocating_rewards
  <2>2. /\ a \in Nat /\ MAX_AMOUNT - a \in Nat /\ MAX_AMOUNT \in Nat
        /\ HIGH_PRECISION \in Nat
    BY <1>1, ProducerRowFields
  <2>3. \A v \in Voters : Owed(v, p) <= HIGH_PRECISION * a /\ Owed(v, p) \in Nat
    BY <1>1, DueCovered, OwedNat
  <2> HIDE DEF a
  <2>4. HIGH_PRECISION * (MAX_AMOUNT - a) \in Nat
        /\ HIGH_PRECISION * a \in Nat
    BY <2>2
  <2>5. HIGH_PRECISION * MAX_AMOUNT
          = HIGH_PRECISION * a + HIGH_PRECISION * (MAX_AMOUNT - a)
    BY <2>2
  <2>6. HIGH_PRECISION * a <= HIGH_PRECISION * MAX_AMOUNT
    <3> DEFINE x == HIGH_PRECISION * a
               y == HIGH_PRECISION * (MAX_AMOUNT - a)
               z == HIGH_PRECISION * MAX_AMOUNT
    <3> HIDE DEF x, y, z
    <3>1. x <= z
      BY <2>4, <2>5 DEF x, y, z
    <3> QED BY <3>1 DEF x, z
  <2>7. \A v \in Voters : Owed(v, p) <= HIGH_PRECISION * MAX_AMOUNT
    <3> DEFINE x == HIGH_PRECISION * a
               z == HIGH_PRECISION * MAX_AMOUNT
    <3>1. x \in Nat /\ z \in Nat /\ x <= z
      BY <2>2, <2>4, <2>6
    <3>2. \A v \in Voters : Owed(v, p) <= x /\ Owed(v, p) \in Nat
      BY <2>3
    <3> HIDE DEF x, z
    <3>3. \A v \in Voters : Owed(v, p) <= z
      BY <3>1, <3>2
    <3> QED BY <3>3 DEF z
  <2> QED BY <2>1, <2>7
<1> QED BY <1>1, BooksBalance, PTL

(* The checks of the settlement that takes all of v's votes off p hold.    *)
LEMMA ExitChecks ==
    ASSUME Books, NEW v \in Voters, NEW p \in voter_tbl[v].producers
    PROVE  AllocateChecks(p, voter_tbl[v].votes, -voter_tbl[v].votes,
                          voter_tbl[v].last_rewards_per_vote[p])
<1> USE DEF Books, Ind
<1> DEFINE row == producer_tbl[p]
           n == voter_tbl[v].votes
           last == voter_tbl[v].last_rewards_per_vote[p]
<1>1. p \in Producers /\ n \in Nat /\ VotesOn(v, p) = n /\ last \in Nat
  BY VoterRowFields DEF VotesOn
<1>2. /\ row.votes \in Nat /\ row.allocating_rewards \in Nat
      /\ row.allocated_rewards \in Nat /\ row.total_rewards <= MAX_AMOUNT
      /\ row.total_rewards \in Nat /\ MAX_AMOUNT \in Nat
      /\ row.rewards_per_vote \in Nat
  BY <1>1, ProducerRowFields
<1>3. row.rewards_per_vote >= last
  BY <1>1, <1>2 DEF PaidUpToInv
<1>4. n <= row.votes
  <2> DEFINE f == VotesOf(p)
  <2>1. \A u \in Voters : f[u] \in Nat
    BY <1>1, OwedNat DEF VotesOf
  <2>2. f[v] = n /\ row.votes = SumFunctionOnSet(f, Voters)
    BY <1>1, ByProducer DEF VotesOf, TallyAt
  <2> HIDE DEF f
  <2>3. f[v] <= SumFunctionOnSet(f, Voters)
    BY <2>1, SumBound, ConstantsAssumption
  <2> QED BY <2>2, <2>3
<1>5. /\ new_rewards(p, n, last) = Due(v, p)
      /\ Due(v, p) <= row.allocating_rewards
      /\ Due(v, p) \in Nat
  BY <1>1, DueCovered, DueNat DEF Due
<1>6. row.total_rewards = row.allocating_rewards + row.allocated_rewards
  BY <1>1 DEF ConservationInv
<1> HIDE DEF row, n, last
<1>7. row.allocated_rewards + Due(v, p) <= MAX_AMOUNT
  BY <1>2, <1>5, <1>6
<1>8. row.votes + (-n) >= 0
  BY <1>1, <1>2, <1>4
<1>9. row.allocating_rewards >= Due(v, p)
  BY <1>2, <1>5
<1>10. AllocateChecks(p, n, -n, last)
  BY <1>3, <1>4, <1>5, <1>6, <1>7, <1>8, <1>9 DEF AllocateChecks, row
<1> QED BY <1>10 DEF n, last

(* No check of the contract's own bookkeeping ever refuses a voter: it can *)
(* always take its votes off its producers and be paid what it earned.     *)
THEOREM AlwaysExits == Spec => []ExitInv
<1>1. ASSUME Books PROVE ExitInv
  <2> SUFFICES ASSUME NEW v \in Voters
               PROVE  /\ \A p \in voter_tbl[v].producers :
                            AllocateChecks(p, voter_tbl[v].votes, -voter_tbl[v].votes,
                                           voter_tbl[v].last_rewards_per_vote[p])
                      /\ voter_tbl[v].claimed_rewards + claimable(v) <= MAX_AMOUNT
    BY DEF ExitInv
  <2>1. \A p \in voter_tbl[v].producers :
           AllocateChecks(p, voter_tbl[v].votes, -voter_tbl[v].votes,
                          voter_tbl[v].last_rewards_per_vote[p])
    BY <1>1, ExitChecks
  <2>2. EarnedOf[v] \in 0..total_rewards
    BY <1>1, EarnedCovered DEF Books
  <2>3. EarnedOf[v] = voter_tbl[v].claimed_rewards + claimable(v)
    BY DEF EarnedOf, Earned
  <2>4. total_rewards \in 0..MAX_AMOUNT /\ MAX_AMOUNT \in Nat
    BY <1>1, ConstantsAssumption DEF Books, Ind, TypeOK
  <2> QED BY <2>1, <2>2, <2>3, <2>4
<1> QED BY <1>1, BooksBalance, PTL

-----------------------------------------------------------------------------
(* What is stranded stays stranded.                                        *)

LEMMA SettledStranded ==
    ASSUME Ind, Ind', NEW v \in Voters, Settled(v), NEW p \in Producers
    PROVE  Stranded(p)' >= Stranded(p)
<1> USE DEF Ind
<1> DEFINE o == OwedBy(p)
           k == OwedBy(p)'
           a == producer_tbl[p].allocating_rewards
           d == Due(v, p)
<1>1. a \in Nat /\ d \in Nat /\ HIGH_PRECISION \in Nat
  BY ProducerRowFields, DueNat
<1>2. \A u \in Voters : o[u] = Owed(u, p) /\ o[u] \in Nat
  BY OwedNat DEF OwedBy
<1>3. k[v] = 0
  BY DEF OwedBy, Settled
<1>4. \A u \in Voters \ {v} : k[u] = o[u]
  BY DEF OwedBy, Owed, VotesOn, Settled
<1>5. HIGH_PRECISION * d <= o[v]
  BY <1>2, SettlesAtMost DEF Due
<1>6. /\ Stranded(p) = HIGH_PRECISION * a - SumFunctionOnSet(o, Voters)
      /\ Stranded(p)' = HIGH_PRECISION * (a - d) - SumFunctionOnSet(k, Voters)
  BY DEF Stranded, OwedBy, Settled
<1> HIDE DEF o, k, a, d
<1>7. IntOn(o, Voters) /\ k[v] \in Int
  BY <1>2, <1>3 DEF IntOn
<1>8. /\ SumFunctionOnSet(k, Voters) = SumFunctionOnSet(o, Voters) - o[v] + k[v]
      /\ SumFunctionOnSet(o, Voters) \in Int
  BY ONLY <1>4, <1>7, v \in Voters, SumUpdate, ConstantsAssumption
<1> DEFINE x == HIGH_PRECISION * a
           y == HIGH_PRECISION * d
<1>9. x \in Int /\ y \in Int /\ HIGH_PRECISION * (a - d) = x - y
  BY <1>1
<1>10. o[v] \in Int /\ y <= o[v]
  BY <1>2, <1>5
<1>11. /\ Stranded(p) = x - SumFunctionOnSet(o, Voters)
       /\ Stranded(p)' = (x - y) - SumFunctionOnSet(k, Voters)
  BY <1>6, <1>9
<1> HIDE DEF x, y
<1> QED BY <1>3, <1>8, <1>9, <1>10, <1>11

(* Rewards that were not distributed when they arrived never come back to  *)
(* the voters: what a producer holds beyond its debts never shrinks.       *)
THEOREM StaysStranded == Spec => StrandedForever
<1>1. ASSUME Books, [Next]_vars
      PROVE  \A p \in Producers : Stranded(p)' >= Stranded(p)
  <2>1. Ind /\ Ind'
    BY <1>1, NextInd DEF Books
  <2>2. CASE Quiet
    <3> SUFFICES ASSUME NEW p \in Producers PROVE Stranded(p)' >= Stranded(p)
      OBVIOUS
    <3>1. Stranded(p)' = Stranded(p)
      BY <2>2 DEF Stranded, Owed, VotesOn, Quiet
    <3>2. Stranded(p) \in Int
      BY <2>1, OwedSumNat DEF Stranded, OwedBy, Ind
    <3> QED BY <3>1, <3>2
  <2>3. CASE \E v \in Voters : Settled(v)
    BY <2>1, <2>3, SettledStranded
  <2>4. CASE \E p \in Producers, q \in 1..MAX_AMOUNT : ontransfer(p, q) /\ initialized
    BY <2>1, <2>4, TransferKeeps
  <2> QED BY <1>1, <2>2, <2>3, <2>4, StepKinds
<1>2. Books /\ [Next]_vars => [\A p \in Producers : Stranded(p)' >= Stranded(p)]_vars
  BY <1>1
<1> QED BY <1>2, BooksBalance, PTL DEF Spec, StrandedForever

-----------------------------------------------------------------------------
(* The refinement of RewardPromise.                                        *)

LEMMA DivMonotone ==
    ASSUME NEW a \in Nat, NEW b \in Nat, a <= b, NEW c \in Nat, c > 0
    PROVE  a \div c <= b \div c
<1> DEFINE x == a \div c
           y == b \div c
<1>1. x \in Int /\ c * x <= a
  BY DivFloor
<1>2. y \in Int /\ b < c * y + c
  <2>1. y \in Int /\ b = c * y + (b % c) /\ b % c \in 0..(c - 1)
    OBVIOUS
  <2> QED BY <2>1
<1> HIDE DEF x, y
<1>3. SUFFICES ASSUME x >= y + 1 PROVE x <= y
  BY <1>1, <1>2 DEF x, y
<1>4. x - y - 1 \in Nat
  BY <1>1, <1>2, <1>3
<1>5. c * (x - y - 1) \in Nat /\ c * x \in Int /\ c * y \in Int
  BY <1>1, <1>2, <1>4
<1>6. c * (x - y - 1) = c * x - c * y - c
  BY <1>1, <1>2
<1> QED BY <1>1, <1>2, <1>5, <1>6

(* A voter whose producers earn more is not due less.                      *)
LEMMA DueGrows ==
    ASSUME TypeOK, TypeOK', PaidUpToInv, voter_tbl' = voter_tbl,
           NEW v \in Voters, NEW p \in Producers,
           producer_tbl'[p].rewards_per_vote >= producer_tbl[p].rewards_per_vote
    PROVE  Due(v, p)' >= Due(v, p) /\ Due(v, p)' \in Nat /\ Due(v, p) \in Nat
<1> DEFINE n == VotesOn(v, p)
           l == voter_tbl[v].last_rewards_per_vote[p]
           r == producer_tbl[p].rewards_per_vote
           s == producer_tbl'[p].rewards_per_vote
<1>1. n \in Nat /\ l \in Nat /\ r \in Nat
  BY VoterRowFields, ProducerRowFields DEF VotesOn
<1>2. s \in Nat
  BY DEF TypeOK, ProducerRow
<1>3. HIGH_PRECISION \in Nat /\ HIGH_PRECISION > 0
  BY ConstantsAssumption
<1>4. Due(v, p) = IF r - l > 0 /\ n > 0 THEN (n * (r - l)) \div HIGH_PRECISION ELSE 0
  BY DEF Due, new_rewards, calc_voter_rewards
<1>5. Due(v, p)' = IF s - l > 0 /\ n > 0 THEN (n * (s - l)) \div HIGH_PRECISION ELSE 0
  BY DEF Due, new_rewards, calc_voter_rewards, VotesOn
<1>6. s >= r
  OBVIOUS
<1> HIDE DEF n, l, r, s
<1>7. CASE r - l > 0 /\ n > 0
  <2> DEFINE x == n * (r - l)
             y == n * (s - l)
  <2>1. s - l > 0
    BY <1>1, <1>2, <1>6, <1>7
  <2>2. x \in Nat /\ n * (s - r) \in Nat /\ y = x + n * (s - r)
    BY <1>1, <1>2, <1>6, <1>7
  <2>3. Due(v, p) = x \div HIGH_PRECISION /\ Due(v, p)' = y \div HIGH_PRECISION
    BY <1>4, <1>5, <1>7, <2>1
  <2> HIDE DEF x, y
  <2>4. y \in Nat /\ x <= y
    BY <2>2
  <2>5. /\ x \div HIGH_PRECISION \in Nat /\ y \div HIGH_PRECISION \in Nat
        /\ x \div HIGH_PRECISION <= y \div HIGH_PRECISION
    BY <1>3, <2>2, <2>4, DivFloor, DivMonotone
  <2> QED BY <2>3, <2>5
<1>8. CASE ~(r - l > 0 /\ n > 0)
  <2>1. Due(v, p) = 0
    BY <1>4, <1>8
  <2>2. Due(v, p)' \in Nat
    <3>1. CASE s - l > 0 /\ n > 0
      <4>1. n * (s - l) \in Nat
        BY <1>1, <1>2, <3>1
      <4>2. (n * (s - l)) \div HIGH_PRECISION \in Nat
        BY <1>3, <4>1, DivFloor
      <4> QED BY <1>5, <3>1, <4>2
    <3>2. CASE ~(s - l > 0 /\ n > 0)
      BY <1>5, <3>2
    <3> QED BY <3>1, <3>2
  <2> QED BY <2>1, <2>2
<1> QED BY <1>7, <1>8

(* What was earned is credited or due, and covered, before and after every *)
(* step.                                                                   *)
EarnedIsDue ==
    \A v \in Voters :
        /\ Earned(v) = Credited(v) + SumFunctionOnSet(DueOf(v), Producers)
        /\ SumFunctionOnSet(DueOf(v), Producers) \in Nat
        /\ Credited(v) \in Nat

EarnedIsCovered ==
    /\ SumFunctionOnSet(EarnedOf, Voters) <= total_rewards
    /\ \A v \in Voters : EarnedOf[v] \in 0..total_rewards

LEMMA EarnedFacts == Books => EarnedIsDue /\ EarnedIsCovered
<1>1. Books => EarnedIsDue
  BY ClaimableIsDue, CreditedNat DEF EarnedIsDue, Books, Ind
<1>2. Books => EarnedIsCovered
  BY EarnedCovered DEF EarnedIsCovered, Books
<1> QED BY <1>1, <1>2

LEMMA EarnedFactsNext == (Books => EarnedIsDue /\ EarnedIsCovered)'
BY EarnedFacts, PTL

(* A settlement changes nobody's earnings.                                 *)
LEMMA SettledEarned ==
    ASSUME Books, Books', NEW v \in Voters, Settled(v)
    PROVE  EarnedOf' = EarnedOf
<1> USE DEF Books, Ind
<1>1. EarnedIsDue /\ EarnedIsDue'
  BY EarnedFacts, EarnedFactsNext
<1>2. ASSUME NEW u \in Voters PROVE Earned(u)' = Earned(u)
  <2>1. CASE u = v
    <3> DEFINE g == DueOf(v)'
    <3>1. \A p \in Producers : g[p] = 0
      BY DEF DueOf, Settled
    <3>2. Earned(v)' = Credited(v)' + SumFunctionOnSet(g, Producers)
      BY <1>1 DEF EarnedIsDue
    <3> HIDE DEF g
    <3>3. SumFunctionOnSet(g, Producers) = 0
      BY <3>1, SumZero, ConstantsAssumption
    <3>4. Credited(v)' \in Nat
      BY <1>1 DEF EarnedIsDue
    <3>5. Earned(v)' = Credited(v)'
      BY <3>2, <3>3, <3>4
    <3>6. Credited(v)' = Earned(v)
      BY <1>1 DEF Settled, EarnedIsDue
    <3> QED BY <2>1, <3>5, <3>6
  <2>2. CASE u # v
    <3>1. voter_tbl'[u] = voter_tbl[u]
      BY <2>2 DEF Settled
    <3>2. \A p \in Producers :
            producer_tbl'[p].rewards_per_vote = producer_tbl[p].rewards_per_vote
      BY DEF Settled
    <3>3. DueOf(u)' = DueOf(u)
      BY <3>1, <3>2 DEF DueOf, Due, new_rewards, VotesOn
    <3>4. Credited(u)' = Credited(u)
      BY <3>1 DEF Credited
    <3> QED BY <1>1, <3>3, <3>4 DEF EarnedIsDue
  <2> QED BY <2>1, <2>2
<1> QED BY <1>2 DEF EarnedOf

PaidOf == [v \in Voters |-> voter_tbl[v].claimed_rewards]

(* RewardPromise adds up with the same operator.                           *)
LEMMA PromiseSum ==
    ASSUME NEW f, NEW S
    PROVE  Promise!SumFunctionOnSet(f, S) = SumFunctionOnSet(f, S)
BY DEF SumFunctionOnSet, FoldFunctionOnSet, MapThenFoldSet,
       Promise!SumFunctionOnSet, Promise!FoldFunctionOnSet, Promise!MapThenFoldSet

(* A reward takes nothing from anyone.                                     *)
LEMMA TransferEarned ==
    ASSUME Books, Books', initialized,
           NEW from \in Producers, NEW q \in 1..MAX_AMOUNT, ontransfer(from, q)
    PROVE  Promise!Receive
<1> USE DEF Books, Ind
<1>1. EarnedIsDue /\ EarnedIsDue' /\ EarnedIsCovered'
  BY EarnedFacts, EarnedFactsNext
<1> DEFINE row == producer_tbl[from]
           rate == calc_rewards_per_vote(row.rewards_per_vote, q, row.votes)
<1>2. /\ total_rewards' = total_rewards + q
      /\ voter_tbl' = voter_tbl
      /\ producer_tbl' = [producer_tbl EXCEPT
            ![from] = [ is_registered |-> row.is_registered,
                        total_rewards |-> row.total_rewards + q,
                        allocating_rewards |-> row.allocating_rewards + q,
                        allocated_rewards |-> row.allocated_rewards,
                        votes |-> row.votes,
                        rewards_per_vote |-> rate ]]
  BY TransferRow
<1>3. rate \in Nat /\ rate >= row.rewards_per_vote
  <2>1. row.rewards_per_vote \in Nat /\ row.votes \in Nat /\ q \in Nat
    BY ProducerRowFields
  <2> QED BY <2>1, RateRises
<1> HIDE DEF rate
<1>4. \A p \in Producers :
        producer_tbl'[p].rewards_per_vote >= producer_tbl[p].rewards_per_vote
  <2> SUFFICES ASSUME NEW p \in Producers
               PROVE  producer_tbl'[p].rewards_per_vote
                        >= producer_tbl[p].rewards_per_vote
    OBVIOUS
  <2>1. CASE p = from
    <3>1. producer_tbl'[from].rewards_per_vote = rate
      BY <1>2 DEF TypeOK
    <3> QED BY <1>3, <2>1, <3>1
  <2>2. CASE p # from
    <3>1. producer_tbl'[p] = producer_tbl[p]
      BY <1>2, <2>2 DEF TypeOK
    <3>2. producer_tbl[p].rewards_per_vote \in Nat
      BY ProducerRowFields
    <3> QED BY <3>1, <3>2
  <2> QED BY <2>1, <2>2
<1>5. ASSUME NEW v \in Voters PROVE EarnedOf'[v] >= EarnedOf[v]
  <2> DEFINE f == DueOf(v)
             g == DueOf(v)'
  <2>1. \A p \in Producers : f[p] <= g[p] /\ f[p] \in Int /\ g[p] \in Int
    <3>1. \A p \in Producers :
             Due(v, p)' >= Due(v, p) /\ Due(v, p)' \in Nat /\ Due(v, p) \in Nat
      BY <1>2, <1>4, DueGrows
    <3> QED BY <3>1 DEF DueOf
  <2>2. /\ Earned(v) = Credited(v) + SumFunctionOnSet(f, Producers)
        /\ Earned(v)' = Credited(v)' + SumFunctionOnSet(g, Producers)
        /\ SumFunctionOnSet(f, Producers) \in Nat
        /\ SumFunctionOnSet(g, Producers) \in Nat
        /\ Credited(v) \in Nat
    BY <1>1 DEF EarnedIsDue
  <2>3. Credited(v)' = Credited(v)
    BY <1>2 DEF Credited
  <2> HIDE DEF f, g
  <2>4. SumFunctionOnSet(f, Producers) <= SumFunctionOnSet(g, Producers)
    <3>1. IntOn(f, Producers) /\ IntOn(g, Producers) /\ \A p \in Producers : f[p] <= g[p]
      BY <2>1 DEF IntOn
    <3> QED BY <3>1, SumMonotone, ConstantsAssumption
  <2>5. Earned(v)' >= Earned(v)
    BY <2>2, <2>3, <2>4
  <2> QED BY <2>5 DEF EarnedOf
<1>6. total_rewards' > total_rewards
  BY <1>2, ConstantsAssumption DEF TypeOK
<1>7. EarnedOf' \in [Voters -> 0..total_rewards']
  <2>1. \A v \in Voters : EarnedOf'[v] \in 0..total_rewards'
    BY <1>1 DEF EarnedIsCovered
  <2> QED BY <2>1 DEF EarnedOf
<1>8. SumFunctionOnSet(EarnedOf', Voters) <= total_rewards'
  BY <1>1 DEF EarnedIsCovered
<1>9. PaidOf' = PaidOf
  BY <1>2 DEF PaidOf
<1>10. Promise!SumFunctionOnSet(EarnedOf', Voters) <= total_rewards'
  BY <1>8, PromiseSum
<1> QED BY <1>5, <1>6, <1>7, <1>9, <1>10 DEF Promise!Receive, EarnedOf, PaidOf

(* A claim pays all that was earned.                                       *)
LEMMA ClaimPays ==
    ASSUME Books, Books', NEW v \in Voters, Settled(v),
           voter_tbl'[v].claimed_rewards = Earned(v),
           Earned(v) > voter_tbl[v].claimed_rewards
    PROVE  Promise!Pay(v)
<1>1. EarnedOf' = EarnedOf /\ total_rewards' = total_rewards
  BY SettledEarned DEF Settled
<1>2. PaidOf' = [PaidOf EXCEPT ![v] = EarnedOf[v]]
  BY DEF PaidOf, EarnedOf, Settled
<1>3. EarnedOf[v] > PaidOf[v]
  BY DEF EarnedOf, PaidOf
<1> QED BY <1>1, <1>2, <1>3 DEF Promise!Pay, EarnedOf, PaidOf

(* flon.reward keeps its promise: it implements RewardPromise, the         *)
(* dispatcher without producers, votes or fixed-point numbers, in which    *)
(* only receiving a reward adds to what a voter has earned, never more     *)
(* than was received, and a claim pays everything earned.                  *)
THEOREM Refinement == Spec => KeepsPromise
<1>1. ASSUME Init PROVE Promise!Init
  <2>1. Books
    BY <1>1, InitBooks
  <2>2. EarnedIsCovered
    BY <2>1, EarnedFacts
  <2>3. total_rewards = 0
    BY <1>1 DEF Init
  <2>4. \A v \in Voters : EarnedOf[v] = 0
    BY <2>2, <2>3 DEF EarnedIsCovered
  <2>5. EarnedOf = [v \in Voters |-> 0]
    BY <2>4 DEF EarnedOf
  <2>6. PaidOf = [v \in Voters |-> 0]
    BY <1>1 DEF Init, PaidOf
  <2> QED BY <2>3, <2>5, <2>6 DEF Promise!Init, EarnedOf, PaidOf
<1>2. ASSUME Books, [Next]_vars
      PROVE  [Promise!Next]_(Promise!vars)
  <2>1. Books'
    BY <1>2, NextBooks
  <2>2. CASE Quiet
    <3>1. voter_tbl' = voter_tbl /\ total_rewards' = total_rewards
      BY <2>2 DEF Quiet
    <3>2. EarnedOf' = EarnedOf
      <4>1. \A v \in Voters : DueOf(v)' = DueOf(v) /\ Credited(v)' = Credited(v)
        BY <2>2 DEF Quiet, DueOf, Due, new_rewards, VotesOn, Credited
      <4>2. EarnedIsDue /\ EarnedIsDue'
        BY <1>2, <2>1, EarnedFacts, EarnedFactsNext
      <4>3. \A v \in Voters : Earned(v)' = Earned(v)
        BY <4>1, <4>2 DEF EarnedIsDue
      <4> QED BY <4>3 DEF EarnedOf
    <3>3. PaidOf' = PaidOf
      BY <3>1 DEF PaidOf
    <3> QED BY <3>1, <3>2, <3>3 DEF Promise!vars, EarnedOf, PaidOf
  <2>3. ASSUME NEW v \in Voters, Settled(v),
               voter_tbl'[v].claimed_rewards = voter_tbl[v].claimed_rewards
        PROVE  UNCHANGED Promise!vars
    <3>1. EarnedOf' = EarnedOf /\ total_rewards' = total_rewards
      BY <1>2, <2>1, <2>3, SettledEarned DEF Settled
    <3>2. PaidOf' = PaidOf
      BY <2>3 DEF PaidOf, Settled
    <3> QED BY <3>1, <3>2 DEF Promise!vars, EarnedOf, PaidOf
  <2>4. ASSUME NEW v \in Voters, Settled(v),
               voter_tbl'[v].claimed_rewards = Earned(v),
               Earned(v) > voter_tbl[v].claimed_rewards
        PROVE  Promise!Next
    BY <1>2, <2>1, <2>4, ClaimPays DEF Promise!Next
  <2>5. ASSUME NEW p \in Producers, NEW q \in 1..MAX_AMOUNT,
               ontransfer(p, q), initialized
        PROVE  Promise!Next
    BY <1>2, <2>1, <2>5, TransferEarned DEF Promise!Next
  <2> QED BY <1>2, <2>2, <2>3, <2>4, <2>5, StepKinds
<1>3. Books /\ [Next]_vars => [Promise!Next]_(Promise!vars)
  BY <1>2
<1>4. Spec => Promise!Spec
  BY <1>1, <1>3, BooksBalance, PTL DEF Spec, Promise!Spec
<1> QED BY <1>4 DEF KeepsPromise

=============================================================================
