--------------------------- MODULE ElectionProofs ---------------------------
(***************************************************************************)
(* Theorems about Election: the two copies of the votes agree, the custody *)
(* accounts cover what is due, and no contract refuses what another one    *)
(* granted.  Each step of Election is a step of Reward and one of Voting,  *)
(* or leaves them alone, so that what is proved about the two holds in the *)
(* composition too; the lemmas below that begin with Same say that their   *)
(* definitions mean the same there as here.                                *)
(***************************************************************************)
EXTENDS Election, SumTheorems

RP == INSTANCE RewardProofs

VP == INSTANCE VotingProofs

LEMMA Constants ==
    /\ IsFiniteSet(Voters) /\ IsFiniteSet(Producers)
    /\ HIGH_PRECISION \in Nat \ {0} /\ RefundDelaySec \in Nat \ {0}
    /\ MAX_AMOUNT \in Nat /\ MaxVoteProducers \in Nat /\ MaxVotes \in Nat
    /\ MaxTransfer \in Nat /\ MaxTime \in Nat \ {0}
    /\ ElectionTimes \subseteq 1..MaxTime
BY ElectionAssumption

LEMMA RewardConstants == RP!ConstantsAssumption
BY Constants, Zenon DEF IsFiniteSet, RP!IsFiniteSet, RP!ConstantsAssumption

LEMMA VotingConstants == VP!VotingAssumption
BY Constants, Zenon DEF IsFiniteSet, VP!IsFiniteSet, VP!VotingAssumption

LEMMA FiniteAccounts == IsFiniteSet(Accounts)
<1>1. IsFiniteSet(Users)
  BY Constants, FS_Union DEF Users
<1>2. IsFiniteSet({VOTE_ACCOUNT, REWARD_ACCOUNT})
  <2>1. IsFiniteSet({VOTE_ACCOUNT}) /\ IsFiniteSet({REWARD_ACCOUNT})
    BY FS_Singleton
  <2>2. {VOTE_ACCOUNT, REWARD_ACCOUNT} = {VOTE_ACCOUNT} \cup {REWARD_ACCOUNT}
    OBVIOUS
  <2> QED BY <2>1, <2>2, FS_Union
<1> QED BY <1>1, <1>2, FS_Union DEF Accounts

-----------------------------------------------------------------------------
(* The same definitions under two names.                                   *)

LEMMA SameSums ==
    ASSUME NEW f, NEW S
    PROVE  /\ R!SumFunctionOnSet(f, S) = SumFunctionOnSet(f, S)
           /\ RP!SumFunctionOnSet(f, S) = SumFunctionOnSet(f, S)
           /\ VP!SumFunctionOnSet(f, S) = SumFunctionOnSet(f, S)
<1>1. R!SumFunctionOnSet(f, S) = SumFunctionOnSet(f, S)
  BY DEF R!SumFunctionOnSet, R!FoldFunctionOnSet, R!MapThenFoldSet,
         SumFunctionOnSet, FoldFunctionOnSet, MapThenFoldSet
<1>2. RP!SumFunctionOnSet(f, S) = SumFunctionOnSet(f, S)
  BY DEF RP!SumFunctionOnSet, RP!FoldFunctionOnSet, RP!MapThenFoldSet,
         SumFunctionOnSet, FoldFunctionOnSet, MapThenFoldSet
<1>3. VP!SumFunctionOnSet(f, S) = SumFunctionOnSet(f, S)
  BY DEF VP!SumFunctionOnSet, VP!FoldFunctionOnSet, VP!MapThenFoldSet,
         SumFunctionOnSet, FoldFunctionOnSet, MapThenFoldSet
<1> QED BY <1>1, <1>2, <1>3

LEMMA SameNewRewards ==
    ASSUME NEW p, NEW n, NEW last
    PROVE  R!new_rewards(p, n, last) = RP!new_rewards(p, n, last)
BY DEF R!new_rewards, RP!new_rewards, R!calc_voter_rewards, RP!calc_voter_rewards

LEMMA SameAllocateChecks ==
    ASSUME NEW p, NEW n, NEW d, NEW last
    PROVE  R!AllocateChecks(p, n, d, last) <=> RP!AllocateChecks(p, n, d, last)
BY Zenon
   DEF R!AllocateChecks, RP!AllocateChecks, R!Fits, RP!Fits, R!new_rewards,
       RP!new_rewards, R!calc_voter_rewards, RP!calc_voter_rewards

LEMMA SameAllocatedSum ==
    ASSUME NEW v, NEW P, NEW n
    PROVE  R!AllocatedSum(v, P, n) = RP!AllocatedSum(v, P, n)
<1> DEFINE f == [p \in Producers |->
               R!new_rewards(p, n[p], voter_tbl[v].last_rewards_per_vote[p])]
           g == [p \in Producers |->
               RP!new_rewards(p, n[p], voter_tbl[v].last_rewards_per_vote[p])]
<1>1. f = g
  BY SameNewRewards
<1>2. R!AllocatedSum(v, P, n) = R!SumFunctionOnSet(f, P)
  BY DEF R!AllocatedSum
<1>3. RP!AllocatedSum(v, P, n) = RP!SumFunctionOnSet(g, P)
  BY DEF RP!AllocatedSum
<1> HIDE DEF f, g
<1> QED BY <1>1, <1>2, <1>3, SameSums

LEMMA SameAllocate ==
    ASSUME NEW v, NEW P, NEW n, NEW d
    PROVE  R!allocate_producer_rewards(v, P, n, d)
             <=> RP!allocate_producer_rewards(v, P, n, d)
BY Zenon
   DEF R!allocate_producer_rewards, RP!allocate_producer_rewards,
       R!AllocateChecks, RP!AllocateChecks, R!Fits, RP!Fits, R!new_rewards,
       RP!new_rewards, R!calc_voter_rewards, RP!calc_voter_rewards

LEMMA SamePaidUpTo == ASSUME NEW P PROVE R!PaidUpTo(P) = RP!PaidUpTo(P)
BY Zenon DEF R!PaidUpTo, RP!PaidUpTo

LEMMA SameChangeVote ==
    ASSUME NEW v, NEW n, NEW adding, R!change_vote(v, n, adding)
    PROVE  RP!change_vote(v, n, adding)
<1> DEFINE P == voter_tbl[v].producers
           old == [p \in Producers |-> voter_tbl[v].votes]
           delta == [p \in Producers |-> IF adding THEN n ELSE -n]
<1>1. R!AllocatedSum(v, P, old) = RP!AllocatedSum(v, P, old)
  BY SameAllocatedSum
<1>2. R!PaidUpTo(P) = RP!PaidUpTo(P)
  BY SamePaidUpTo
<1>3. R!allocate_producer_rewards(v, P, old, delta)
        <=> RP!allocate_producer_rewards(v, P, old, delta)
  BY SameAllocate
<1> DEFINE row == voter_tbl[v]
           New(last, paid) == [voter_tbl EXCEPT ![v] = [row EXCEPT
              !.votes = @ + (IF adding THEN n ELSE -n),
              !.last_rewards_per_vote = last,
              !.unclaimed_rewards = @ + paid]]
<1>4. /\ R!allocate_producer_rewards(v, P, old, delta)
      /\ voter_tbl' = New(R!PaidUpTo(P), R!AllocatedSum(v, P, old))
      /\ row.unclaimed_rewards + R!AllocatedSum(v, P, old) <= MAX_AMOUNT
      /\ initialized /\ n > 0 /\ (~adding => row.votes >= n)
      /\ row.votes + (IF adding THEN n ELSE -n) <= MaxVotes
      /\ UNCHANGED <<initialized, total_rewards>>
  BY Zenon DEF R!change_vote, R!Fits
<1> HIDE DEF New, old, delta, P
<1>5. /\ RP!allocate_producer_rewards(v, P, old, delta)
      /\ voter_tbl' = New(RP!PaidUpTo(P), RP!AllocatedSum(v, P, old))
      /\ row.unclaimed_rewards + RP!AllocatedSum(v, P, old) <= MAX_AMOUNT
  BY <1>1, <1>2, <1>3, <1>4
<1> QED
  BY <1>4, <1>5, Zenon DEF RP!change_vote, RP!Fits, New, old, delta, P

LEMMA SameVoteproducer ==
    ASSUME NEW v, NEW P, R!voteproducer(v, P)
    PROVE  RP!voteproducer(v, P)
<1> DEFINE Q == voter_tbl[v].producers \cup P
           old == RP!OldVotes(v)
           delta == RP!VotesMoved(v, P)
<1>1. R!OldVotes(v) = old
  BY Zenon DEF R!OldVotes, RP!OldVotes
<1>2. R!VotesMoved(v, P) = delta
  BY Zenon DEF R!VotesMoved, RP!VotesMoved
<1>3. R!AllocatedSum(v, Q, old) = RP!AllocatedSum(v, Q, old)
  BY SameAllocatedSum
<1>4. R!PaidUpTo(P) = RP!PaidUpTo(P)
  BY SamePaidUpTo
<1>5. R!allocate_producer_rewards(v, Q, old, delta)
        <=> RP!allocate_producer_rewards(v, Q, old, delta)
  BY SameAllocate
<1> DEFINE row == voter_tbl[v]
           New(last, paid) == [voter_tbl EXCEPT ![v] = [row EXCEPT
              !.producers = P,
              !.last_rewards_per_vote = last,
              !.unclaimed_rewards = @ + paid]]
<1>6. /\ R!allocate_producer_rewards(v, Q, R!OldVotes(v), R!VotesMoved(v, P))
      /\ voter_tbl' = New(R!PaidUpTo(P), R!AllocatedSum(v, Q, R!OldVotes(v)))
      /\ row.unclaimed_rewards + R!AllocatedSum(v, Q, R!OldVotes(v)) <= MAX_AMOUNT
      /\ initialized
      /\ UNCHANGED <<initialized, total_rewards>>
  BY Zenon DEF R!voteproducer, R!Fits
<1> HIDE DEF New, old, delta, Q
<1>7. /\ RP!allocate_producer_rewards(v, Q, old, delta)
      /\ voter_tbl' = New(RP!PaidUpTo(P), RP!AllocatedSum(v, Q, old))
      /\ row.unclaimed_rewards + RP!AllocatedSum(v, Q, old) <= MAX_AMOUNT
  BY <1>1, <1>2, <1>3, <1>4, <1>5, <1>6
<1> QED
  BY <1>6, <1>7, Zenon DEF RP!voteproducer, RP!Fits, New, old, delta, Q

LEMMA SameClaimable == ASSUME NEW v PROVE R!claimable(v) = RP!claimable(v)
BY SameAllocatedSum, SMT DEF R!claimable, RP!claimable

LEMMA SameClaim ==
    ASSUME NEW v, R!claimrewards(v)
    PROVE  RP!claimrewards(v) /\ RP!claim_rewards(v)
<1> DEFINE P == voter_tbl[v].producers
           S == IF voter_tbl[v].votes > 0 THEN P ELSE {}
           old == [p \in Producers |-> voter_tbl[v].votes]
           delta == [p \in Producers |-> 0]
<1>1. R!claimable(v) = RP!claimable(v)
  BY SameClaimable
<1>2. R!PaidUpTo(P) = RP!PaidUpTo(P)
  BY SamePaidUpTo
<1>3. R!allocate_producer_rewards(v, S, old, delta)
        <=> RP!allocate_producer_rewards(v, S, old, delta)
  BY SameAllocate
<1> QED
  BY <1>1, <1>2, <1>3, SMT
     DEF R!claimrewards, RP!claimrewards, R!claim_rewards, RP!claim_rewards,
         R!Fits, RP!Fits

LEMMA SameOntransfer ==
    ASSUME NEW from, NEW q, R!ontransfer(from, q)
    PROVE  RP!ontransfer(from, q)
BY Zenon
   DEF R!ontransfer, RP!ontransfer, R!Fits, RP!Fits, R!calc_rewards_per_vote,
       RP!calc_rewards_per_vote, R!vars, RP!vars

LEMMA SameSubvoteChecks ==
    ASSUME NEW v, NEW n
    PROVE  V!SubvoteChecks(v, n) <=> VP!SubvoteChecks(v, n)
BY Zenon
   DEF V!SubvoteChecks, VP!SubvoteChecks, V!UpdateChecks, VP!UpdateChecks,
       V!NoRefund, VP!NoRefund

LEMMA SameRefundChecks ==
    ASSUME NEW v
    PROVE  V!RefundChecks(v) <=> VP!RefundChecks(v)
BY Zenon
   DEF V!RefundChecks, VP!RefundChecks, V!Mature, VP!Mature, V!NoRefund, VP!NoRefund

LEMMA SameVotingProducer ==
    ASSUME NEW v, NEW P, V!voteproducer(v, P)
    PROVE  VP!voteproducer(v, P)
<1> DEFINE row == voters[v]
           Less(p) == producers[p].total_votes
                        - (IF p \in row.producers THEN row.votes ELSE 0)
<1>0. V!Cardinality(P) = VP!Cardinality(P)
  BY DEF V!Cardinality, VP!Cardinality, V!IsFiniteSet, VP!IsFiniteSet
<1>1. /\ V!Cardinality(P) <= MaxVoteProducers
      /\ row.exists
      /\ P # row.producers
      /\ \A p \in row.producers :
            V!UpdateChecks(p, producers[p].total_votes, -row.votes)
      /\ \A p \in P : V!UpdateChecks(p, Less(p), row.votes)
      /\ producers' = [p \in Producers |->
            [producers[p] EXCEPT !.total_votes =
                Less(p) + (IF p \in P THEN row.votes ELSE 0)]]
      /\ voters' = [voters EXCEPT ![v].producers = P]
      /\ UNCHANGED <<now, election_activated_time, total_vote_stake,
                     refunds, deferred, due>>
  BY Zenon DEF V!voteproducer, V!removed_prods, V!added_prods
<1> QED
  BY <1>0, <1>1, Zenon DEF VP!voteproducer, VP!removed_prods, VP!added_prods,
     V!UpdateChecks, VP!UpdateChecks

-----------------------------------------------------------------------------
(* Every step of Election is one of Voting.                                *)

LEMMA VotingSteps ==
    ASSUME Next
    PROVE  [VP!Next]_(VP!vars)
<1> DEFINE Still == UNCHANGED VP!vars
<1>1. UNCHANGED vvars => Still
  BY DEF vvars, VP!vars
<1>2. ASSUME NEW p \in Producers,
             regproducer(p) \/ unregprod(p) \/ rmvproducer(p)
      PROVE  VP!Next
  <2>1. VP!register_producer(p) \/ VP!unregprod(p) \/ VP!rmvproducer(p)
    BY <1>2
       DEF regproducer, unregprod, rmvproducer, V!register_producer, V!unregprod,
           V!rmvproducer, V!deactivate, VP!register_producer, VP!unregprod,
           VP!rmvproducer, VP!deactivate
  <2> QED BY <2>1 DEF VP!Next
<1>3. ASSUME NEW v \in Voters, NEW n \in 1..MaxVotes, addvote(v, n)
      PROVE  VP!Next
  <2>1. V!addvote(v, n)
    BY <1>3 DEF addvote
  <2>2. VP!addvote(v, n)
    BY <2>1, Zenon
       DEF V!addvote, VP!addvote, V!AddStake, VP!AddStake,
           V!update_producer_votes, VP!update_producer_votes, V!UpdateChecks,
           VP!UpdateChecks
  <2> QED BY <2>2 DEF VP!Next
<1>4. ASSUME NEW v \in Voters, NEW n \in 1..MaxVotes,
             NEW queued \in BOOLEAN, subvote(v, n, queued)
      PROVE  VP!Next
  <2>1. V!subvote(v, n, queued)
    BY <1>4 DEF subvote
  <2>2. VP!subvote(v, n, queued)
    BY <2>1, SameSubvoteChecks, Zenon
       DEF V!subvote, VP!subvote, V!update_producer_votes,
           VP!update_producer_votes, V!UpdateChecks, VP!UpdateChecks,
           V!ToSeconds, VP!ToSeconds
  <2> QED BY <2>2 DEF VP!Next
<1>5. ASSUME NEW v \in Voters, NEW P \in SUBSET Producers, voteproducer(v, P)
      PROVE  VP!Next
  BY <1>5, SameVotingProducer DEF voteproducer, VP!Next
<1>6. ASSUME NEW v \in Voters, voterefund(v)
      PROVE  VP!Next
  <2>1. V!voterefund(v)
    BY <1>6 DEF voterefund
  <2>2. VP!voterefund(v)
    BY <2>1, SameRefundChecks, Zenon
       DEF V!voterefund, VP!voterefund, V!PayRefund, VP!PayRefund,
           V!NoRefund, VP!NoRefund
  <2> QED BY <2>2 DEF VP!Next
<1>7. ASSUME NEW v \in Voters, RunDeferred(v)
      PROVE  VP!Next
  <2>1. V!RunDeferred(v)
    BY <1>7 DEF RunDeferred
  <2>2. V!RefundChecks(v) <=> VP!RefundChecks(v)
    BY SameRefundChecks
  <2>3. VP!RunDeferred(v)
    BY <2>1, <2>2, SMT
       DEF V!RunDeferred, VP!RunDeferred, V!PayRefund, VP!PayRefund,
           V!NoRefund, VP!NoRefund
  <2> QED BY <2>3 DEF VP!Next
<1>8. ASSUME NEW t \in ElectionTimes, cfgelection(t)
      PROVE  VP!Next
  BY <1>8 DEF cfgelection, V!cfgelection, VP!cfgelection, VP!Next
<1>9. CASE Tick
  BY <1>9 DEF Tick, V!Tick, VP!Tick, VP!Next
<1>10. CASE init
  BY <1>1, <1>10 DEF init
<1>11. ASSUME NEW p \in Producers, reward_regproducer(p)
       PROVE  Still
  BY <1>1, <1>11 DEF reward_regproducer
<1>12. ASSUME NEW v \in Voters, claimrewards(v)
       PROVE  Still
  BY <1>1, <1>12 DEF claimrewards
<1>13. ASSUME NEW a, NEW b, NEW n, transfer(a, b, n)
       PROVE  Still
  BY <1>1, <1>13 DEF transfer
<1>14. ASSUME NEW v \in Voters, DropDeferred(v)
       PROVE  VP!Next
  BY <1>14 DEF DropDeferred, V!DropDeferred, VP!DropDeferred, VP!Next
<1> HIDE DEF Still
<1> QED
  BY <1>2, <1>3, <1>4, <1>5, <1>6, <1>7, <1>8, <1>9, <1>10, <1>11, <1>12,
     <1>13, <1>14 DEF Next, Still

-----------------------------------------------------------------------------
(* The tokens.                                                             *)

Holdings == [a \in Accounts |-> balance[a][CORE]]

(* Transfers conserve the tokens, which fit an asset together, and who has *)
(* tokens has a row.                                                       *)
Ledger ==
    /\ balance \in [Accounts -> [{CORE} -> Nat]]
    /\ SumFunctionOnSet(Holdings, Accounts) <= MAX_AMOUNT
    /\ \A a \in Accounts : <<a, CORE>> \notin rows => balance[a][CORE] = 0

LEMMA HoldingsNat ==
    ASSUME Ledger
    PROVE  /\ \A a \in Accounts : Holdings[a] = balance[a][CORE] /\ Holdings[a] \in Nat
           /\ \A a \in Accounts : balance[a][CORE] \in Nat
           /\ IntOn(Holdings, Accounts)
BY DEF Ledger, Holdings, IntOn

(* Any two accounts together hold no more than fits one asset.             *)
LEMMA TwoHoldings ==
    ASSUME Ledger, NEW a \in Accounts, NEW b \in Accounts, a # b
    PROVE  balance[a][CORE] + balance[b][CORE] <= MAX_AMOUNT
<1> DEFINE f == Holdings
           S == Accounts \ {a}
<1>1. \A c \in Accounts : f[c] = balance[c][CORE] /\ f[c] \in Nat
  BY HoldingsNat
<1>2. SumFunctionOnSet(f, Accounts) <= MAX_AMOUNT
  BY DEF Ledger
<1>3. IntOn(f, Accounts)
  BY HoldingsNat
<1> HIDE DEF f
<1>4. /\ SumFunctionOnSet(f, Accounts) = f[a] + SumFunctionOnSet(f, S)
      /\ SumFunctionOnSet(f, S) \in Int
  BY <1>3, FiniteAccounts, SumRemove
<1>5. IsFiniteSet(S) /\ b \in S /\ \A c \in S : f[c] \in Nat
  BY <1>1, FiniteAccounts, FS_RemoveElement
<1> HIDE DEF S
<1>6. f[b] <= SumFunctionOnSet(f, S)
  BY <1>5, SumBound
<1> QED BY <1>1, <1>2, <1>4, <1>6, Constants

LEMMA TransferLedger ==
    ASSUME Ledger, NEW a \in Accounts, NEW b \in Accounts, NEW q \in Nat,
           T!transfer(a, b, CORE, q)
    PROVE  /\ Ledger'
           /\ a # b /\ q > 0 /\ q <= MAX_AMOUNT
           /\ balance[a][CORE] >= q
           /\ balance'[a][CORE] = balance[a][CORE] - q
           /\ balance'[b][CORE] = balance[b][CORE] + q
           /\ \A c \in Accounts \ {a, b} : balance'[c][CORE] = balance[c][CORE]
<1>0. MAX_AMOUNT \in Nat
  BY Constants
<1>1. /\ balance \in [Accounts -> [{CORE} -> Nat]]
      /\ \A c \in Accounts : balance[c][CORE] \in Nat
  BY DEF Ledger
<1>2. /\ a # b /\ q > 0
      /\ balance[a][CORE] >= q
      /\ balance[b][CORE] + q <= MAX_AMOUNT
      /\ rows' = rows \cup {<<b, CORE>>}
      /\ <<a, CORE>> \in rows
      /\ balance' = [balance EXCEPT ![a][CORE] = @ - q, ![b][CORE] = @ + q]
  BY DEF T!transfer, T!sub_balance_ok, T!add_balance_ok
<1> DEFINE m == [balance EXCEPT ![a][CORE] = @ - q]
<1>3. /\ m \in [Accounts -> [{CORE} -> Nat]]
      /\ m[a][CORE] = balance[a][CORE] - q
      /\ \A c \in Accounts \ {a} : m[c] = balance[c]
  <2>1. balance[a][CORE] - q \in Nat
    BY <1>1, <1>2
  <2> QED BY <1>1, <2>1
<1>4. balance' = [m EXCEPT ![b][CORE] = @ + q]
  BY <1>2
<1> HIDE DEF m
<1>5. /\ balance' \in [Accounts -> [{CORE} -> Nat]]
      /\ balance'[b][CORE] = m[b][CORE] + q
      /\ \A c \in Accounts \ {b} : balance'[c] = m[c]
  BY <1>3, <1>4
<1>6. /\ balance'[a][CORE] = balance[a][CORE] - q
      /\ balance'[b][CORE] = balance[b][CORE] + q
      /\ \A c \in Accounts \ {a, b} : balance'[c][CORE] = balance[c][CORE]
  BY <1>2, <1>3, <1>5
<1>7. q <= MAX_AMOUNT
  BY <1>0, <1>1, <1>2
<1>8. SumFunctionOnSet(Holdings', Accounts) = SumFunctionOnSet(Holdings, Accounts)
  <2> DEFINE f == Holdings
             g == [c \in Accounts |-> m[c][CORE]]
             h == Holdings'
  <2>1. IntOn(f, Accounts) /\ IntOn(g, Accounts) /\ IntOn(h, Accounts)
    BY <1>1, <1>3, <1>5 DEF Holdings, IntOn
  <2>2. g[a] = f[a] - q /\ DiffersAt(f, g, Accounts, a)
    BY <1>3 DEF Holdings, DiffersAt
  <2>3. h[b] = g[b] + q /\ DiffersAt(g, h, Accounts, b)
    BY <1>5 DEF Holdings, DiffersAt
  <2> HIDE DEF f, g, h
  <2>4. f[a] \in Int /\ g[a] \in Int /\ g[b] \in Int /\ h[b] \in Int
    BY <2>1 DEF IntOn
  <2>5. IntOn(f, Accounts) /\ DiffersAt(f, g, Accounts, a) /\ g[a] \in Int
    BY <2>1, <2>2, <2>4
  <2>6. IntOn(g, Accounts) /\ DiffersAt(g, h, Accounts, b) /\ h[b] \in Int
    BY <2>1, <2>3, <2>4
  <2>7. /\ SumFunctionOnSet(g, Accounts) = SumFunctionOnSet(f, Accounts) - f[a] + g[a]
        /\ SumFunctionOnSet(f, Accounts) \in Int
    BY ONLY <2>5, SumChange, FiniteAccounts, a \in Accounts
  <2>8. /\ SumFunctionOnSet(h, Accounts) = SumFunctionOnSet(g, Accounts) - g[b] + h[b]
        /\ SumFunctionOnSet(g, Accounts) \in Int
    BY ONLY <2>6, SumChange, FiniteAccounts, b \in Accounts
  <2>9. SumFunctionOnSet(h, Accounts) = SumFunctionOnSet(f, Accounts)
    BY <2>2, <2>3, <2>4, <2>7, <2>8
  <2> QED BY <2>9 DEF f, h
<1>9. \A c \in Accounts : <<c, CORE>> \notin rows' => balance'[c][CORE] = 0
  <2> SUFFICES ASSUME NEW c \in Accounts, <<c, CORE>> \notin rows'
               PROVE  balance'[c][CORE] = 0
    OBVIOUS
  <2>1. c # b /\ <<c, CORE>> \notin rows
    BY <1>2
  <2>2. c # a
    BY <1>2, <2>1
  <2> QED BY <1>6, <2>1, <2>2 DEF Ledger
<1>10. Ledger'
  BY <1>5, <1>8, <1>9 DEF Ledger
<1> QED BY <1>2, <1>6, <1>7, <1>10

LEMMA StillLedger ==
    ASSUME Ledger, UNCHANGED tvars
    PROVE  Ledger' /\ \A a \in Accounts : balance'[a][CORE] = balance[a][CORE]
BY DEF Ledger, Holdings, tvars

LEMMA AccountFacts ==
    /\ VOTE_ACCOUNT \in Accounts /\ REWARD_ACCOUNT \in Accounts
    /\ VOTE_ACCOUNT # REWARD_ACCOUNT
    /\ \A v \in Voters : v \in Accounts /\ v # VOTE_ACCOUNT /\ v # REWARD_ACCOUNT
    /\ \A a \in Senders : a \in Accounts /\ a # VOTE_ACCOUNT /\ a # REWARD_ACCOUNT
BY ElectionAssumption DEF Users, Accounts

-----------------------------------------------------------------------------
(* Every step of Election is one of Reward.                                *)

LEMMA RewardSteps ==
    ASSUME Ledger, Next
    PROVE  [RP!Next]_(RP!vars)
<1> DEFINE Still == UNCHANGED RP!vars
<1>1. UNCHANGED rvars => Still
  BY DEF rvars, RP!vars
<1>2. CASE init
  BY <1>2 DEF init, R!init, RP!init, RP!Next
<1>3. ASSUME NEW p \in Producers, regproducer(p) \/ reward_regproducer(p)
      PROVE  RP!Next \/ Still
  <2>1. UNCHANGED rvars \/ R!regproducer(p)
    BY <1>3 DEF regproducer, reward_regproducer
  <2>2. R!regproducer(p) => RP!regproducer(p)
    BY DEF R!regproducer, RP!regproducer
  <2> QED BY <1>1, <2>1, <2>2 DEF RP!Next
<1>4. ASSUME NEW v \in Voters, NEW n \in 1..MaxVotes, addvote(v, n)
      PROVE  RP!Next
  <2>1. RP!addvote(v, n)
    BY <1>4, SameChangeVote DEF addvote, R!addvote, RP!addvote
  <2> QED BY <2>1 DEF RP!Next
<1>5. ASSUME NEW v \in Voters, NEW n \in 1..MaxVotes,
             NEW queued \in BOOLEAN, subvote(v, n, queued)
      PROVE  RP!Next
  <2>1. RP!subvote(v, n)
    BY <1>5, SameChangeVote DEF subvote, R!subvote, RP!subvote
  <2> QED BY <2>1 DEF RP!Next
<1>6. ASSUME NEW v \in Voters, NEW P \in SUBSET Producers, voteproducer(v, P)
      PROVE  RP!Next
  BY <1>6, SameVoteproducer DEF voteproducer, RP!Next
<1>7. ASSUME NEW v \in Voters, claimrewards(v)
      PROVE  RP!Next
  BY <1>7, SameClaim DEF claimrewards, RP!Next
<1>8. ASSUME NEW a \in Senders, NEW n \in 1..MaxTransfer,
             NEW b \in {VOTE_ACCOUNT, REWARD_ACCOUNT}, transfer(a, b, n)
      PROVE  RP!Next \/ Still
  <2>1. CASE b # REWARD_ACCOUNT
    BY <1>1, <1>8, <2>1 DEF transfer
  <2>2. CASE b = REWARD_ACCOUNT /\ initialized
    <3>1. n \in Nat /\ b \in Accounts /\ a \in Accounts /\ T!transfer(a, b, CORE, n)
      BY <1>8, AccountFacts DEF transfer
    <3>2. n > 0 /\ n <= MAX_AMOUNT
      BY <3>1, TransferLedger
    <3>3. R!ontransfer(a, n)
      BY <1>8, <2>2 DEF transfer
    <3>4. a \in Producers
      BY <2>2, <3>3 DEF R!ontransfer
    <3>5. n \in 1..MAX_AMOUNT
      BY <3>1, <3>2, Constants
    <3>6. RP!ontransfer(a, n)
      BY <3>3, SameOntransfer
    <3> QED BY <3>4, <3>5, <3>6 DEF RP!Next
  <2>3. CASE b = REWARD_ACCOUNT /\ ~initialized
    BY <1>8, <2>3 DEF transfer, R!ontransfer, R!vars, RP!vars
  <2> QED BY <2>1, <2>2, <2>3
<1>9. ASSUME NEW p \in Producers, unregprod(p) \/ rmvproducer(p)
      PROVE  Still
  BY <1>1, <1>9 DEF unregprod, rmvproducer
<1>10. ASSUME NEW v \in Voters,
              voterefund(v) \/ RunDeferred(v) \/ DropDeferred(v)
       PROVE  Still
  BY <1>1, <1>10 DEF voterefund, RunDeferred, DropDeferred
<1>11. ASSUME NEW t \in ElectionTimes, cfgelection(t)
       PROVE  Still
  BY <1>1, <1>11 DEF cfgelection
<1>12. CASE Tick
  BY <1>1, <1>12 DEF Tick
<1> HIDE DEF Still
<1> QED
  BY <1>2, <1>3, <1>4, <1>5, <1>6, <1>7, <1>8, <1>9, <1>10, <1>11, <1>12
     DEF Next, Still

-----------------------------------------------------------------------------
(* The inductive invariant.                                                *)

(* The two copies of a voter's row.  That the totals of the producers      *)
(* agree follows, because both are the sums of the voters' votes.          *)
RowsAgree ==
    \A v \in Voters :
        /\ voters[v].votes = voter_tbl[v].votes
        /\ voters[v].producers = voter_tbl[v].producers

Registered == \A p \in Producers : producers[p].exists => producer_tbl[p].is_registered

(* A refund that is pending is of some votes.                              *)
RefundsPositive ==
    \A v \in Voters : refunds[v] # V!NoRefund => refunds[v].vote_staked > 0

RefundsOf == [v \in Voters |-> refunds[v].vote_staked]

ClaimedOf == [v \in Voters |-> voter_tbl[v].claimed_rewards]

(* What the custody accounts hold, in terms each action changes in one     *)
(* place: settlements do not touch the second part.                        *)
Held ==
    /\ balance[VOTE_ACCOUNT][CORE]
         >= total_vote_stake + SumFunctionOnSet(RefundsOf, Voters)
    /\ balance[REWARD_ACCOUNT][CORE] + SumFunctionOnSet(ClaimedOf, Voters)
         >= total_rewards

Ind ==
    /\ RP!Books /\ VP!Ind
    /\ RowsAgree /\ Registered /\ RefundsPositive
    /\ Ledger /\ Held

LEMMA Combine ==
    ASSUME Ind, Next, RowsAgree', Registered', RefundsPositive', Ledger', Held'
    PROVE  Ind'
<1>1. RP!Books'
  BY RewardSteps, RewardConstants, RP!NextBooks DEF Ind
<1>2. VP!Ind'
  BY VotingSteps, VotingConstants, VP!NextInd DEF Ind
<1> QED BY <1>1, <1>2 DEF Ind

LEMMA Types ==
    ASSUME Ind
    PROVE  /\ voters \in [Voters -> VP!VoterInfo]
           /\ producers \in [Producers -> VP!ProducerInfo]
           /\ refunds \in [Voters -> VP!VoteRefund]
           /\ total_vote_stake \in Nat
           /\ RP!TypeOK /\ RP!Ind
           /\ producer_tbl \in [Producers -> RP!ProducerRow]
           /\ voter_tbl \in [Voters -> RP!VoterRow]
           /\ total_rewards \in Nat
           /\ ~initialized => total_rewards = 0
<1>1. VP!TypeOK
  BY DEF Ind, VP!Ind
<1>2. RP!TypeOK /\ RP!Ind /\ (~initialized => total_rewards = 0)
  BY DEF Ind, RP!Books, RP!Ind
<1>3. total_rewards \in Nat
  BY <1>2, Constants DEF RP!TypeOK, RP!Amounts
<1> QED BY <1>1, <1>2, <1>3 DEF VP!TypeOK, RP!TypeOK

LEMMA SumTypes ==
    ASSUME Ind
    PROVE  /\ \A v \in Voters : /\ refunds[v].vote_staked \in Nat
                                /\ RefundsOf[v] = refunds[v].vote_staked
                                /\ voter_tbl[v].claimed_rewards \in Nat
                                /\ ClaimedOf[v] = voter_tbl[v].claimed_rewards
                                /\ voters[v].votes \in Nat
           /\ IntOn(RefundsOf, Voters) /\ IntOn(ClaimedOf, Voters)
           /\ SumFunctionOnSet(RefundsOf, Voters) \in Nat
           /\ SumFunctionOnSet(ClaimedOf, Voters) \in Nat
           /\ balance[VOTE_ACCOUNT][CORE] \in Nat
           /\ balance[REWARD_ACCOUNT][CORE] \in Nat
<1>1. \A v \in Voters : /\ refunds[v].vote_staked \in Nat
                        /\ RefundsOf[v] = refunds[v].vote_staked
                        /\ voter_tbl[v].claimed_rewards \in Nat
                        /\ ClaimedOf[v] = voter_tbl[v].claimed_rewards
                        /\ voters[v].votes \in Nat
  BY Types, Constants
     DEF VP!VoteRefund, RP!VoterRow, VP!VoterInfo, RP!Amounts, RefundsOf, ClaimedOf
<1>2. \A v \in Voters : RefundsOf[v] \in Nat /\ ClaimedOf[v] \in Nat
  BY <1>1
<1>3. IntOn(RefundsOf, Voters) /\ IntOn(ClaimedOf, Voters)
  BY <1>2 DEF IntOn
<1>4. Voters \in SUBSET Voters
  OBVIOUS
<1>5. SumFunctionOnSet(RefundsOf, Voters) \in Nat
  BY <1>2, <1>4, SumNat, Constants
<1>6. SumFunctionOnSet(ClaimedOf, Voters) \in Nat
  BY <1>2, <1>4, SumNat, Constants
<1>7. Ledger
  BY DEF Ind
<1> QED BY <1>1, <1>3, <1>5, <1>6, <1>7, HoldingsNat, AccountFacts

(* Steps that change neither votes nor tokens.                             *)
LEMMA QuietInd ==
    ASSUME Ind, Next, Registered',
           UNCHANGED tvars,
           refunds' = refunds, total_vote_stake' = total_vote_stake,
           voters' = voters, voter_tbl' = voter_tbl, total_rewards' = total_rewards
    PROVE  Ind'
<1>1. Ledger' /\ \A a \in Accounts : balance'[a][CORE] = balance[a][CORE]
  BY StillLedger DEF Ind
<1>2. RowsAgree' /\ RefundsPositive'
  BY DEF Ind, RowsAgree, RefundsPositive, V!NoRefund
<1>3. RefundsOf' = RefundsOf /\ ClaimedOf' = ClaimedOf
  BY DEF RefundsOf, ClaimedOf
<1>4. Held'
  BY <1>1, <1>3, AccountFacts DEF Ind, Held
<1> QED BY <1>1, <1>2, <1>4, Combine

LEMMA ProducerActionsInd ==
    ASSUME Ind, Next, NEW p \in Producers,
           \/ regproducer(p) \/ reward_regproducer(p)
           \/ unregprod(p) \/ rmvproducer(p)
    PROVE  Ind'
<1>1. /\ producers \in [Producers -> VP!ProducerInfo]
      /\ producer_tbl \in [Producers -> RP!ProducerRow]
      /\ Registered
  BY Types DEF Ind
<1>2. CASE regproducer(p)
  <2>1. /\ V!register_producer(p)
        /\ (producer_tbl[p].is_registered /\ UNCHANGED rvars) \/ R!regproducer(p)
        /\ UNCHANGED tvars
    BY <1>2 DEF regproducer
  <2>2. /\ \A r \in Producers \ {p} : producers'[r] = producers[r]
        /\ voters' = voters /\ refunds' = refunds
        /\ total_vote_stake' = total_vote_stake
    BY <1>1, <2>1 DEF V!register_producer
  <2>3. /\ \A r \in Producers \ {p} : producer_tbl'[r] = producer_tbl[r]
        /\ producer_tbl'[p].is_registered
        /\ voter_tbl' = voter_tbl /\ total_rewards' = total_rewards
    BY <1>1, <2>1 DEF R!regproducer, rvars, RP!ProducerRow
  <2>4. Registered'
    BY <1>1, <2>2, <2>3 DEF Registered
  <2> QED BY <2>1, <2>2, <2>3, <2>4, QuietInd
<1>3. CASE reward_regproducer(p)
  <2>1. R!regproducer(p) /\ UNCHANGED <<vvars, tvars>>
    BY <1>3 DEF reward_regproducer
  <2>2. /\ \A r \in Producers \ {p} : producer_tbl'[r] = producer_tbl[r]
        /\ producer_tbl'[p].is_registered
        /\ voter_tbl' = voter_tbl /\ total_rewards' = total_rewards
    BY <1>1, <2>1 DEF R!regproducer, RP!ProducerRow
  <2>3. Registered'
    BY <1>1, <2>1, <2>2 DEF Registered, vvars
  <2> QED BY <2>1, <2>2, <2>3, QuietInd DEF vvars
<1>4. CASE unregprod(p) \/ rmvproducer(p)
  <2>1. V!deactivate(p) /\ UNCHANGED <<rvars, tvars>>
    BY <1>4 DEF unregprod, rmvproducer, V!unregprod, V!rmvproducer
  <2>2. /\ producers' = [producers EXCEPT ![p].is_active = FALSE]
        /\ voters' = voters /\ refunds' = refunds
        /\ total_vote_stake' = total_vote_stake
    BY <2>1 DEF V!deactivate
  <2>3. \A r \in Producers : producers'[r].exists = producers[r].exists
    BY <1>1, <2>2 DEF VP!ProducerInfo
  <2>4. Registered'
    BY <1>1, <2>1, <2>3 DEF Registered, rvars
  <2> QED BY <2>1, <2>2, <2>4, QuietInd DEF rvars
<1> QED BY <1>2, <1>3, <1>4

LEMMA OtherActionsInd ==
    ASSUME Ind, Next,
           init \/ Tick \/ \E t \in ElectionTimes : cfgelection(t)
    PROVE  Ind'
<1>0. Registered /\ (~initialized => total_rewards = 0)
  BY Types DEF Ind
<1>1. CASE init
  <2>1. /\ UNCHANGED <<vvars, tvars>> /\ total_rewards' = total_rewards
        /\ producer_tbl' = producer_tbl /\ voter_tbl' = voter_tbl
    BY <1>0, <1>1 DEF init, R!init
  <2>2. Registered'
    BY <1>0, <2>1 DEF Registered, vvars
  <2> QED BY <2>1, <2>2, QuietInd DEF vvars
<1>2. CASE Tick \/ \E t \in ElectionTimes : cfgelection(t)
  <2>1. /\ UNCHANGED <<rvars, tvars>>
        /\ UNCHANGED <<total_vote_stake, producers, voters, refunds>>
    BY <1>2 DEF Tick, cfgelection, V!Tick, V!cfgelection
  <2>2. Registered'
    BY <1>0, <2>1 DEF Registered, rvars
  <2> QED BY <2>1, <2>2, QuietInd DEF rvars
<1> QED BY <1>1, <1>2

-----------------------------------------------------------------------------
(* The votes.                                                              *)

LEMMA AllocateRegistered ==
    ASSUME producer_tbl \in [Producers -> RP!ProducerRow],
           NEW v, NEW P, NEW n, NEW d, R!allocate_producer_rewards(v, P, n, d)
    PROVE  \A p \in Producers :
              producer_tbl'[p].is_registered = producer_tbl[p].is_registered
<1> DEFINE last == voter_tbl[v].last_rewards_per_vote
           amount(p) == R!new_rewards(p, n[p], last[p])
           New(p) == [producer_tbl[p] EXCEPT
                        !.allocating_rewards = @ - amount(p),
                        !.allocated_rewards = @ + amount(p),
                        !.votes = @ + d[p]]
<1>1. producer_tbl' = [p \in Producers |-> IF p \in P THEN New(p) ELSE producer_tbl[p]]
  BY Zenon DEF R!allocate_producer_rewards
<1>2. ASSUME NEW p \in Producers
      PROVE  New(p).is_registered = producer_tbl[p].is_registered
  <2> HIDE DEF amount
  <2> DEFINE r1 == [producer_tbl[p] EXCEPT !.allocating_rewards = @ - amount(p)]
             r2 == [r1 EXCEPT !.allocated_rewards = @ + amount(p)]
             r3 == [r2 EXCEPT !.votes = @ + d[p]]
  <2>1. producer_tbl[p] \in RP!ProducerRow
    OBVIOUS
  <2>2. r1.is_registered = producer_tbl[p].is_registered
    BY <2>1 DEF RP!ProducerRow
  <2>3. r2.is_registered = r1.is_registered
    BY <2>1 DEF RP!ProducerRow
  <2>4. r3.is_registered = r2.is_registered
    BY <2>1 DEF RP!ProducerRow
  <2>5. New(p) = r3
    BY <2>1 DEF RP!ProducerRow
  <2> QED BY <2>2, <2>3, <2>4, <2>5
<1> HIDE DEF New
<1> QED BY <1>1, <1>2

(* What a change of votes of v does to flon.reward.                        *)
Moved(v) ==
    /\ \A p \in Producers :
          producer_tbl'[p].is_registered = producer_tbl[p].is_registered
    /\ total_rewards' = total_rewards
    /\ \A u \in Voters : voter_tbl'[u].claimed_rewards = voter_tbl[u].claimed_rewards
    /\ \A u \in Voters \ {v} : voter_tbl'[u] = voter_tbl[u]

LEMMA ChangeVoteMoves ==
    ASSUME Ind, NEW v \in Voters, NEW n \in 1..MaxVotes, NEW adding \in BOOLEAN,
           R!change_vote(v, n, adding)
    PROVE  /\ Moved(v)
           /\ voter_tbl'[v].votes = voter_tbl[v].votes + (IF adding THEN n ELSE -n)
           /\ voter_tbl'[v].producers = voter_tbl[v].producers
<1> DEFINE row == voter_tbl[v]
           delta == IF adding THEN n ELSE -n
           old == [p \in Producers |-> row.votes]
           last == R!PaidUpTo(row.producers)
           paid == R!AllocatedSum(v, row.producers, old)
           r1 == [row EXCEPT !.votes = @ + delta]
           r2 == [r1 EXCEPT !.last_rewards_per_vote = last]
           r3 == [r2 EXCEPT !.unclaimed_rewards = @ + paid]
<1>1. voter_tbl' = [voter_tbl EXCEPT ![v] = [row EXCEPT
          !.votes = @ + delta,
          !.last_rewards_per_vote = last,
          !.unclaimed_rewards = @ + paid]]
  BY Zenon DEF R!change_vote
<1>2. row \in RP!VoterRow
  BY Types
<1> HIDE DEF row, delta, last, paid
<1>a. /\ r1.votes = row.votes + delta /\ r1.producers = row.producers
      /\ r1.claimed_rewards = row.claimed_rewards
  BY <1>2 DEF RP!VoterRow
<1>b. /\ r2.votes = r1.votes /\ r2.producers = r1.producers
      /\ r2.claimed_rewards = r1.claimed_rewards
  BY <1>2 DEF RP!VoterRow
<1>c. /\ r3.votes = r2.votes /\ r3.producers = r2.producers
      /\ r3.claimed_rewards = r2.claimed_rewards
  BY <1>2 DEF RP!VoterRow
<1>d. voter_tbl' = [voter_tbl EXCEPT ![v] = r3]
  BY <1>1, <1>2 DEF RP!VoterRow
<1> HIDE DEF r1, r2, r3
<1>3. /\ voter_tbl'[v].votes = row.votes + delta
      /\ voter_tbl'[v].producers = row.producers
      /\ voter_tbl'[v].claimed_rewards = row.claimed_rewards
      /\ \A u \in Voters \ {v} : voter_tbl'[u] = voter_tbl[u]
  BY <1>a, <1>b, <1>c, <1>d, Types
<1>4. total_rewards' = total_rewards
  BY DEF R!change_vote
<1>5. R!allocate_producer_rewards(v, row.producers, old, [p \in Producers |-> delta])
  BY Zenon DEF R!change_vote, row, delta
<1>6. \A p \in Producers :
         producer_tbl'[p].is_registered = producer_tbl[p].is_registered
  BY <1>5, Types, AllocateRegistered
<1> QED BY <1>3, <1>4, <1>6 DEF Moved, row, delta

LEMMA VoteproducerMoves ==
    ASSUME Ind, NEW v \in Voters, NEW P \in SUBSET Producers, R!voteproducer(v, P)
    PROVE  /\ Moved(v)
           /\ voter_tbl'[v].votes = voter_tbl[v].votes
           /\ voter_tbl'[v].producers = P
<1>1. RP!voteproducer(v, P) /\ RP!TypeOK
  BY SameVoteproducer, Types
<1> DEFINE row == voter_tbl[v]
           paid == RP!AllocatedSum(v, row.producers \cup P, RP!OldVotes(v))
<1>2. voter_tbl' = [voter_tbl EXCEPT
         ![v] = [ votes |-> row.votes,
                  producers |-> P,
                  last_rewards_per_vote |-> RP!PaidUpTo(P),
                  unclaimed_rewards |-> row.unclaimed_rewards + paid,
                  claimed_rewards |-> row.claimed_rewards ]]
  BY <1>1, RewardConstants, RP!VoteproducerRow
<1> HIDE DEF paid
<1>3. /\ voter_tbl'[v].votes = row.votes
      /\ voter_tbl'[v].producers = P
      /\ voter_tbl'[v].claimed_rewards = row.claimed_rewards
      /\ \A u \in Voters \ {v} : voter_tbl'[u] = voter_tbl[u]
  BY <1>2, Types
<1>4. total_rewards' = total_rewards
  BY DEF R!voteproducer
<1>5. R!allocate_producer_rewards(v, row.producers \cup P, R!OldVotes(v),
                                  R!VotesMoved(v, P))
  BY Zenon DEF R!voteproducer
<1>6. \A p \in Producers :
         producer_tbl'[p].is_registered = producer_tbl[p].is_registered
  BY <1>5, Types, AllocateRegistered
<1> QED BY <1>3, <1>4, <1>6 DEF Moved

LEMMA VotesInd ==
    ASSUME Ind, Next, NEW v \in Voters, Moved(v),
           voters'[v].votes = voter_tbl'[v].votes,
           voters'[v].producers = voter_tbl'[v].producers,
           \A u \in Voters \ {v} : voters'[u] = voters[u],
           \A p \in Producers : producers'[p].exists = producers[p].exists,
           RefundsPositive', Ledger',
           balance'[REWARD_ACCOUNT][CORE] = balance[REWARD_ACCOUNT][CORE],
           balance'[VOTE_ACCOUNT][CORE]
             >= total_vote_stake' + SumFunctionOnSet(RefundsOf', Voters)
    PROVE  Ind'
<1>1. RowsAgree'
  BY DEF Ind, RowsAgree, Moved
<1>2. Registered'
  BY DEF Ind, Registered, Moved
<1>3. ClaimedOf' = ClaimedOf
  BY DEF ClaimedOf, Moved
<1>4. Held'
  BY <1>3 DEF Ind, Held, Moved
<1> QED BY <1>1, <1>2, <1>4, Combine

(* The votes of producers change and nothing else of them.                 *)
LEMMA StillExist ==
    ASSUME Ind, NEW P, NEW n, V!update_producer_votes(P, n)
    PROVE  \A p \in Producers : producers'[p].exists = producers[p].exists
BY Types DEF V!update_producer_votes, VP!ProducerInfo

LEMMA AddvoteInd ==
    ASSUME Ind, Next, NEW v \in Voters, NEW n \in 1..MaxVotes, addvote(v, n)
    PROVE  Ind'
<1>1. /\ V!addvote(v, n)
      /\ T!transfer(v, VOTE_ACCOUNT, CORE, n)
      /\ R!change_vote(v, n, TRUE)
  BY DEF addvote, R!addvote
<1>2. /\ Moved(v)
      /\ voter_tbl'[v].votes = voter_tbl[v].votes + n
      /\ voter_tbl'[v].producers = voter_tbl[v].producers
  BY <1>1, ChangeVoteMoves
<1>3. /\ voters[v].votes = voter_tbl[v].votes
      /\ voters[v].producers = voter_tbl[v].producers
  BY DEF Ind, RowsAgree
<1>4. /\ voters' = [voters EXCEPT ![v].exists = TRUE, ![v].votes = @ + n]
      /\ V!update_producer_votes(voters[v].producers, n)
      /\ total_vote_stake' = V!AddStake(n)
      /\ refunds' = refunds
  BY <1>1 DEF V!addvote
<1>5. /\ voters'[v].votes = voters[v].votes + n
      /\ voters'[v].producers = voters[v].producers
      /\ \A u \in Voters \ {v} : voters'[u] = voters[u]
  <2> DEFINE r == [voters EXCEPT ![v].exists = TRUE]
  <2>1. /\ r \in [Voters -> VP!VoterInfo]
        /\ r[v].votes = voters[v].votes
        /\ r[v].producers = voters[v].producers
        /\ \A u \in Voters \ {v} : r[u] = voters[u]
    BY Types DEF VP!VoterInfo
  <2>2. voters' = [r EXCEPT ![v].votes = @ + n]
    BY <1>4
  <2> HIDE DEF r
  <2> QED BY <2>1, <2>2 DEF VP!VoterInfo
<1>6. \A p \in Producers : producers'[p].exists = producers[p].exists
  BY <1>4, StillExist
<1>7. RefundsPositive' /\ RefundsOf' = RefundsOf
  BY <1>4 DEF Ind, RefundsPositive, RefundsOf, V!NoRefund
<1>8. total_vote_stake' = total_vote_stake + n /\ n \in Nat
  BY <1>4, Types DEF V!AddStake
<1>9. /\ Ledger'
      /\ balance'[VOTE_ACCOUNT][CORE] = balance[VOTE_ACCOUNT][CORE] + n
      /\ balance'[REWARD_ACCOUNT][CORE] = balance[REWARD_ACCOUNT][CORE]
  <2>1. Ledger /\ n \in Nat
    BY <1>8 DEF Ind
  <2> QED BY <1>1, <2>1, TransferLedger, AccountFacts
<1>10. balance[VOTE_ACCOUNT][CORE]
         >= total_vote_stake + SumFunctionOnSet(RefundsOf, Voters)
  BY DEF Ind, Held
<1>11. balance'[VOTE_ACCOUNT][CORE]
         >= total_vote_stake' + SumFunctionOnSet(RefundsOf', Voters)
  <2> DEFINE s == SumFunctionOnSet(RefundsOf, Voters)
  <2>1. s \in Nat /\ total_vote_stake \in Nat /\ balance[VOTE_ACCOUNT][CORE] \in Nat
    BY SumTypes, Types
  <2>2. SumFunctionOnSet(RefundsOf', Voters) = s
    BY <1>7
  <2> HIDE DEF s
  <2>3. balance[VOTE_ACCOUNT][CORE] >= total_vote_stake + s
    BY <1>10 DEF s
  <2> QED BY <1>8, <1>9, <2>1, <2>2, <2>3
<1> QED BY <1>2, <1>3, <1>5, <1>6, <1>7, <1>9, <1>11, VotesInd

LEMMA VoteproducerInd ==
    ASSUME Ind, Next, NEW v \in Voters, NEW P \in SUBSET Producers,
           voteproducer(v, P)
    PROVE  Ind'
<1>1. V!voteproducer(v, P) /\ R!voteproducer(v, P) /\ UNCHANGED tvars
  BY DEF voteproducer
<1>2. /\ Moved(v)
      /\ voter_tbl'[v].votes = voter_tbl[v].votes
      /\ voter_tbl'[v].producers = P
  BY <1>1, VoteproducerMoves
<1>3. voters[v].votes = voter_tbl[v].votes
  BY DEF Ind, RowsAgree
<1> DEFINE New(p) ==
        producers[p].total_votes
          - (IF p \in V!removed_prods(voters[v].producers, P) THEN voters[v].votes ELSE 0)
          + (IF p \in V!added_prods(voters[v].producers, P) THEN voters[v].votes ELSE 0)
<1>4. /\ voters' = [voters EXCEPT ![v].producers = P]
      /\ producers' = [p \in Producers |-> [producers[p] EXCEPT !.total_votes = New(p)]]
      /\ total_vote_stake' = total_vote_stake
      /\ refunds' = refunds
  BY <1>1, Zenon DEF V!voteproducer
<1> HIDE DEF New
<1>5. /\ voters'[v].votes = voters[v].votes
      /\ voters'[v].producers = P
      /\ \A u \in Voters \ {v} : voters'[u] = voters[u]
  BY <1>4, Types DEF VP!VoterInfo
<1>6. \A p \in Producers : producers'[p].exists = producers[p].exists
  BY <1>4, Types DEF VP!ProducerInfo
<1>7. RefundsPositive' /\ RefundsOf' = RefundsOf
  BY <1>4 DEF Ind, RefundsPositive, RefundsOf, V!NoRefund
<1>8. Ledger' /\ \A a \in Accounts : balance'[a][CORE] = balance[a][CORE]
  BY <1>1, StillLedger DEF Ind
<1>9. balance'[VOTE_ACCOUNT][CORE]
         >= total_vote_stake' + SumFunctionOnSet(RefundsOf', Voters)
  BY <1>4, <1>7, <1>8, AccountFacts DEF Ind, Held
<1> QED BY <1>2, <1>3, <1>5, <1>6, <1>7, <1>8, <1>9, AccountFacts, VotesInd

(* The refund of one voter changes.                                        *)
LEMMA RefundChanges ==
    ASSUME Ind, NEW v \in Voters, NEW x \in Nat,
           refunds'[v].vote_staked = x,
           \A u \in Voters \ {v} : refunds'[u] = refunds[u]
    PROVE  SumFunctionOnSet(RefundsOf', Voters)
             = SumFunctionOnSet(RefundsOf, Voters) - refunds[v].vote_staked + x
<1> DEFINE f == RefundsOf
           h == RefundsOf'
<1>1. IntOn(f, Voters) /\ f[v] = refunds[v].vote_staked
  BY SumTypes
<1>2. h[v] = x /\ h[v] \in Int /\ DiffersAt(f, h, Voters, v)
  BY DEF RefundsOf, DiffersAt
<1>3. IsFiniteSet(Voters)
  BY Constants
<1> HIDE DEF f, h
<1>4. SumFunctionOnSet(h, Voters) = SumFunctionOnSet(f, Voters) - f[v] + h[v]
  BY ONLY <1>1, <1>2, <1>3, v \in Voters, SumChange
<1> QED BY <1>1, <1>2, <1>4 DEF f, h

LEMMA SubvoteInd ==
    ASSUME Ind, Next, NEW v \in Voters, NEW n \in 1..MaxVotes,
           NEW queued \in BOOLEAN, subvote(v, n, queued)
    PROVE  Ind'
<1>1. V!subvote(v, n, queued) /\ R!change_vote(v, n, FALSE) /\ UNCHANGED tvars
  BY DEF subvote, R!subvote
<1>2. /\ Moved(v)
      /\ voter_tbl'[v].votes = voter_tbl[v].votes + (-n)
      /\ voter_tbl'[v].producers = voter_tbl[v].producers
  BY <1>1, ChangeVoteMoves
<1>3. /\ voters[v].votes = voter_tbl[v].votes
      /\ voters[v].producers = voter_tbl[v].producers
  BY DEF Ind, RowsAgree
<1> DEFINE row == [ vote_staked |-> n, request_time |-> V!ToSeconds(now) ]
<1>4. /\ voters' = [voters EXCEPT ![v].votes = @ - n]
      /\ V!update_producer_votes(voters[v].producers, -n)
      /\ total_vote_stake' = total_vote_stake - n
      /\ refunds' = [refunds EXCEPT ![v] = row]
      /\ refunds[v] = V!NoRefund
  BY <1>1 DEF V!subvote, V!SubvoteChecks
<1>5. /\ n \in Nat /\ n > 0 /\ voters[v].votes \in Nat
      /\ total_vote_stake \in Nat
  BY Types, SumTypes
<1>6. /\ voters'[v].votes = voter_tbl'[v].votes
      /\ voters'[v].producers = voter_tbl'[v].producers
      /\ \A u \in Voters \ {v} : voters'[u] = voters[u]
  BY <1>2, <1>3, <1>4, <1>5, Types DEF VP!VoterInfo
<1>7. \A p \in Producers : producers'[p].exists = producers[p].exists
  BY <1>4, StillExist
<1>8. /\ refunds'[v].vote_staked = n
      /\ \A u \in Voters \ {v} : refunds'[u] = refunds[u]
      /\ refunds[v].vote_staked = 0
  BY <1>4, Types DEF V!NoRefund
<1>9. RefundsPositive'
  BY <1>5, <1>8 DEF Ind, RefundsPositive, V!NoRefund
<1>10. Ledger' /\ \A a \in Accounts : balance'[a][CORE] = balance[a][CORE]
  BY <1>1, StillLedger DEF Ind
<1>11. balance'[VOTE_ACCOUNT][CORE]
         >= total_vote_stake' + SumFunctionOnSet(RefundsOf', Voters)
  <2> DEFINE s == SumFunctionOnSet(RefundsOf, Voters)
  <2>1. s \in Nat /\ balance[VOTE_ACCOUNT][CORE] \in Nat
    BY SumTypes
  <2>2. SumFunctionOnSet(RefundsOf', Voters) = s - 0 + n
    BY <1>5, <1>8, RefundChanges
  <2>3. balance[VOTE_ACCOUNT][CORE] >= total_vote_stake + s
    BY DEF Ind, Held
  <2> HIDE DEF s
  <2>4. balance'[VOTE_ACCOUNT][CORE] = balance[VOTE_ACCOUNT][CORE]
    BY <1>10, AccountFacts
  <2> QED BY <1>4, <1>5, <2>1, <2>2, <2>3, <2>4
<1> QED BY <1>2, <1>6, <1>7, <1>9, <1>10, <1>11, AccountFacts, VotesInd

-----------------------------------------------------------------------------
(* Refunds, claims and transfers.                                          *)

LEMMA PaidBackInd ==
    ASSUME Ind, Next, NEW v \in Voters,
           refunds' = [refunds EXCEPT ![v] = V!NoRefund],
           T!transfer(VOTE_ACCOUNT, v, CORE, refunds[v].vote_staked),
           UNCHANGED <<rvars, total_vote_stake, producers, voters>>
    PROVE  Ind'
<1>1. RowsAgree' /\ Registered'
  BY DEF Ind, RowsAgree, Registered, rvars
<1>2. /\ refunds'[v].vote_staked = 0
      /\ \A u \in Voters \ {v} : refunds'[u] = refunds[u]
      /\ refunds'[v] = V!NoRefund
  BY Types DEF V!NoRefund
<1>3. RefundsPositive'
  BY <1>2 DEF Ind, RefundsPositive, V!NoRefund
<1> DEFINE n == refunds[v].vote_staked
<1>4. n \in Nat /\ Ledger
  BY SumTypes DEF Ind
<1> HIDE DEF n
<1>5. /\ Ledger'
      /\ balance'[VOTE_ACCOUNT][CORE] = balance[VOTE_ACCOUNT][CORE] - n
      /\ balance'[REWARD_ACCOUNT][CORE] = balance[REWARD_ACCOUNT][CORE]
  <2>1. T!transfer(VOTE_ACCOUNT, v, CORE, n)
    BY DEF n
  <2> QED BY <1>4, <2>1, TransferLedger, AccountFacts
<1>6. balance'[VOTE_ACCOUNT][CORE]
        >= total_vote_stake' + SumFunctionOnSet(RefundsOf', Voters)
  <2> DEFINE s == SumFunctionOnSet(RefundsOf, Voters)
  <2>1. s \in Nat /\ balance[VOTE_ACCOUNT][CORE] \in Nat /\ total_vote_stake \in Nat
    BY SumTypes, Types
  <2>2. SumFunctionOnSet(RefundsOf', Voters) = s - n + 0
    BY <1>2, RefundChanges DEF n
  <2>3. balance[VOTE_ACCOUNT][CORE] >= total_vote_stake + s
    BY DEF Ind, Held
  <2> HIDE DEF s
  <2> QED BY <1>4, <1>5, <2>1, <2>2, <2>3
<1>7. ClaimedOf' = ClaimedOf
  BY DEF ClaimedOf, rvars
<1>8. Held'
  BY <1>5, <1>6, <1>7 DEF Ind, Held, rvars
<1> QED BY <1>1, <1>3, <1>5, <1>8, Combine

LEMMA RefundInd ==
    ASSUME Ind, Next, NEW v \in Voters,
           voterefund(v) \/ RunDeferred(v) \/ DropDeferred(v)
    PROVE  Ind'
<1>1. CASE voterefund(v)
  BY <1>1, PaidBackInd DEF voterefund, V!voterefund, V!PayRefund
<1>2. CASE RunDeferred(v) /\ V!RefundChecks(v)
  <2>1. /\ refunds' = [refunds EXCEPT ![v] = V!NoRefund]
        /\ UNCHANGED <<total_vote_stake, producers, voters>>
    BY <1>2 DEF RunDeferred, V!RunDeferred, V!PayRefund
  <2>2. /\ T!transfer(VOTE_ACCOUNT, v, CORE, refunds[v].vote_staked)
        /\ UNCHANGED rvars
    BY <1>2 DEF RunDeferred
  <2> QED BY <2>1, <2>2, PaidBackInd
<1>3. CASE (RunDeferred(v) /\ ~V!RefundChecks(v)) \/ DropDeferred(v)
  <2>1. /\ UNCHANGED <<rvars, tvars>>
        /\ UNCHANGED <<total_vote_stake, producers, voters, refunds>>
    BY <1>3 DEF RunDeferred, V!RunDeferred, DropDeferred, V!DropDeferred
  <2>2. Registered'
    BY <2>1 DEF Ind, Registered, rvars
  <2> QED BY <2>1, <2>2, QuietInd DEF rvars
<1> QED BY <1>1, <1>2, <1>3

LEMMA ClaimRows ==
    ASSUME Ind, NEW v \in Voters, R!claimrewards(v)
    PROVE  /\ R!claimable(v) \in Nat
           /\ voter_tbl'[v].votes = voter_tbl[v].votes
           /\ voter_tbl'[v].producers = voter_tbl[v].producers
           /\ voter_tbl'[v].claimed_rewards
                = voter_tbl[v].claimed_rewards + R!claimable(v)
           /\ \A u \in Voters \ {v} : voter_tbl'[u] = voter_tbl[u]
           /\ \A p \in Producers :
                 producer_tbl'[p].is_registered = producer_tbl[p].is_registered
           /\ total_rewards' = total_rewards
<1> DEFINE row == voter_tbl[v]
           last == IF row.votes > 0 THEN RP!PaidUpTo(row.producers)
                                    ELSE row.last_rewards_per_vote
<1>1. RP!claim_rewards(v) /\ RP!TypeOK /\ R!claimable(v) = RP!claimable(v)
  BY SameClaim, SameClaimable, Types
<1>2. /\ RP!claimable(v) \in Nat
      /\ voter_tbl' = [voter_tbl EXCEPT
            ![v] = [ votes |-> row.votes,
                     producers |-> row.producers,
                     last_rewards_per_vote |-> last,
                     unclaimed_rewards |-> 0,
                     claimed_rewards |-> row.claimed_rewards + RP!claimable(v) ]]
  BY <1>1, RewardConstants, RP!ClaimRow
<1> HIDE DEF last
<1>3. /\ voter_tbl'[v].votes = row.votes
      /\ voter_tbl'[v].producers = row.producers
      /\ voter_tbl'[v].claimed_rewards = row.claimed_rewards + RP!claimable(v)
      /\ \A u \in Voters \ {v} : voter_tbl'[u] = voter_tbl[u]
  BY <1>2, Types
<1>4. total_rewards' = total_rewards
  BY DEF R!claimrewards, R!claim_rewards
<1>5. R!allocate_producer_rewards(v, IF row.votes > 0 THEN row.producers ELSE {},
          [p \in Producers |-> row.votes], [p \in Producers |-> 0])
  BY Zenon DEF R!claimrewards, R!claim_rewards
<1>6. \A p \in Producers :
         producer_tbl'[p].is_registered = producer_tbl[p].is_registered
  BY <1>5, Types, AllocateRegistered
<1> QED BY <1>1, <1>2, <1>3, <1>4, <1>6

LEMMA ClaimInd ==
    ASSUME Ind, Next, NEW v \in Voters, claimrewards(v)
    PROVE  Ind'
<1> DEFINE n == R!claimable(v)
<1>1. /\ R!claimrewards(v)
      /\ T!transfer(REWARD_ACCOUNT, v, CORE, n)
      /\ UNCHANGED vvars
  BY DEF claimrewards
<1>2. /\ n \in Nat
      /\ voter_tbl'[v].votes = voter_tbl[v].votes
      /\ voter_tbl'[v].producers = voter_tbl[v].producers
      /\ voter_tbl'[v].claimed_rewards = voter_tbl[v].claimed_rewards + n
      /\ \A u \in Voters \ {v} : voter_tbl'[u] = voter_tbl[u]
      /\ \A p \in Producers :
            producer_tbl'[p].is_registered = producer_tbl[p].is_registered
      /\ total_rewards' = total_rewards
  BY <1>1, ClaimRows
<1> HIDE DEF n
<1>3. RowsAgree'
  BY <1>1, <1>2 DEF Ind, RowsAgree, vvars
<1>4. Registered' /\ RefundsPositive'
  BY <1>1, <1>2 DEF Ind, Registered, RefundsPositive, V!NoRefund, vvars
<1>5. /\ Ledger'
      /\ balance'[VOTE_ACCOUNT][CORE] = balance[VOTE_ACCOUNT][CORE]
      /\ balance'[REWARD_ACCOUNT][CORE] = balance[REWARD_ACCOUNT][CORE] - n
  <2>1. Ledger
    BY DEF Ind
  <2> QED BY <1>1, <1>2, <2>1, TransferLedger, AccountFacts
<1>6. SumFunctionOnSet(ClaimedOf', Voters) = SumFunctionOnSet(ClaimedOf, Voters) + n
  <2> DEFINE f == ClaimedOf
             h == ClaimedOf'
  <2>1. /\ IntOn(f, Voters) /\ SumFunctionOnSet(f, Voters) \in Nat
        /\ f[v] = voter_tbl[v].claimed_rewards /\ f[v] \in Nat
    BY SumTypes
  <2>2. h[v] = voter_tbl[v].claimed_rewards + n /\ DiffersAt(f, h, Voters, v)
    BY <1>2 DEF ClaimedOf, DiffersAt
  <2>3. IsFiniteSet(Voters)
    BY Constants
  <2> HIDE DEF f, h
  <2>4. h[v] \in Int /\ h[v] = f[v] + n
    BY <1>2, <2>1, <2>2
  <2>5. IntOn(f, Voters) /\ DiffersAt(f, h, Voters, v) /\ h[v] \in Int
    BY <2>1, <2>2, <2>4
  <2>6. SumFunctionOnSet(h, Voters) = SumFunctionOnSet(f, Voters) - f[v] + h[v]
    BY ONLY <2>3, <2>5, v \in Voters, SumChange
  <2>7. SumFunctionOnSet(h, Voters) = SumFunctionOnSet(f, Voters) + n
    BY <1>2, <2>1, <2>4, <2>6
  <2> QED BY <2>7 DEF f, h
<1>7. Held'
  <2>1. RefundsOf' = RefundsOf /\ total_vote_stake' = total_vote_stake
    BY <1>1 DEF RefundsOf, vvars
  <2>2. balance'[VOTE_ACCOUNT][CORE]
          >= total_vote_stake' + SumFunctionOnSet(RefundsOf', Voters)
    BY <1>5, <2>1 DEF Ind, Held
  <2>3. balance[REWARD_ACCOUNT][CORE] + SumFunctionOnSet(ClaimedOf, Voters)
          >= total_rewards
    BY DEF Ind, Held
  <2>4. /\ SumFunctionOnSet(ClaimedOf, Voters) \in Nat
        /\ balance[REWARD_ACCOUNT][CORE] \in Nat /\ total_rewards \in Nat
    BY SumTypes, Types
  <2>5. balance'[REWARD_ACCOUNT][CORE] + SumFunctionOnSet(ClaimedOf', Voters)
          >= total_rewards'
    BY <1>2, <1>5, <1>6, <2>3, <2>4
  <2> QED BY <2>2, <2>5 DEF Held
<1> QED BY <1>3, <1>4, <1>5, <1>7, Combine

LEMMA TransferInd ==
    ASSUME Ind, Next, NEW a \in Senders, NEW n \in 1..MaxTransfer,
           NEW b \in {VOTE_ACCOUNT, REWARD_ACCOUNT}, transfer(a, b, n)
    PROVE  Ind'
<1>1. T!transfer(a, b, CORE, n) /\ UNCHANGED vvars
  BY DEF transfer
<1>2. n \in Nat /\ Ledger /\ a \in Accounts /\ b \in Accounts
  BY AccountFacts DEF Ind
<1>3. /\ Ledger' /\ n > 0 /\ n <= MAX_AMOUNT
      /\ balance'[b][CORE] = balance[b][CORE] + n
      /\ \A c \in Accounts \ {a, b} : balance'[c][CORE] = balance[c][CORE]
  BY <1>1, <1>2, TransferLedger
<1>4. /\ voter_tbl' = voter_tbl
      /\ \A p \in Producers :
            producer_tbl'[p].is_registered = producer_tbl[p].is_registered
      /\ \/ total_rewards' = total_rewards
         \/ b = REWARD_ACCOUNT /\ total_rewards' = total_rewards + n
  <2>1. CASE b # REWARD_ACCOUNT
    BY <2>1 DEF transfer, rvars
  <2>2. CASE b = REWARD_ACCOUNT /\ ~initialized
    BY <2>2 DEF transfer, R!ontransfer, R!vars
  <2>3. CASE b = REWARD_ACCOUNT /\ initialized
    <3>1. R!ontransfer(a, n)
      BY <2>3 DEF transfer
    <3>2. a \in Producers
      BY <2>3, <3>1 DEF R!ontransfer
    <3>3. n \in 1..MAX_AMOUNT
      BY <1>2, <1>3, Constants
    <3>4. RP!ontransfer(a, n) /\ RP!TypeOK
      BY <3>1, SameOntransfer, Types
    <3> DEFINE row == producer_tbl[a]
               rate == RP!calc_rewards_per_vote(row.rewards_per_vote, n, row.votes)
    <3>5. /\ total_rewards' = total_rewards + n
          /\ voter_tbl' = voter_tbl
          /\ producer_tbl' = [producer_tbl EXCEPT
                ![a] = [ is_registered |-> row.is_registered,
                         total_rewards |-> row.total_rewards + n,
                         allocating_rewards |-> row.allocating_rewards + n,
                         allocated_rewards |-> row.allocated_rewards,
                         votes |-> row.votes,
                         rewards_per_vote |-> rate ]]
      BY <2>3, <3>2, <3>3, <3>4, RewardConstants, RP!TransferRow
    <3> HIDE DEF rate
    <3>6. \A p \in Producers :
             producer_tbl'[p].is_registered = producer_tbl[p].is_registered
      BY <3>2, <3>5, Types
    <3> QED BY <2>3, <3>5, <3>6
  <2> QED BY <2>1, <2>2, <2>3
<1>5. RowsAgree' /\ Registered' /\ RefundsPositive'
  BY <1>1, <1>4 DEF Ind, RowsAgree, Registered, RefundsPositive, V!NoRefund, vvars
<1>6. Held'
  <2> DEFINE s == SumFunctionOnSet(RefundsOf, Voters)
             c == SumFunctionOnSet(ClaimedOf, Voters)
  <2>1. /\ balance[VOTE_ACCOUNT][CORE] >= total_vote_stake + s
        /\ balance[REWARD_ACCOUNT][CORE] + c >= total_rewards
    BY DEF Ind, Held
  <2>2. /\ s \in Nat /\ c \in Nat /\ total_rewards \in Nat
        /\ total_vote_stake \in Nat
        /\ balance[VOTE_ACCOUNT][CORE] \in Nat /\ balance[REWARD_ACCOUNT][CORE] \in Nat
    BY SumTypes, Types
  <2>3. /\ SumFunctionOnSet(RefundsOf', Voters) = s
        /\ SumFunctionOnSet(ClaimedOf', Voters) = c
        /\ total_vote_stake' = total_vote_stake
    BY <1>1, <1>4 DEF RefundsOf, ClaimedOf, vvars
  <2> HIDE DEF s, c
  <2>4. /\ balance'[VOTE_ACCOUNT][CORE] >= balance[VOTE_ACCOUNT][CORE]
        /\ balance'[REWARD_ACCOUNT][CORE] >= balance[REWARD_ACCOUNT][CORE]
        /\ b = REWARD_ACCOUNT =>
              balance'[REWARD_ACCOUNT][CORE] = balance[REWARD_ACCOUNT][CORE] + n
    BY <1>2, <1>3, <2>2, AccountFacts
  <2>5. balance'[VOTE_ACCOUNT][CORE] \in Nat /\ balance'[REWARD_ACCOUNT][CORE] \in Nat
    BY <1>3, AccountFacts DEF Ledger
  <2>6. balance'[VOTE_ACCOUNT][CORE]
          >= total_vote_stake' + SumFunctionOnSet(RefundsOf', Voters)
    BY <2>1, <2>2, <2>3, <2>4, <2>5
  <2>7. balance'[REWARD_ACCOUNT][CORE] + SumFunctionOnSet(ClaimedOf', Voters)
          >= total_rewards'
    BY <1>2, <1>4, <2>1, <2>2, <2>3, <2>4, <2>5
  <2> QED BY <2>6, <2>7 DEF Held
<1> QED BY <1>3, <1>5, <1>6, Combine

-----------------------------------------------------------------------------
LEMMA InitInd == ASSUME Init PROVE Ind
<1>1. RP!Books
  <2>1. RP!Init
    BY DEF Init, R!Init, RP!Init
  <2> QED BY <2>1, RewardConstants, RP!InitBooks
<1>2. VP!Ind
  <2>1. VP!Init
    BY DEF Init, V!Init, VP!Init, V!NoRefund, VP!NoRefund
  <2> QED BY <2>1, VotingConstants, VP!InitInd
<1>3. RowsAgree /\ Registered /\ RefundsPositive
  BY DEF Init, R!Init, V!Init, V!NoRefund, RowsAgree, Registered, RefundsPositive
<1>4. /\ InitialBalance \in [Users -> Nat]
      /\ SumFunctionOnSet(InitialBalance, Users) <= MAX_AMOUNT
  BY ElectionAssumption DEF SumFunction
<1>5. /\ balance \in [Accounts -> [{CORE} -> Nat]]
      /\ \A a \in Accounts :
            balance[a][CORE] = IF a \in Users THEN InitialBalance[a] ELSE 0
      /\ rows = Users \X {CORE}
  BY <1>4 DEF Init
<1>6. SumFunctionOnSet(Holdings, Accounts) = SumFunctionOnSet(InitialBalance, Users)
  <2> DEFINE f == InitialBalance
             g == Holdings
  <2>1. IsFiniteSet(Accounts) /\ Users \in SUBSET Accounts
    BY FiniteAccounts DEF Accounts
  <2>2. IntOn(f, Users)
    BY <1>4 DEF IntOn
  <2>3. /\ \A a \in Users : g[a] = f[a]
        /\ \A a \in Accounts \ Users : g[a] = 0
    BY <1>5 DEF Holdings, Accounts
  <2> HIDE DEF f, g
  <2>4. SumFunctionOnSet(g, Accounts) = SumFunctionOnSet(f, Users)
    BY ONLY <2>1, <2>2, <2>3, SumRestrict
  <2> QED BY <2>4 DEF f, g
<1>7. \A a \in Accounts : <<a, CORE>> \notin rows => balance[a][CORE] = 0
  BY <1>5
<1>8. Ledger
  BY <1>4, <1>5, <1>6, <1>7 DEF Ledger
<1>9. Held
  <2>1. /\ \A v \in Voters : RefundsOf[v] = 0 /\ ClaimedOf[v] = 0
        /\ total_vote_stake = 0 /\ total_rewards = 0
    BY DEF Init, R!Init, V!Init, V!NoRefund, RefundsOf, ClaimedOf
  <2>2. /\ SumFunctionOnSet(RefundsOf, Voters) = 0
        /\ SumFunctionOnSet(ClaimedOf, Voters) = 0
    BY <2>1, Constants, SumZero
  <2>3. balance[VOTE_ACCOUNT][CORE] \in Nat /\ balance[REWARD_ACCOUNT][CORE] \in Nat
    BY <1>8, HoldingsNat, AccountFacts
  <2> QED BY <2>1, <2>2, <2>3 DEF Held
<1> QED BY <1>1, <1>2, <1>3, <1>8, <1>9 DEF Ind

LEMMA NextInd == ASSUME Ind, Next PROVE Ind'
<1>1. ASSUME NEW p \in Producers,
             \/ regproducer(p) \/ reward_regproducer(p)
             \/ unregprod(p) \/ rmvproducer(p)
      PROVE  Ind'
  BY <1>1, ProducerActionsInd
<1>2. ASSUME NEW v \in Voters, NEW n \in 1..MaxVotes, addvote(v, n) PROVE Ind'
  BY <1>2, AddvoteInd
<1>3. ASSUME NEW v \in Voters, NEW n \in 1..MaxVotes,
             NEW queued \in BOOLEAN, subvote(v, n, queued)
      PROVE  Ind'
  BY <1>3, SubvoteInd
<1>4. ASSUME NEW v \in Voters, NEW P \in SUBSET Producers, voteproducer(v, P)
      PROVE  Ind'
  BY <1>4, VoteproducerInd
<1>5. ASSUME NEW v \in Voters,
             voterefund(v) \/ RunDeferred(v) \/ DropDeferred(v)
      PROVE  Ind'
  BY <1>5, RefundInd
<1>6. ASSUME NEW v \in Voters, claimrewards(v) PROVE Ind'
  BY <1>6, ClaimInd
<1>7. ASSUME NEW a \in Senders, NEW n \in 1..MaxTransfer,
             NEW b \in {VOTE_ACCOUNT, REWARD_ACCOUNT}, transfer(a, b, n)
      PROVE  Ind'
  BY <1>7, TransferInd
<1>8. CASE init \/ Tick \/ \E t \in ElectionTimes : cfgelection(t)
  BY <1>8, OtherActionsInd
<1> QED
  BY <1>1, <1>2, <1>3, <1>4, <1>5, <1>6, <1>7, <1>8 DEF Next

LEMMA SameState == ASSUME Ind, UNCHANGED vars PROVE Ind'
<1>1. RP!Books'
  <2>1. [RP!Next]_(RP!vars)
    BY DEF vars, rvars, RP!vars
  <2> QED BY <2>1, RewardConstants, RP!NextBooks DEF Ind
<1>2. VP!Ind'
  <2>1. [VP!Next]_(VP!vars)
    BY DEF vars, vvars, VP!vars
  <2> QED BY <2>1, VotingConstants, VP!NextInd DEF Ind
<1>3. RowsAgree' /\ Registered' /\ RefundsPositive' /\ Ledger' /\ Held'
  BY DEF Ind, RowsAgree, Registered, RefundsPositive, Ledger, Held, Holdings,
         RefundsOf, ClaimedOf, V!NoRefund, vars, rvars, vvars, tvars
<1> QED BY <1>1, <1>2, <1>3 DEF Ind

(* The inductive invariant holds in every reachable state.                 *)
THEOREM Invariance == Spec => []Ind
<1>1. Init => Ind
  BY InitInd
<1>2. Ind /\ [Next]_vars => Ind'
  BY NextInd, SameState
<1> QED BY <1>1, <1>2, PTL DEF Spec

-----------------------------------------------------------------------------
LEMMA TotalsAgree ==
    ASSUME Ind, NEW p \in Producers
    PROVE  producers[p].total_votes = producer_tbl[p].votes
<1> DEFINE f == [v \in Voters |-> VP!VotesOn(v, p)]
           g == [v \in Voters |-> RP!VotesOn(v, p)]
<1>1. \A v \in Voters : VP!VotesOn(v, p) = RP!VotesOn(v, p)
  BY DEF Ind, RowsAgree, VP!VotesOn, RP!VotesOn
<1>2. f = g
  BY <1>1
<1>3. producers[p].total_votes = VP!SumFunctionOnSet(f, Voters)
  BY DEF Ind, VP!Ind, VP!VotesOf
<1>4. producer_tbl[p].votes = RP!SumFunctionOnSet(g, Voters)
  BY DEF Ind, RP!Books, RP!Ind, RP!TallyInv
<1> HIDE DEF f, g
<1> QED BY <1>2, <1>3, <1>4, SameSums

(* The two contracts that keep the votes never disagree about a voter or   *)
(* about the total of a producer, and every producer that can be elected   *)
(* is registered with flon.reward.                                         *)
THEOREM VotesAgree == Spec => []AgreementInv
<1>1. Ind => AgreementInv
  BY TotalsAgree DEF Ind, RowsAgree, Registered, AgreementInv
<1> QED BY <1>1, Invariance, PTL

-----------------------------------------------------------------------------
(* What flon.reward has not paid out is what it received less what was     *)
(* claimed.                                                                *)
UnallocatedOf == [p \in Producers |-> producer_tbl[p].allocating_rewards]

UnclaimedOf == [v \in Voters |-> voter_tbl[v].unclaimed_rewards]

LEMMA NotPaidOut ==
    ASSUME Ind
    PROVE  /\ SumFunctionOnSet(UnallocatedOf, Producers)
                + SumFunctionOnSet(UnclaimedOf, Voters)
                + SumFunctionOnSet(ClaimedOf, Voters) = total_rewards
           /\ SumFunctionOnSet(UnallocatedOf, Producers) \in Int
           /\ SumFunctionOnSet(UnclaimedOf, Voters) \in Int
<1> DEFINE a == UnallocatedOf
           b == [p \in Producers |-> producer_tbl[p].allocated_rewards]
           t == [p \in Producers |-> producer_tbl[p].total_rewards]
           u == UnclaimedOf
           c == ClaimedOf
           k == [v \in Voters |-> voter_tbl[v].unclaimed_rewards
                                    + voter_tbl[v].claimed_rewards]
<1>1. RP!ConservationInv
  BY DEF Ind, RP!Books
<1>2. /\ total_rewards = RP!SumFunctionOnSet(t, Producers)
      /\ RP!SumFunctionOnSet(b, Producers) = RP!SumFunctionOnSet(k, Voters)
  BY <1>1 DEF RP!ConservationInv
<1>3. \A p \in Producers : /\ producer_tbl[p].allocating_rewards \in Nat
                           /\ producer_tbl[p].allocated_rewards \in Nat
                           /\ producer_tbl[p].total_rewards
                                = producer_tbl[p].allocating_rewards
                                    + producer_tbl[p].allocated_rewards
  <2>1. \A p \in Producers : /\ producer_tbl[p].allocating_rewards \in Nat
                             /\ producer_tbl[p].allocated_rewards \in Nat
    BY Types, Constants DEF RP!ProducerRow, RP!Amounts
  <2> QED BY <1>1, <2>1 DEF RP!ConservationInv
<1>4. \A v \in Voters : /\ voter_tbl[v].unclaimed_rewards \in Nat
                        /\ voter_tbl[v].claimed_rewards \in Nat
  BY Types, Constants DEF RP!VoterRow, RP!Amounts
<1>5. /\ IntOn(a, Producers) /\ IntOn(b, Producers)
      /\ \A p \in Producers : t[p] = a[p] + 1 * b[p]
  BY <1>3 DEF UnallocatedOf, IntOn
<1>6. /\ IntOn(u, Voters) /\ IntOn(c, Voters)
      /\ \A v \in Voters : k[v] = u[v] + 1 * c[v]
  BY <1>4 DEF UnclaimedOf, ClaimedOf, IntOn
<1> HIDE DEF a, b, t, u, c, k
<1>7. /\ IsFiniteSet(Producers) /\ IsFiniteSet(Voters)
      /\ Producers \in SUBSET Producers /\ Voters \in SUBSET Voters
  BY Constants
<1>8. SumFunctionOnSet(t, Producers)
        = SumFunctionOnSet(a, Producers) + 1 * SumFunctionOnSet(b, Producers)
  BY ONLY <1>5, <1>7, SumLinear
<1>9. SumFunctionOnSet(k, Voters)
        = SumFunctionOnSet(u, Voters) + 1 * SumFunctionOnSet(c, Voters)
  BY ONLY <1>6, <1>7, SumLinear
<1>10. /\ SumFunctionOnSet(a, Producers) \in Int
       /\ SumFunctionOnSet(b, Producers) \in Int
       /\ SumFunctionOnSet(u, Voters) \in Int
       /\ SumFunctionOnSet(c, Voters) \in Int
  BY ONLY <1>5, <1>6, <1>7, SumInt
<1>11. /\ total_rewards = SumFunctionOnSet(t, Producers)
       /\ SumFunctionOnSet(b, Producers) = SumFunctionOnSet(k, Voters)
  BY <1>2, SameSums
<1>12. SumFunctionOnSet(a, Producers) + SumFunctionOnSet(u, Voters)
         + SumFunctionOnSet(c, Voters) = total_rewards
  BY <1>8, <1>9, <1>10, <1>11
<1> QED BY <1>10, <1>12 DEF a, u, c

(* The custody accounts hold all they owe, whatever the order of votes,    *)
(* withdrawals, refunds, rewards, claims and direct transfers: flon.vote   *)
(* the stake and the pending refunds, flon.reward what it has not paid.    *)
THEOREM CustodyCovers == Spec => []CustodyInv
<1>1. ASSUME Ind PROVE CustodyInv
  <2> DEFINE a == SumFunctionOnSet(UnallocatedOf, Producers)
             u == SumFunctionOnSet(UnclaimedOf, Voters)
             c == SumFunctionOnSet(ClaimedOf, Voters)
  <2>1. balance[VOTE_ACCOUNT][CORE] >= total_vote_stake + RefundSum
    BY <1>1 DEF Ind, Held, RefundSum, RefundsOf
  <2>2. balance[REWARD_ACCOUNT][CORE] + c >= total_rewards
    BY <1>1 DEF Ind, Held
  <2>3. a + u + c = total_rewards /\ a \in Int /\ u \in Int
    BY <1>1, NotPaidOut
  <2>4. c \in Nat /\ balance[REWARD_ACCOUNT][CORE] \in Nat
    BY <1>1, SumTypes
  <2> HIDE DEF a, u, c
  <2>5. balance[REWARD_ACCOUNT][CORE] >= a + u
    BY <2>2, <2>3, <2>4
  <2> QED BY <2>1, <2>5 DEF CustodyInv, a, u, UnallocatedOf, UnclaimedOf
<1> QED BY <1>1, Invariance, PTL

-----------------------------------------------------------------------------
(* A custody account that has the tokens can pay them to a voter.          *)
LEMMA CanPay ==
    ASSUME Ledger, NEW a \in Accounts, NEW v \in Accounts, a # v, NEW q \in Nat,
           q > 0, q <= balance[a][CORE]
    PROVE  T!sub_balance_ok(a, CORE, q) /\ T!add_balance_ok(v, CORE, q)
<1>1. balance[a][CORE] \in Nat /\ balance[v][CORE] \in Nat /\ MAX_AMOUNT \in Nat
  BY HoldingsNat, Constants
<1>2. <<a, CORE>> \in rows
  BY <1>1 DEF Ledger
<1>3. balance[a][CORE] + balance[v][CORE] <= MAX_AMOUNT
  BY TwoHoldings
<1>4. balance[v][CORE] + q <= MAX_AMOUNT /\ balance[a][CORE] >= q
  BY <1>1, <1>3
<1> QED BY <1>2, <1>4 DEF T!sub_balance_ok, T!add_balance_ok

LEMMA RefundHeld ==
    ASSUME Ind, NEW v \in Voters, V!RefundChecks(v)
    PROVE  /\ refunds[v].vote_staked \in Nat /\ refunds[v].vote_staked > 0
           /\ refunds[v].vote_staked <= balance[VOTE_ACCOUNT][CORE]
<1> DEFINE s == SumFunctionOnSet(RefundsOf, Voters)
           q == refunds[v].vote_staked
<1>1. q > 0
  BY DEF V!RefundChecks, Ind, RefundsPositive
<1>2. /\ q \in Nat /\ s \in Nat /\ total_vote_stake \in Nat
      /\ balance[VOTE_ACCOUNT][CORE] \in Nat
      /\ \A u \in Voters : RefundsOf[u] \in Nat
      /\ RefundsOf[v] = q
  BY SumTypes, Types
<1>3. RefundsOf[v] <= s
  BY <1>2, SumBound, Constants
<1>4. balance[VOTE_ACCOUNT][CORE] >= total_vote_stake + s
  BY DEF Ind, Held
<1> HIDE DEF s, q
<1>5. q <= balance[VOTE_ACCOUNT][CORE]
  BY <1>2, <1>3, <1>4
<1> QED BY <1>1, <1>2, <1>5 DEF q

(* What one voter can claim is there, even if all the others have claimed. *)
LEMMA ClaimHeld ==
    ASSUME Ind, NEW v \in Voters
    PROVE  /\ R!claimable(v) \in Int
           /\ R!claimable(v) <= balance[REWARD_ACCOUNT][CORE]
<1> DEFINE c == ClaimedOf
           e == RP!EarnedOf
           g == [u \in Voters |-> IF u = v THEN e[v] ELSE c[u]]
           q == RP!claimable(v)
<1>1. RP!EarnedIsDue /\ RP!EarnedIsCovered
  BY RewardConstants, RP!EarnedFacts DEF Ind
<1>2. /\ SumFunctionOnSet(e, Voters) <= total_rewards
      /\ \A u \in Voters : e[u] \in 0..total_rewards
  BY <1>1, SameSums DEF RP!EarnedIsCovered
<1>3. \A u \in Voters : e[u] = RP!Earned(u)
  BY DEF RP!EarnedOf
<1>4. \A u \in Voters : c[u] = voter_tbl[u].claimed_rewards /\ c[u] \in Nat
  BY SumTypes
<1>5. \A u \in Voters : c[u] <= e[u]
  <2> SUFFICES ASSUME NEW u \in Voters PROVE c[u] <= e[u]
    OBVIOUS
  <2> DEFINE d == RP!SumFunctionOnSet(RP!DueOf(u), Producers)
             n == voter_tbl[u].unclaimed_rewards
  <2>1. /\ RP!Earned(u) = RP!Credited(u) + d /\ d \in Nat
    BY <1>1 DEF RP!EarnedIsDue
  <2>2. RP!Credited(u) = n + voter_tbl[u].claimed_rewards
    BY DEF RP!Credited
  <2>3. n \in Nat
    BY Types, Constants DEF RP!VoterRow, RP!Amounts
  <2> HIDE DEF d, n
  <2> QED BY <1>3, <1>4, <2>1, <2>2, <2>3
<1>6. e[v] = voter_tbl[v].claimed_rewards + q
  BY <1>3 DEF RP!Earned
<1>7. RP!claimable(v) \in Int
  <2> DEFINE d == RP!SumFunctionOnSet(RP!DueOf(v), Producers)
  <2>1. RP!claimable(v) = voter_tbl[v].unclaimed_rewards + d /\ d \in Nat
    BY RewardConstants, Types, RP!ClaimableIsDue
  <2>2. voter_tbl[v].unclaimed_rewards \in Nat
    BY Types, Constants DEF RP!VoterRow, RP!Amounts
  <2> HIDE DEF d
  <2> QED BY <2>1, <2>2
<1>8. total_rewards \in Nat
  BY Types
<1> HIDE DEF c, e, q
<1>9. IntOn(c, Voters) /\ IntOn(e, Voters)
  BY <1>2, <1>4, <1>8 DEF IntOn
<1>10. /\ g[v] = e[v] /\ g[v] \in Int
       /\ DiffersAt(c, g, Voters, v)
       /\ IntOn(g, Voters)
       /\ \A u \in Voters : g[u] <= e[u]
  BY <1>2, <1>4, <1>5, <1>8 DEF DiffersAt, IntOn
<1> HIDE DEF g
<1>11. IsFiniteSet(Voters)
  BY Constants
<1>12. IntOn(c, Voters) /\ g[v] \in Int /\ DiffersAt(c, g, Voters, v)
  BY <1>9, <1>10
<1>13. /\ SumFunctionOnSet(g, Voters) = SumFunctionOnSet(c, Voters) - c[v] + g[v]
       /\ SumFunctionOnSet(g, Voters) \in Int
       /\ SumFunctionOnSet(c, Voters) \in Int
  BY ONLY <1>11, <1>12, SumChange, v \in Voters
<1>14. SumFunctionOnSet(g, Voters) <= SumFunctionOnSet(e, Voters)
  BY ONLY <1>9, <1>10, <1>11, SumMonotone
<1>15. SumFunctionOnSet(e, Voters) \in Int
  <2>1. Voters \in SUBSET Voters
    OBVIOUS
  <2> QED BY ONLY <1>9, <1>11, <2>1, SumInt
<1>16. balance[REWARD_ACCOUNT][CORE] + SumFunctionOnSet(c, Voters) >= total_rewards
  BY DEF Ind, Held, c
<1>17. c[v] = voter_tbl[v].claimed_rewards /\ c[v] \in Nat
  BY <1>4
<1>18. balance[REWARD_ACCOUNT][CORE] \in Nat
  BY SumTypes
<1>19. q \in Int
  BY <1>7 DEF q
<1>20. SumFunctionOnSet(g, Voters) = SumFunctionOnSet(c, Voters) + q
  BY <1>6, <1>10, <1>13, <1>17, <1>19
<1>21. q <= balance[REWARD_ACCOUNT][CORE]
  BY <1>2, <1>8, <1>13, <1>14, <1>15, <1>16, <1>18, <1>19, <1>20
<1> QED BY <1>19, <1>21, SameClaimable DEF q

(* flon.reward lets go of any votes that flon.system does.                 *)
LEMMA WithdrawalAccepted ==
    ASSUME Ind, NEW v \in Voters, NEW n \in 1..MaxVotes, V!SubvoteChecks(v, n)
    PROVE  /\ voter_tbl[v].votes >= n
           /\ \A p \in voter_tbl[v].producers :
                 R!AllocateChecks(p, voter_tbl[v].votes, -n,
                                  voter_tbl[v].last_rewards_per_vote[p])
<1>1. voter_tbl[v].votes >= n
  BY DEF V!SubvoteChecks, Ind, RowsAgree
<1>2. ASSUME NEW p \in voter_tbl[v].producers
      PROVE  R!AllocateChecks(p, voter_tbl[v].votes, -n,
                              voter_tbl[v].last_rewards_per_vote[p])
  <2> DEFINE m == voter_tbl[v].votes
             last == voter_tbl[v].last_rewards_per_vote[p]
             t == producer_tbl[p].votes
  <2>1. RP!AllocateChecks(p, m, -m, last)
    BY RewardConstants, RP!ExitChecks DEF Ind
  <2>2. p \in Producers /\ m \in Nat /\ n \in Nat
    BY Types, Constants DEF RP!VoterRow
  <2>3. t \in Nat
    BY <2>2, Types, Constants DEF RP!ProducerRow
  <2>4. t + (-m) >= 0
    BY <2>1 DEF RP!AllocateChecks
  <2> HIDE DEF m, last, t
  <2>5. t + (-n) >= 0
    BY <1>1, <2>2, <2>3, <2>4 DEF m
  <2>6. RP!AllocateChecks(p, m, -n, last)
    BY <2>1, <2>5, Zenon DEF RP!AllocateChecks, t
  <2>7. R!AllocateChecks(p, m, -n, last)
    BY <2>6, SameAllocateChecks
  <2> QED BY <2>7 DEF m, last
<1> QED BY <1>1, <1>2

(* No contract refuses a voter what another one granted: flon.token pays   *)
(* every refund that is mature and every reward that is due, and votes     *)
(* that flon.system lets a voter withdraw flon.reward does too.            *)
THEOREM PayoutsAccepted == Spec => []PayoutInv
<1>1. ASSUME Ind PROVE PayoutInv
  <2> SUFFICES ASSUME NEW v \in Voters
               PROVE  /\ V!RefundChecks(v) =>
                            /\ T!sub_balance_ok(VOTE_ACCOUNT, CORE, refunds[v].vote_staked)
                            /\ T!add_balance_ok(v, CORE, refunds[v].vote_staked)
                      /\ R!claimable(v) > 0 =>
                            /\ T!sub_balance_ok(REWARD_ACCOUNT, CORE, R!claimable(v))
                            /\ T!add_balance_ok(v, CORE, R!claimable(v))
                      /\ \A n \in 1..MaxVotes : V!SubvoteChecks(v, n) =>
                            /\ voter_tbl[v].votes >= n
                            /\ \A p \in voter_tbl[v].producers :
                                  R!AllocateChecks(p, voter_tbl[v].votes, -n,
                                     voter_tbl[v].last_rewards_per_vote[p])
    BY DEF PayoutInv
  <2>1. /\ Ledger /\ v \in Accounts /\ v # VOTE_ACCOUNT /\ v # REWARD_ACCOUNT
        /\ VOTE_ACCOUNT \in Accounts /\ REWARD_ACCOUNT \in Accounts
    BY <1>1, AccountFacts DEF Ind
  <2>2. ASSUME V!RefundChecks(v)
        PROVE  /\ T!sub_balance_ok(VOTE_ACCOUNT, CORE, refunds[v].vote_staked)
               /\ T!add_balance_ok(v, CORE, refunds[v].vote_staked)
    BY <1>1, <2>1, <2>2, RefundHeld, CanPay
  <2>3. ASSUME R!claimable(v) > 0
        PROVE  /\ T!sub_balance_ok(REWARD_ACCOUNT, CORE, R!claimable(v))
               /\ T!add_balance_ok(v, CORE, R!claimable(v))
    <3> DEFINE q == R!claimable(v)
    <3>1. q \in Int /\ q > 0 /\ q <= balance[REWARD_ACCOUNT][CORE]
      BY <1>1, <2>3, ClaimHeld
    <3> HIDE DEF q
    <3>2. q \in Nat
      BY <3>1
    <3>3. T!sub_balance_ok(REWARD_ACCOUNT, CORE, q) /\ T!add_balance_ok(v, CORE, q)
      BY <2>1, <3>1, <3>2, CanPay
    <3> QED BY <3>3 DEF q
  <2> QED BY <1>1, <2>2, <2>3, WithdrawalAccepted
<1> QED BY <1>1, Invariance, PTL
=============================================================================
