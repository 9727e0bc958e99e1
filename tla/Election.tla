------------------------------ MODULE Election ------------------------------
(***************************************************************************)
(* flon.system's voting, flon.reward and flon.token together.  An action   *)
(* of flon.system sends inline actions to the two other contracts; the     *)
(* whole is one transaction, so it happens entirely or not at all, and the *)
(* checks of all three contracts guard it.                                 *)
(***************************************************************************)
EXTENDS Integers, FiniteSets, Functions

CONSTANTS
    Voters, Producers,
    VOTE_ACCOUNT, REWARD_ACCOUNT,           \* flon.vote, flon.reward
    CORE,                                   \* the core symbol
    HIGH_PRECISION, MAX_AMOUNT,
    MaxVoteProducers, RefundDelaySec,
    InitialBalance,                         \* the tokens each user starts with
    Senders,                                \* the users whose transfers are modelled
    ElectionTimes,                          \* the times cfgelection may be given
    MaxVotes, MaxTime, MaxTransfer          \* bounds

Users == Voters \cup Producers

Accounts == Users \cup {VOTE_ACCOUNT, REWARD_ACCOUNT}

ASSUME ElectionAssumption ==
    /\ IsFiniteSet(Voters) /\ IsFiniteSet(Producers)
    /\ VOTE_ACCOUNT # REWARD_ACCOUNT
    /\ {VOTE_ACCOUNT, REWARD_ACCOUNT} \cap Users = {}
    /\ HIGH_PRECISION \in Nat \ {0}
    /\ RefundDelaySec \in Nat \ {0}
    /\ {MAX_AMOUNT, MaxVoteProducers, MaxVotes, MaxTransfer} \subseteq Nat
    /\ MaxTime \in Nat \ {0}
    /\ InitialBalance \in [Users -> Nat]
    /\ SumFunction(InitialBalance) <= MAX_AMOUNT    \* the supply is an asset
    /\ Senders \subseteq Users
    /\ ElectionTimes \subseteq 1..MaxTime

VARIABLES
    initialized, total_rewards, producer_tbl, voter_tbl,          \* flon.reward
    now, election_activated_time, total_vote_stake, producers,
    voters, refunds, deferred, due,                               \* flon.system
    stat, rows, balance                                           \* flon.token

R == INSTANCE Reward
V == INSTANCE Voting
T == INSTANCE Token WITH Symbols <- {CORE}

rvars == <<initialized, total_rewards, producer_tbl, voter_tbl>>
vvars == <<now, election_activated_time, total_vote_stake, producers, voters,
           refunds, deferred, due>>
tvars == <<stat, rows, balance>>
vars == <<rvars, vvars, tvars>>

-----------------------------------------------------------------------------
(* The core token has been created, issued and spread over the users       *)
(* before the contracts are initialized.                                   *)
Init ==
    /\ R!Init
    /\ V!Init
    /\ balance = [a \in Accounts |->
          [s \in {CORE} |-> IF a \in Users THEN InitialBalance[a] ELSE 0]]
    /\ rows = Users \X {CORE}
    /\ \E issuer \in Producers :
          stat = [s \in {CORE} |->
             [ exists |-> TRUE, supply |-> SumFunction(InitialBalance),
               max_supply |-> MAX_AMOUNT, issuer |-> issuer ]]

(* init of flon.system sets the core symbol of both contracts.             *)
init ==
    /\ R!init
    /\ UNCHANGED <<vvars, tvars>>

(* The producer is registered with flon.reward unless it already is.       *)
regproducer(p) ==
    /\ initialized
    /\ V!register_producer(p)
    /\ IF producer_tbl[p].is_registered THEN UNCHANGED rvars ELSE R!regproducer(p)
    /\ UNCHANGED tvars

(* regproducer of flon.reward, which any account may call for itself.      *)
reward_regproducer(p) ==
    /\ R!regproducer(p)
    /\ UNCHANGED <<vvars, tvars>>

unregprod(p) ==
    /\ V!unregprod(p)
    /\ UNCHANGED <<rvars, tvars>>

rmvproducer(p) ==
    /\ V!rmvproducer(p)
    /\ UNCHANGED <<rvars, tvars>>

addvote(v, n) ==
    /\ initialized
    /\ V!addvote(v, n)
    /\ T!transfer(v, VOTE_ACCOUNT, CORE, n)
    /\ R!addvote(v, n)

subvote(v, n, queued) ==
    /\ V!subvote(v, n, queued)
    /\ R!subvote(v, n)
    /\ UNCHANGED tvars

voteproducer(v, P) ==
    /\ V!voteproducer(v, P)
    /\ R!voteproducer(v, P)
    /\ UNCHANGED tvars

(* Mutant: the refund row is not erased.                                   *)
voterefund_Again(v) ==
    /\ V!RefundChecks(v)
    /\ T!transfer(VOTE_ACCOUNT, v, CORE, refunds[v].vote_staked)
    /\ UNCHANGED <<rvars, vvars>>

voterefund(v) ==
    /\ V!voterefund(v)
    /\ T!transfer(VOTE_ACCOUNT, v, CORE, refunds[v].vote_staked)
    /\ UNCHANGED rvars

RunDeferred(v) ==
    /\ V!RunDeferred(v)
    /\ IF V!RefundChecks(v)
       THEN T!transfer(VOTE_ACCOUNT, v, CORE, refunds[v].vote_staked)
       ELSE UNCHANGED tvars
    /\ UNCHANGED rvars

DropDeferred(v) ==
    /\ V!DropDeferred(v)
    /\ UNCHANGED <<rvars, tvars>>

cfgelection(t) ==
    /\ initialized
    /\ V!cfgelection(t)
    /\ UNCHANGED <<rvars, tvars>>

Tick ==
    /\ V!Tick
    /\ UNCHANGED <<rvars, tvars>>

(* claimrewards and claimfor of flon.reward.                               *)
claimrewards(v) ==
    /\ R!claimrewards(v)
    /\ T!transfer(REWARD_ACCOUNT, v, CORE, R!claimable(v))
    /\ UNCHANGED vvars

(* A user's own transfer.  flon.reward is notified of the ones it receives *)
(* and may refuse them; flon.vote has no code.                             *)
transfer(from, to, n) ==
    /\ T!transfer(from, to, CORE, n)
    /\ IF to = REWARD_ACCOUNT THEN R!ontransfer(from, n) ELSE UNCHANGED rvars
    /\ UNCHANGED vvars

Next ==
    \/ init
    \/ \E p \in Producers : regproducer(p)
    \/ \E p \in Producers : reward_regproducer(p)
    \/ \E p \in Producers : unregprod(p)
    \/ \E p \in Producers : rmvproducer(p)
    \/ \E v \in Voters, n \in 1..MaxVotes : addvote(v, n)
    \/ \E v \in Voters, n \in 1..MaxVotes, queued \in BOOLEAN : subvote(v, n, queued)
    \/ \E v \in Voters, P \in SUBSET Producers : voteproducer(v, P)
    \/ \E v \in Voters : voterefund(v)
    \/ \E v \in Voters : RunDeferred(v)
    \/ \E v \in Voters : DropDeferred(v)
    \/ \E t \in ElectionTimes : cfgelection(t)
    \/ Tick
    \/ \E v \in Voters : claimrewards(v)
    \/ \E a \in Senders, n \in 1..MaxTransfer :
          \E b \in {VOTE_ACCOUNT, REWARD_ACCOUNT} : transfer(a, b, n)

Spec == Init /\ [][Next]_vars

-----------------------------------------------------------------------------
(* Properties.                                                             *)

(* The two contracts keep the votes twice and never disagree: each voter   *)
(* has the same votes on the same producers in both, each producer the     *)
(* same total, although voteproducer of flon.system and of flon.reward     *)
(* split the old and the new list differently.  And a producer that can be *)
(* elected is registered with flon.reward, so that it can send rewards.    *)
AgreementInv ==
    /\ \A v \in Voters :
          /\ voters[v].votes = voter_tbl[v].votes
          /\ voters[v].producers = voter_tbl[v].producers
    /\ \A p \in Producers :
          /\ producers[p].total_votes = producer_tbl[p].votes
          /\ producers[p].exists => producer_tbl[p].is_registered

RefundSum == SumFunctionOnSet([v \in Voters |-> refunds[v].vote_staked], Voters)

(* The custody accounts hold all they owe: flon.vote the stake behind the  *)
(* votes and the refunds that wait for their delay, flon.reward every      *)
(* reward it has not paid out.                                             *)
CustodyInv ==
    /\ balance[VOTE_ACCOUNT][CORE] >= total_vote_stake + RefundSum
    /\ balance[REWARD_ACCOUNT][CORE]
         >= SumFunctionOnSet([p \in Producers |-> producer_tbl[p].allocating_rewards],
                             Producers)
            + SumFunctionOnSet([v \in Voters |-> voter_tbl[v].unclaimed_rewards], Voters)

(* No contract can refuse a voter what another one granted: a refund that  *)
(* is mature and a reward that is due can be paid by flon.token, and any   *)
(* votes flon.system lets a voter withdraw flon.reward does too.           *)
PayoutInv ==
    \A v \in Voters :
        /\ V!RefundChecks(v) =>
              /\ T!sub_balance_ok(VOTE_ACCOUNT, CORE, refunds[v].vote_staked)
              /\ T!add_balance_ok(v, CORE, refunds[v].vote_staked)
        /\ R!claimable(v) > 0 =>
              /\ T!sub_balance_ok(REWARD_ACCOUNT, CORE, R!claimable(v))
              /\ T!add_balance_ok(v, CORE, R!claimable(v))
        /\ \A n \in 1..MaxVotes : V!SubvoteChecks(v, n) =>
              /\ voter_tbl[v].votes >= n
              /\ \A p \in voter_tbl[v].producers :
                    R!AllocateChecks(p, voter_tbl[v].votes, -n,
                                     voter_tbl[v].last_rewards_per_vote[p])
=============================================================================
