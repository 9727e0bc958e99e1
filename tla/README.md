# A formal model of the flon system contracts

This directory holds TLA+ models of the smart contracts in `src/contracts`, TLC
configurations that check them on small instances, and TLAPS proofs of the
properties that matter most. The contracts run on a chain that executes
*transactions*: a transaction runs one or more *actions*, an action may send
*inline actions* to other contracts, and any failed `check` aborts the whole
transaction without a trace. So a handler with everything it sends is one atomic
step in all the models, and each `check` is a conjunct of its guard. What is left
to go wrong, and what the models explore, is the order of transactions of many
accounts, the chain's own steps (`onblock`, deferred transactions), the clock, and
the bookkeeping that several tables of several contracts share.

## 1. Inventory

| Part | State | Operations | Interacts with | Hard behaviour |
|---|---|---|---|---|
| **flon.reward** (`contracts/flon.reward`) | global totals; per producer: rewards received, unallocated, allocated, votes, accumulator `rewards_per_vote`; per voter: votes, a map producer → accumulator value paid up to, unclaimed, claimed | `init`, `regproducer`, `addvote`, `subvote`, `voteproducer`, `claimrewards`, `claimfor`, notification `ontransfer` | called inline by flon.system; notified by flon.token; pays through flon.token | lazy settlement: each voter is paid when its row is touched, in fixed point, rounding twice; a `check` that fails locks a voter's stake in another contract |
| **flon.token** (`contracts/flon.token`) | per symbol: supply, maximum, issuer; per owner and symbol: a row with a balance | `create`, `issue`, `retire`, `transfer`, `open`, `close` | notifies receivers | conservation, rows created and closed around zero balances, overflow of a receiver |
| **voting** (`flon.system/src/voting.cpp`) | producers, voters, total stake, a refund row per voter, a deferred transaction per voter, the election time | `regproducer(2)`, `unregprod`, `rmvproducer`, `voteproducer`, `addvote`, `subvote`, `voterefund`, `cfgelection` | transfers stake through flon.token, mirrors votes to flon.reward | the refund: a deferred transaction, which the host may lose, against one pushed by hand; half-second clock cut to seconds; producers that disappear under their voters |
| **schedule and finalizer keys** (`voting.cpp`, `finalizer_key.cpp`, `onblock`) | finalizer keys, finalizers with their active key, the last proposed policy, the size of the last schedule | `regfinkey`, `actfinkey`, `delfinkey`, `switchtosvnn`, `update_elected_producers` | host functions `set_proposed_producers`, `set_finalizers`; the votes | keys deleted and registered again by others while an older policy still holds them; `onblock` must not fail |
| **multi-signature** (`contracts/flon.msig`) | proposals with their earliest execution time, approvals, invalidations | `propose`, `approve`, `unapprove`, `cancel`, `exec`, `invalidate` | sends the proposed actions | approvals made stale by an invalidation; the delay, which starts anew |
| **name auction** (`name_bidding.cpp`, `onblock`, `newaccount`) | bids by name, refunds by bidder and name, time of the last close | `bidname`, `bidrefund`, the daily close, `newaccount` | tokens in `flon.names` | refund of the outbid bidder, sold names as negative bids |
| **producer pay** (`producer_pay.cpp`) | the two start times, the initial reward, the rewards credited to each producer and in total | `onblock`, `cfgelection` | none: nothing is paid out, `claimrewards` always fails | times configured again and again around their coming; halving periods; unchecked sums |
| **block info** (`block_info.cpp`, `block_info.hpp`) | a rolling table of heights and times | `add_to_blockinfo_table` in `onblock`, `get_latest_block_batch_info` | read by other contracts | blocks that `onblock` missed, the window boundary |
| **onblock as a whole** (`producer_pay.cpp` 19–87) | that of the four parts it runs | `onblock`, one transaction per block | block info, producer pay, schedule, name auction | the host undoes all of it when one part fails, and the next block tries again |
| **gas** (`delegate_bandwidth.cpp`, `setalimits`, `newaccount`, `init`) | the core symbol; resource limits, in the host | `init`, `buygas`, `buygasself`, `setalimits`, `newaccount` | flon.token, which takes the price | accounts that do not exist yet, limits that are reset, `uint64_t` at its end |
| **limitauthchg** (`limit_auth_changes.cpp`, `native.hpp`) | two lists of permissions per account | `limitauthchg` and its check in `updateauth`, `deleteauth`, `linkauth`, `unlinkauth` | the host's tree of permissions and its links | permissions deleted, created and linked again after they were listed |
| **pubkey.token** (`contracts/pubkey.token`) | tokens held for public keys | notification `ontransfer`, `newaccount`, `move` | flon.token, flon.system | which token is held and which is paid |
| **flon.wrap, flon.bios, flon.boot, the other native actions, parameters** | none of their own | forward to host functions | | none a model could show |

What makes each part correct:

* **flon.reward**: the tallies equal the voters' votes; a producer's unallocated
  rewards cover all it owes however divisions round; every unit received is
  unallocated, unclaimed or claimed; no check refuses a voter; the 128-bit
  arithmetic does not overflow; votes and settlements never change what anyone
  has earned.
* **flon.token**: supply is the sum of balances and within the maximum; payments
  cannot be refused by the receiver's row; terms are fixed.
* **voting**: tallies and stake equal the votes; withdrawal is always possible;
  a refund is paid once, whole and on time, and once it is due never refused, so
  that it does not depend on the deferred transaction.
* **the three together**: the two copies of the votes agree; the custody accounts
  hold what is due; no contract refuses what another granted.
* **schedule**: the key tables agree; what `onblock` proposes cannot be refused;
  the policy holds one key of each of its finalizers and is never taken back; it
  follows a stable election.
* **multi-signature**: a transaction is executed only by approvals that still
  stand and after it has been authorized for its whole delay; nothing of a
  proposal outlives it; an approval with a hash is on that transaction.
* **name auction**: `flon.names` holds exactly the open bids and the refunds; only
  winners pay; the highest bid wins; a sold name waits for its winner; auctions
  end.
* **producer pay**: rewards never start before the election, are never produced
  before the configured start, add up, halve once per period and are bounded for
  all time.
* **onblock as a whole**: whatever happens between the blocks, no part of it fails
  and takes the others with it.
* **gas**: an account has what was bought for it and what the system set, and all
  that was bought was paid for.
* **limitauthchg**: the owner is never locked out, and an excluded permission
  cannot undo what keeps it out.
* **block info**: the table stays within the window, loses nothing inside it, and
  the batch it answers is the one that is documented.

`PROJECT.json` lists every hazard at its line, with the properties that cover it.

### The build that is modelled

`voteproducer`, `addvote`, `subvote`, `voterefund`, the election and the name
auction are compiled only with `ENABLE_VOTING_PRODUCER` and `ENABLE_NAME_BID`.
The models are of the build that has them.

## 2. Modules

| Module | Models | Used by |
|---|---|---|
| `Reward` | flon.reward | `MCReward`, `RewardProofs`, `Election` |
| `RewardPromise` | what flon.reward promises, without producers or fixed point | `Reward` (refinement `KeepsPromise`) |
| `SumTheorems` | no code: lemmas on finite sums, and on induction and recursion over the naturals | all `…Proofs` |
| `RewardProofs`, `VotingProofs` | no code: proofs about the module of that name | `ElectionProofs` |
| `ElectionProofs`, `GasProofs` | no code: proofs about the module of that name; `GasProofs` also about `Token` | |
| `PartsProofs` | no code: proofs about `NameAuction`, `ProducerPay` and `BlockInfo` | `OnBlockProofs` |
| `OnBlockProofs` | no code: proofs about `Schedule` and `OnBlock` | |
| `AuthorityProofs` | no code: proofs about `Msig` and `LimitAuth` | |
| `Token` | flon.token | `Gas`, `Election` |
| `Gas` | `init`, gas and the limits of accounts, on top of `Token` | `MCGas`, `GasProofs` |
| `Voting` | the voting tables of flon.system | `Election`; checked on its own |
| `Election` | flon.system voting, flon.reward and flon.token composed through their inline actions | `MCElection`, `ElectionProofs` |
| `Schedule` | finalizer keys, the switch to Savanna, the election in `onblock` | `OnBlock`; checked on its own |
| `Msig` | flon.msig | `MCMsig`, `AuthorityProofs` |
| `NameAuction` | bids, refunds, the daily close in `onblock`, `newaccount` | `MCNameAuction`, `OnBlock`, `PartsProofs` |
| `ProducerPay` | the block reward in `onblock`, `cfgelection` | `MCProducerPay`, `OnBlock`, `PartsProofs` |
| `BlockInfo` | the `blockinfo` table and its query | `OnBlock`, `PartsProofs`; checked on its own |
| `OnBlock` | all of `onblock`: extends `Schedule` and composes it with the three modules above | `MCOnBlock`, `OnBlockProofs` |
| `LimitAuth` | `limitauthchg` and the native actions it guards | `AuthorityProofs`; checked on its own |
| `PubkeyToken` | pubkey.token | checked on its own |
| `MC…` | symmetry sets, initial balances, authorities, transactions | the runs |

Conventions: actions, variables and fields keep the names of the source. A row
that does not exist is a default row (with an `exists` or `is_registered` field
where code asks for the row). Definitions called `X_Word` with a comment
"Mutant:" are plausible bugs in the code of `X`; replacing `X` by one makes a
property of a run fail, which shows that the property depends on that code. Modules
that one proof module extends together have names of their own for what the others
call `Init`, `Next`, `Spec`, `vars` and `TypeOK`: `PayInit`, `PaySpec`, `PayTypeOK` in
`ProducerPay`, `Info…` in `BlockInfo`, `Perm…` in `LimitAuth`, `Block…` in `OnBlock`.

### Reward

`producer_tbl` and `voter_tbl` are the two tables. The `std::map` of a voter row
is its key set `producers` and the function `last_rewards_per_vote`.
`allocate_producer_rewards` is the settlement loop of the same name:
`AllocateChecks` are its checks, `new_rewards` what one producer owes,
`AllocatedSum` what the loop adds to the voter, `PaidUpTo` the map it leaves.
`change_vote` is the shared body of `addvote` and `subvote`, `OldVotes` and
`VotesMoved` are the merge of the old map and the new list in `voteproducer`.
`voter::votes` has no initialiser in the code; rows live in zeroed wasm memory,
so a new row has no votes. Integers are unbounded in the model: that
`rewards_per_vote` and the products stay in `int128_t` is the property
`FixedPointRangeInv` (10^18 · (2^62 − 1) < 2^127), and asset additions carry their
overflow check (`Fits`). `update_at` and RAM payers are left out.

### Token

A symbol stands for a (code, precision) pair; a precision that does not match the
`stat` row is refused everywhere. `rows` separates "no row" from "a row with 0",
which `open`, `close` and `sub_balance` tell apart.

### Gas

`Gas` extends `Token`: `buygas` conjoins flon.token's `transfer` to the gas account
with the change of the receiver's limits, `init` its `open`. `existing` is
`is_account`; `limits` is what `get_resource_limits` and `set_resource_limits` read
and write in the host. What the host charges for the use of resources is left out,
and with it the only way tokens leave the gas account. `bought` and `granted` are
histories: the gas that was paid for, and what `setalimits` last set relative to it.
Whether `newaccount` accepts a name is the business of `NameAuction`; here it counts
that it resets the limits once the contract is initialised.

### Voting

`now` counts blocks, two per second; `ToSeconds` is the conversion of
`time_point` to `time_point_sec`, which cuts the half second. `deferred[v]` is the
time from which the host may run the deferred `voterefund` of `v`; sending it
again replaces it. The host gives no guarantee for it: it may ignore the call
(`subvote` with `queued = FALSE`), run the transaction late, or drop it
(`DropDeferred`: the window `deferred_trx_expiration_window` is over, the voter
cannot be billed, the chain has switched deferred transactions off). The
repository's tests run on a chain where it does not come: three days and a block
after a `subvote` the refund is still pending, and they push `voterefund` by hand
(`flon.system_tests.cpp` 1090–1103, `flon.system_tester.hpp` 1183–1184). The history
`due[v]` is when the delay of the pending refund is over, whatever became of the
deferred transaction. `voteproducer`'s merge loop (`voting.cpp` 215–241) compares
*iterators* of two vectors, not names, so it never recognises a kept producer; in
either order of the vectors' addresses every old producer ends up removed and
every new one added, and `removed_prods`, `added_prods` say so.

### Election

`INSTANCE`s of the three modules share their constants. Each action conjoins the
flon.system action with the inline actions it sends. `Senders` limits which users
make free transfers, `ElectionTimes` which times `cfgelection` is given.

### Schedule

Producer names are numbers, in name order. `RanksBefore` is the order of the
`prototalvote` index among active producers with votes. The host functions are
external: `set_finalizers` refuses a policy with a repeated key (`DistinctKeys`),
`set_proposed_producers` may or may not accept (`accepted`). The producer table
moves freely (`RegisterOrLeave`, `MoveVotes`), which contains every behaviour of
`Voting`. `_last_prop_finalizers_cached = {}` (`finalizer_key.cpp` 102–113) is an
empty vector, so an empty row and a missing one are the same. Proofs of possession
are taken as valid.

### Msig

A transaction is a model value with an expiration and a delay; the host's
`check_transaction_authorization` asks whether the given levels contain a set the
accounts' *authority* accepts, and `changeauth`, which stands for the native
`updateauth`, changes that authority at any time. `requested_approvals` is a count per level, because only membership and
multiplicity matter; `provided_approvals` keeps its order, because `unapprove`
erases the first match. Four history variables serve the properties: `approved`
(how often a level has approved a proposal, less its revocations), `valid` (the
levels that did so after the last invalidation of their actor), `since` (since when
a proposal is authorized) and `lost` (proposals that lost their authorization by an
invalidation or a change of authority). A level *stands* by a proposal if `approved`
is positive and `valid` has it. A branch of `approve` for a proposal without an approvals row
cannot be reached (`TablesInv`) and is left out.

### NameAuction

`bids` has one row per name; a bid of 0 stands for no row. The key of the
`highbid` index is computed in `BidWidth`-bit unsigned arithmetic (`by_high_bid`), and
`Highest` is `lower_bound(max / 2)`. Times are kept as ages, cut just beyond the
day they are compared with, so that the model has infinite behaviours and
finitely many states. `BlocksPerDay` and the election interval are constants.
`newaccount` knows three kinds of names: premium ones (`Names`), names with a
suffix, and names of 12 characters, which are their own `Suffix` and free for all.
`FeeRefused` is the transfer of `channel_to_system_fees` failing in `onblock`.

### ProducerPay

`cfgelection` is modelled completely (in `Voting` it only sets the election time).
An `int64_t` has `Width` bits: `power` and the sums wrap as in the build
(`IssuanceInv` shows that the sums never do), quotients are cut towards 0, and a
division by 0 traps (`Traps`, `onblockTraps`): `power(2, n)` is the smallest
`int64_t` for n = 63, which makes the reward 0, and 0 from n = 64 on.

### BlockInfo

`onblockFails` is a block whose `onblock` was aborted: the chain goes on without
it. `slot_of` and `recorded` remember the real blocks to compare the table with.
Only version-0 rows exist in this code, so `unsupported_version` never occurs.

### OnBlock

`OnBlock` extends `Schedule` and instantiates `BlockInfo`, `ProducerPay` and
`NameAuction` over one set of variables: the table of producers is shared by pay and election, the time
of the last election by election and auction, the block's time by pay and block
info (one block per slot, so that the height is the time). `onblockDone` conjoins their
parts behind the early return of a chain without election. `Aborts` collects what
can fail in it: the division of the reward, `set_finalizers` on a policy with a
repeated key, and the transfer of the winning bid. `onblockAborted` is the host
undoing all of it. Between two blocks every action of the four parts may happen.

### LimitAuth

`parents` is the tree of permissions that the host keeps for each account and `auths`
their authorities; `links` is the permission linked to `limitauthchg` itself (other
links change nothing here, and the native actions cannot be linked). The rules of
the host are external: a permission satisfies all below it (`Above`), and an action
needs the linked permission, `active` without a link, any with `flon.any`
(`MaySign`), as `native.hpp` 205–213 describes it. Each native action is the host's
rule and the contract's `check_auth_change`.

### PubkeyToken

Each public key has at most one row, of one symbol. `PaysFee` is the comparison of
two assets, which aborts when their symbols differ.

## 3. Runs

Bounds are in the `.cfg` files. In all runs the bounds on votes, amounts and time
are guards of the actions, so a bounded run stops rather than wraps.

| Run | Checks | Bounds, and why they are enough |
|---|---|---|
| `reward` | `TypeOK TallyInv SolvencyInv PaidUpToInv ConservationInv FixedPointRangeInv ExitInv KeepsPromise StrandedForever` | 2 voters, 2 producers, up to 2 votes each, 3 units of reward, precision 4. Votes up to 4 on a producer do not divide every reward, so both divisions round; the amount limit is reached. `KeepsPromise` is the refinement of `RewardPromise`. |
| `gas` | `SupplyInv GasPaidInv` | 3 accounts, of which one exists at first, 2 tokens, amounts up to 3, gas up to 4: accounts are created before and after `init`, gas is bought for others, set and bought again, and reaches its limit. |
| `voting` | `TallyInv ExitInv RefundableInv RefundOnTime RefundPaid` | 2 voters with up to 2 tokens (staked or waiting), 2 producers, 6 blocks, an election time and a delay of 1 second: odd and even request blocks, a refund by hand before and after the deferred one, deferred ones that are ignored, lost, late or left from an earlier withdrawal, a second withdrawal. |
| `election` | `AgreementInv CustodyInv PayoutInv` | 2 voters with 2 tokens each, 2 producers with 1: shared, kept, removed and added producers, which the two contracts split differently, partial withdrawals and rewards in between, which one of the producers sends to flon.reward. |
| `schedule` | `KeyTablesInv ProposalNeverFails PolicyInv PolicyConverges` | 3 producers for 2 places, 2 keys and 3 key ids: a producer is displaced, a key is deleted and registered by another, a finalizer has two keys. |
| `onblock` | `NoGapInv` | 2 producers for 2 places, 2 keys and 2 key ids, 1 name and 2 bidders of whom one can outbid the other, an election every second block and a close in every election, 7 blocks, two-bit rewards: the election starts, is held twice, a name is sold and refunded, and the reward's divisor reaches 0 within the run, so that `onblockAborted` happens. The first reward is 0: whether the division fails does not depend on it, and amounts are the subject of `producer_pay`. |
| `msig` | `TablesInv HashInv LevelsKept ExecByStanding DelayKept` | 2 levels of 2 accounts, up to 3 requested approvals, of which 2 may be of the same level, 2 transactions under one name, one of them delayed by 1 second, 5 blocks, two authorities (either level or both): approvals, revocations and invalidations in the same block, before and after the delay; approvals with the hash of either transaction or none. |
| `name_auction` | `EscrowInv PaysOnlyForWins HighestWins WinnerKeepsName AuctionsClose` | 2 names, a third one under the first, 2 bidders with 5 tokens, an increment of a third, a day of 2 blocks: bidders outbid each other twice on one name, refunds accumulate, sold names wait in the index. |
| `producer_pay` | `RewardTimesInv IssuanceInv` | 2 producers, periods of 1 second, rewards up to 3, 14 blocks, integers of 5 bits: the reward halves to 0 within the run, the divisor wraps and then becomes 0. |
| `block_info` | `WindowInv BatchInv` | a window of 3, 8 blocks, every pattern of missed blocks, all offsets and batch sizes up to one more than the window. |
| `limit_auth` | `OwnerNotLockedOut ExcludedIsPowerless` | 1 account (accounts do not interact), 2 permissions beside owner and active, 2 authorities: every tree of four permissions, every list, every link. |
| `only_flon` | one documented statement, which fails | see Findings |

Outside `Reward` the type invariant (`TypeOK`, `PayTypeOK`, `InfoTypeOK`, `PermTypeOK`)
is a conjunct of one of the
invariants of the module's run; `Election` and `OnBlock` share their variables with
the modules they compose and have none of their own. That no payment can overflow
its receiver (`ReceiveInv`) is a conjunct of `SupplyInv`, and that the reward halves
as it should (`HalvingInv`) one of `IssuanceInv`.

Symmetry is used only in runs without fairness (the refinement `KeepsPromise` has
none), over sets the specification treats alike.

**Fairness.** `RefundPaid` assumes weak fairness of `Tick`: the chain produces
blocks. Nothing is assumed of deferred transactions. That somebody keeps pushing
`voterefund` for the voter, which anyone may do, is the premise of the property and
not of the specification: without it a refund whose deferred transaction was lost
stays pending.
`PolicyConverges` assumes weak fairness of `onblock`, which the chain runs in
every block; `AuctionsClose` assumes the same of the `onblock` of `NameAuction`, and
says nothing while bids keep coming. These two need no account to act. `MaxTime` ends time in the model; `subvote` has the guard that its
refund can still mature, which is a bound and not in the code.

**Deadlock** is checked in all runs; where a bound ends time the model says so with
an explicit final stutter or leaves some action enabled.

## 4. Proofs

The theorems hold for every value of the constants that satisfies the assumption
of the module: finite sets of any size, any amounts, delays and bounds. Where a run
checks a property with two voters, the theorem says it of all of them.

| Theorem | Says |
|---|---|
| `RewardProofs!TypeCorrect` | `TypeOK`: no amount leaves the asset range, no tally becomes negative |
| `RewardProofs!TallyCorrect`, `Solvent`, `NeverAhead` | `TallyInv`, `SolvencyInv`, `PaidUpToInv` |
| `RewardProofs!Conserves`, `FixedPointInRange` | `ConservationInv`, `FixedPointRangeInv` |
| `RewardProofs!AlwaysExits` | `ExitInv` |
| `RewardProofs!StaysStranded` | the action property `StrandedForever` |
| `RewardProofs!Refinement` | `KeepsPromise`: `Reward` implements `RewardPromise` |
| `VotingProofs!TallyCorrect`, `AlwaysExits`, `RefundNeverRefused` | `TallyInv`, `ExitInv`, `RefundableInv` |
| `VotingProofs!RefundsOnTime` | the action property `RefundOnTime` |
| `ElectionProofs!VotesAgree`, `CustodyCovers`, `PayoutsAccepted` | `AgreementInv`, `CustodyInv`, `PayoutInv` |
| `GasProofs!LedgerCorrect`, `SystemLedgerCorrect` | `SupplyInv`, of flon.token alone and with the sale of gas |
| `GasProofs!GasPaid` | `GasPaidInv` |
| `OnBlockProofs!KeyTablesCorrect`, `ProposalAccepted`, `PolicyCorrect` | `KeyTablesInv`, `ProposalNeverFails`, `PolicyInv` |
| `OnBlockProofs!BlockImplementsParts` | `OnBlock` implements `Schedule`, `NameAuction`, `ProducerPay` and `BlockInfo` |
| `OnBlockProofs!NoBlockMissed` | `NoGapInv` |
| `PartsProofs!EscrowCorrect` | `EscrowInv` |
| `PartsProofs!OnlyWinnersPay`, `HighestBidWins`, `WinnerKeeps` | the action properties `PaysOnlyForWins`, `HighestWins`, `WinnerKeepsName` |
| `PartsProofs!RewardTimesCorrect` | `RewardTimesInv` |
| `PartsProofs!IssuanceBounded` | `IssuanceInv`, if two periods of the largest reward fit an `int64_t` |
| `PartsProofs!WindowCorrect`, `BatchCorrect` | `WindowInv`, `BatchInv` |
| `AuthorityProofs!OwnerNeverLockedOut` | `OwnerNotLockedOut` |
| `AuthorityProofs!ExcludedStaysPowerless` | the action property `ExcludedIsPowerless` |
| `AuthorityProofs!TablesCorrect`, `HashesKept` | `TablesInv`, `HashInv` |
| `AuthorityProofs!NoLevelLost`, `ExecutedByStanding`, `DelayRespected` | the action properties `LevelsKept`, `ExecByStanding`, `DelayKept` |

In each module one inductive invariant is kept by every action, one lemma per
action, and the theorems follow from it.

**Reward.** `Ind == TypeOK /\ PaidUpToInv /\ TallyInv /\ SolvencyInv`. Solvency is
not inductive alone. A settlement keeps it because the amount moved is at most what
was owed (`SettlesAtMost`: the division rounds down) and what was owed is not
negative, which is `PaidUpToInv`. A reward keeps it because the accumulator rises
by at most reward · precision / votes, and the votes that are multiplied with the
rise are the voters' votes only by `TallyInv`. `voteproducer` and `subvote` keep
it because settled producers are then owed nothing. The lemmas of the actions
(`ChangeVoteInd`, `VoteproducerInd`, `ClaimInd`, `TransferKeeps`) rest on lemmas
that say what the loop does to a row (`AllocateRow`, `SettleKeeps`).

`Books` adds `ConservationInv`, that nothing is received before `init` (which
resets the global total) and that the accumulator of a producer is at most
precision · its total rewards; the last is what bounds the products of
`FixedPointRangeInv`. `ExitInv` needs all of it: the checks of the settlement loop
compare what a voter gets with what the producer has left. For the refinement every
step is one of four kinds (a settlement, a claim, a reward, or one that leaves
rewards alone); a settlement moves an amount from what is due to what is credited
(`EarnedIsDue`), so that it is a stutter of `RewardPromise`, and a reward raises what
the voters have earned by no more than itself (`EarnedIsCovered`).

**Voting.** `Ind` has the two tallies, `RowsInv` (whom a voter votes for has a row,
and who has votes has a row: `rmvproducer` and `unregprod` keep both, which is why
a voter can leave a producer that left) and `DueInv` (the delay, counted from the
block of the `subvote`, is over when the refund is mature, or one block later because
`request_time` lost its half second). Nothing in it is about `deferred` but its
type: `RefundNeverRefused` and `RefundsOnTime` hold whatever the host does with the
deferred transaction.

**Election.** Every step of `Election` is a step of `Reward` or leaves its variables
alone (`RewardSteps`), and the same for `Voting` (`VotingSteps`), so that `Books` and
the `Ind` of `Voting` hold in the composition without a second proof; the lemmas
called `Same…` say that a definition means the same in the instance the actions use
and in the one the proofs are about. `Ind` adds what no part has alone. `RowsAgree`
is only about the voters' rows: that the producers' totals agree follows, as both are
the sums of the voters' votes. `Held` says what the custody accounts hold in terms a
settlement does not touch (what was received less what was claimed); `CustodyInv`
follows with `ConservationInv`. `Ledger` has that the tokens are conserved and fit an
asset together, so that no payment can overflow its receiver. `PayoutInv` needs that
all voters together have earned no more than was received (`EarnedIsCovered`): what
one voter can claim is there even after all the others have claimed.
`ElectionAssumption` has that the tokens the users start with fit an asset, which
flon.token guarantees (`SupplyInv`), and that the custody accounts are two accounts
that neither vote nor produce.

**Token and Gas.** `LedgerInd` has that an account without a row has no balance:
`open` and `add_balance` would otherwise bring back what `close` dropped. `GasInd`
adds that no gas is bought for an account that does not exist, nor before `init`.

**Schedule.** `KeyTablesInv` and `PolicyInv` need `OwnersInv`: an entry of the last
proposal whose key is still registered belongs to the finalizer that registered it.
Without it `actfinkey` could put the entry of one finalizer in the place of another.
`ProposalNeverFails` then follows from the index: the active keys of different
finalizers are different. It is about `onblock`, which reads the active keys anew;
`actfinkey` changes the last proposal, whose stale entries are in no table, and its
proposal can be refused (see Findings).

**NameAuction.** `Ind == Shape /\ Held /\ Conserved /\ SuffixInv`: `flon.names` holds
exactly what is on bids (`Held`, from which no refund can fail), the tokens are
conserved (`Conserved`, which bounds every amount), and only the system account
created names under a name that is no account. `HighestWins` is about unsigned
arithmetic: with bids below a quarter of the range of the key, the negated open bids
are above `max / 2` and the sold ones below. Two assumptions serve this:
`NameAuctionAssumption` has that all tokens together fit an asset, which flon.token
guarantees, and `PowersAssumption` states the two facts on powers of two that the
provers do not know.

**Msig.** `Ind` has that a proposal that does not exist has left nothing (`RowsInv`),
that a level has no more places in the two lists than it was given (`PlacesInv`), that
approvals are not from the future (`TimesInv`, so that an invalidation in the same
block counts), and `ClockInv`, which ties the earliest execution time to the time
since which the proposal is authorized. `ExecutedByStanding` rests on `CountInv` (a
level is in the list as often as it has approved without revoking) and `ValidInv` (an
approval that counts was given after the last invalidation), for any number of
requests of a level.

**ProducerPay.** `TimesInd` has `RewardTimesInv` and the ranges of the times; a start
that has come cannot be moved any more (`cfgelection`), so that `cur_period` only
grows. That the total is bounded by two periods' worth of the largest reward b is not
inductive: it does not say that the next block still has room below it. `PayInd` has a ceiling that is (`Below`): in block *off* of
period c, 2^c · total is at most 2^c · 2 · Period · b less what the rest of the period
and all later ones could still add. A block adds at most b / 2^c to the total, which
2^c times is at most b (`BelowAdd`), and the end of a period doubles both sides
(`BelowDouble`).
`IssuanceBounded` has the hypothesis that 4 · `HalvingPeriodSeconds` · r is at most
2^(`Width` − 1) − 1 for every reward r that is configured: 5-year periods allow first
rewards up to about 1.4 · 10^10 units. `cfgelection` does not check it (see Findings);
the run uses rewards within it. `HalvingsAssumption` states the facts on powers of two
that the provers do not know, for as many powers as the model computes. What the
recursive `power` returns (`PowerValue`) is proved for every argument by induction
stated as a fact about sets of numbers (`NatSetInduction` of `SumTheorems`), which needs
no operator as a parameter.

**BlockInfo.** `InfoInd` has that the table holds only recorded blocks with their own
times, at most a window of them, and every recorded one of the last window before the
newest. The bound holds because a table that is one row too long after a new block
always has a row old enough to be erased (`OldestErased`). `BatchInv` then
compares the range that the query cuts with the recorded blocks of the batch.

**OnBlock.** Each step of `OnBlock` is a step of each part, or leaves it alone
(`ScheduleStep`, `AuctionStep`, `RewardStep`, `RecordsStep`), so that the inductive
invariants of the parts hold in the whole (`PartsInd`). With them only the division can
abort an `onblock` (`OnlyTraps`): the proposal is accepted by `KeyTablesInv` and the fee
is covered by `Held` (`FeePaid`). The division fails only after `Width` periods
(`TrapsLate`), and a block that was missed then stays excused because the start of the
rewards cannot move. That the aborted `onblock` is a step of `ProducerPay` at all needs
`OnlyTraps`, hence the invariant in the refinement `BlockImplementsParts`.

**LimitAuth.** `PermInd` says that the permissions of an account are a tree below
`owner`, as an order in which every permission comes after its parent (`TreeInv`):
`updateauth` puts a new one last, `deleteauth` takes a leaf away. By induction along
this order `owner` is above every permission (`OwnerAbove`). The lists
of a restriction stay as `limitauthchg` checked them (`ValidLists`), whatever is deleted
and created afterwards. `ExcludedIsPowerless` goes through the actions: each
needs either the check of `check_auth_change` or the signature on `limitauthchg`.

`SumTheorems` proves what is needed of `SumFunctionOnSet`, from the definition of
the community module's fold: it is a natural number for natural summands, changes
by the difference when one summand changes, is monotone and linear, and two sums
may change places. It also has that a set of numbers that is not empty has a least
member (`LeastExists`) and induction as a fact about sets (`NatSetInduction`).

Every invariant and every action property of the passing runs is proved. Only
model-checked are the three liveness properties (`RefundPaid`, `PolicyConverges`,
`AuctionsClose`), because fairness is out of the prover's reach.

## 5. Findings

* **only_flon** — the check with the message "Only FLON tokens are supported" in
  pubkey.token is inverted: FLON is refused, every other token of flon.token is
  taken and can never be paid out, because the fee is in FLON.

Further observations, which no run of its own reports:

* A voter without votes may list an inactive producer: `update_producer_votes` asks
  for activity only when the change of votes is positive (`voting.cpp` 265), while
  the documentation of `voteproducer` says that producers "must be registered and
  active" (`flon.system.hpp` 691). Its next `addvote` then fails until it changes
  its list.
* `actfinkey` of an elected producer does not reach the policy when the policy still
  holds a key that the finalizer has deleted: the entry is looked up by the id of
  the key that was active (`finalizer_key.cpp` 279), while the documentation says
  "immediately change Finalizer Policy" (`flon.system.hpp` 653–654). The next
  election repairs it (`PolicyConverges`).
* 64 halvings after the start of the rewards (320 years) `power(2, cur_period)` is
  0, and every `onblock` of a registered producer traps, for good: no election, no
  auction and no block record any more. `NoGapInv` and `IssuanceInv` say that this
  is the only way to miss a block, and that it does not happen earlier.
* `cfgelection` takes any first reward that is not negative, and the sums of `onblock`
  are not checked: a reward above about 1.4 · 10^10 units, twice whose period does not
  fit an `int64_t`, is outside what `IssuanceBounded` covers.
* A permission that `limitauthchg` excludes can still send `limitauthchg` itself, if
  the host accepts it there, and erase the restriction: `active` can, as long as
  `limitauthchg` is not linked to a permission that `active` does not satisfy.
  `ExcludedIsPowerless` has this as its premise.
* `init` checks `is_account(token_account)` with the message "gas account does not
  exist" (`flon.system.cpp` 344). It does no harm: `open` refuses a gas account that
  does not exist, and aborts `init`.
* Accounts created before `init` keep the limits of the host; `newaccount` returns
  early and neither limits them nor records their creator.
* Rewards that arrive while a producer has no votes, and rounding remainders, stay
  in flon.reward for ever (`StrandedForever`).
* `flon.system.hpp` documents that a voter can update its votes once a day; the
  checks are commented out (`voting.cpp` 212 and 333), so `last_unvoted_time` is
  written and never read. The model leaves it out.
* The header of flon.msig lists "all requested approvals are received" as a
  precondition of `exec`; the code executes as soon as those provided authorize the
  transaction, which is what `ExecByStanding` states.
* An invalidation or a change of authority does not reset the delay of a msig
  proposal, so one that is authorized again later may be executed at once
  (`DelayKept` says exactly this).
* `propose` does not refuse a list with a level twice. The level can then approve
  twice, and one `unapprove` leaves the second approval in force, so that the
  transaction may be executed after it; only a second `unapprove` takes the level
  out. `ExecByStanding` counts accordingly: a level stands by a proposal until it has
  revoked as often as it has approved.
* The documentation of `subvote` says that the stake comes back "via a deferred
  `voterefund` transaction with a delay of 3 days" (`flon.system.hpp` 751–752). The
  contract has no guarantee that the host runs it, the tests do not rely on it (see
  Voting), and a pending refund blocks every further `subvote`. Somebody has to push
  `voterefund` then, and `RefundableInv` and `RefundPaid` say that this works.
* The policy that `actfinkey` proposes can be refused by the host. If p1 deletes a key
  that is still in the last proposal, and p2, who is in it too, registers and activates
  that key, the changed proposal has it twice (`finalizer_key.cpp` 279–286) and
  `actfinkey` aborts. It can be tried again after the next election has replaced the
  stale entry.
* If the system account creates a name that is under auction, its high bidder can
  no longer be outbid and in the end pays for a name it cannot create.
* The default build leaves the voting actions out.

## 6. Not modelled, and the plan

Not modelled because there is nothing to check: `flon.wrap`, `flon.bios` and
`flon.boot`, and of flon.system `setparams`, `wasmcfg`, `setpriv`, `activate`,
`setabi`, `setcode`, `setibintervl`, `canceldelay` and `onerror`. They pass their
arguments to a host function, or overwrite one row that no code here reads. The
helpers of pubkey.token (`safe.hpp`, `utils.hpp`: safe arithmetic, parsing and
printing of strings) are included but not called by the contract.

Partly modelled: pubkey.token. While its deposits are refused there is nothing it
can pay out, so no property of its custody is worth a run.

What is left: `Voting` with `Schedule`, so that the votes that elect are the votes that
are staked (`Schedule` lets them move freely, which contains that), and
multi-signature with two proposals of different proposers.
