------------------------------- MODULE OnBlock ------------------------------
(***************************************************************************)
(* The whole of onblock, composed of the parts the other modules model: it *)
(* records the block (BlockInfo) and, once the election is active, pays    *)
(* the producer (ProducerPay), holds the election when one is due          *)
(* (Schedule) and closes an auction (NameAuction).  The host runs it as    *)
(* one transaction in every block: when a part fails, the others are       *)
(* undone too and the block goes on without it.  All other actions of the  *)
(* system contract come between the blocks.                                *)
(*                                                                         *)
(* Every slot has a block, so that the height is the time; ProducerPay and *)
(* Schedule see the same table of producers, Schedule and NameAuction the  *)
(* same time of the last election.                                         *)
(***************************************************************************)
EXTENDS Schedule

CONSTANTS
    Names, Bidders, InitialBalance, IncrementDivisor, BlocksPerDay,
    BidWidth,              \* the bits of a key of the highbid index
    Width,                 \* the bits of an int64_t reward
    HalvingPeriodSeconds, Rewards, MaxTime,
    RollingWindowSize,
    StartTimes             \* bound: the times cfgelection is called with

VARIABLES
    now, election_activated_time, reward_started_time,
    initial_rewards_per_block, total_produced_rewards,
    total_unclaimed_rewards, unclaimed_rewards,
    bids, refunds, accounts, creator_of, balance, escrow, fees, since_close,
    table, recorded

rewardvars == <<now, election_activated_time, reward_started_time,
    initial_rewards_per_block, total_produced_rewards,
    total_unclaimed_rewards, unclaimed_rewards>>
auctionvars == <<bids, refunds, accounts, creator_of, balance, escrow, fees,
    since_close>>
recordvars == <<table, recorded>>
blockvars == <<vars, rewardvars, auctionvars, recordvars>>

registered == {p \in Producers : producers[p].exists}

Pay == INSTANCE ProducerPay

(* NameAuction counts the age at the next onblock.                         *)
Auction == INSTANCE NameAuction WITH
    Others <- {}, Suffix <- [n \in {} |-> n], since_update <- since_update + 1

Blocks == INSTANCE BlockInfo WITH
    MaxHeight <- MaxTime, height <- now - 1, slot_of <- [h \in 0..(now - 1) |-> h]

(* The assumptions of the parts.                                           *)
ASSUME OnBlockAssumption ==
    /\ Pay!ProducerPayAssumption /\ Pay!HalvingsAssumption
    /\ Auction!NameAuctionAssumption /\ Auction!PowersAssumption
    /\ Blocks!BlockInfoAssumption
    /\ StartTimes \subseteq 1..MaxTime

BlockInit ==
    /\ Init /\ Pay!PayInit /\ Auction!Init
    /\ table = [h \in {} |-> 0]
    /\ recorded = {}

-----------------------------------------------------------------------------
(* A part of onblock fails: the division in the reward, set_finalizers or  *)
(* the transfer of the winning bid.                                        *)
Aborts(p) ==
    /\ Pay!ElectionActive
    /\ Pay!Traps(p) \/ ProposalRefused \/ Auction!FeeRefused

(* onblock of a block of producer p; accepted is the answer of the host    *)
(* to a new schedule.                                                      *)
onblockDone(p, accepted) ==
    /\ ~Aborts(p)
    /\ IF Pay!ElectionActive
       THEN onblock(accepted) /\ Auction!onblock
       ELSE BlockPasses /\ Auction!BlockPasses
    /\ Pay!onblockPays(p)
    /\ Blocks!onblockRecords(now)

(* The host undoes an onblock that fails.                                  *)
onblockAborted(p) ==
    /\ Aborts(p)
    /\ BlockPasses /\ Auction!BlockPasses
    /\ Pay!Missed
    /\ Blocks!onblockFails(now)

(* The actions of producers and of the system account.                     *)
ElectionAction ==
    /\ \/ \E p \in Producers : RegisterOrLeave(p)
       \/ \E p \in Producers, n \in 0..MaxVotes : MoveVotes(p, n)
       \/ switchtosvnn
       \/ \E p \in Producers, k \in Keys : regfinkey(p, k)
       \/ \E p \in Producers, k \in Keys : actfinkey(p, k)
       \/ \E p \in Producers, k \in Keys : delfinkey(p, k)
    /\ UNCHANGED <<rewardvars, auctionvars, recordvars>>

PayAction ==
    /\ UNCHANGED <<vars, auctionvars, recordvars>>
    /\ \E e, r \in StartTimes, a \in Rewards : Pay!cfgelection(e, r, a)

(* The actions of bidders.                                                 *)
AuctionAction ==
    /\ UNCHANGED <<vars, rewardvars, recordvars>>
    /\ \/ \E b \in Bidders, n \in Names, x \in 1..Auction!MAX_AMOUNT :
             Auction!bidname(b, n, x)
       \/ \E b \in Bidders, n \in Names : Auction!bidrefund(b, n)
       \/ \E c \in Bidders \cup {Auction!System}, n \in Names :
             Auction!newaccount(c, n)

BlockNext ==
    \/ \E p \in Producers, accepted \in BOOLEAN : onblockDone(p, accepted)
    \/ \E p \in Producers : onblockAborted(p)
    \/ ElectionAction
    \/ PayAction
    \/ AuctionAction

BlockSpec == BlockInit /\ [][BlockNext]_blockvars

-----------------------------------------------------------------------------
(* Properties.                                                             *)

(* No block is missed, whatever producers, finalizers and bidders do       *)
(* between the blocks: no part of onblock ever fails and takes the others  *)
(* with it, until the rewards have halved as often as an int64_t has bits. *)
(* The records then start to have gaps, and only blocks of that time are   *)
(* missing.                                                                *)
NoGapInv ==
    \A h \in 1..(now - 1) :
        \/ h \in recorded
        \/ /\ reward_started_time # 0
           /\ h - reward_started_time >= 2 * HalvingPeriodSeconds * Width
=============================================================================
