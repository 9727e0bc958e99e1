---------------------------- MODULE NameAuction -----------------------------
(***************************************************************************)
(* The auction of premium account names in flon.system (built with         *)
(* ENABLE_NAME_BID): bidname, bidrefund, the close of the highest auction  *)
(* in onblock and newaccount, which hands the name to the winner.  Bids    *)
(* are kept in the token account flon.names until they are refunded or     *)
(* become fees.                                                            *)
(*                                                                         *)
(* A time is kept as its age at the next onblock, in blocks, cut at one    *)
(* more than the day it is compared with, so that behaviours are infinite  *)
(* and states are not.                                                     *)
(* Names stand for the names that can be bid for: top-level suffixes       *)
(* shorter than 12 characters.  Others are names with a suffix, which may  *)
(* be one of Names, and names of 12 characters, their own suffix.          *)
(***************************************************************************)
EXTENDS Integers, FiniteSets, Functions

CONSTANTS
    Names,             \* names that can be bid for
    Others,            \* names that cannot
    Suffix,            \* name::suffix of the others
    Bidders,           \* accounts
    InitialBalance,    \* the tokens each bidder starts with
    BidWidth,             \* 64, the bits of a key of the highbid index
    IncrementDivisor,  \* 10: a bid must exceed the last one by a tenth
    BlocksPerDay,      \* blocks_per_day
    UpdateInterval     \* 120, blocks between two elections

ASSUME NameAuctionAssumption ==
    /\ IsFiniteSet(Names) /\ IsFiniteSet(Bidders) /\ Bidders # {}
    /\ Names \cap Others = {}
    /\ Names \cap Bidders = {}    \* bidders are accounts already
    /\ \A n \in Others : Suffix[n] \in Names \cup {n}
    /\ BidWidth \in Nat /\ BidWidth > 1
    /\ InitialBalance \in [Bidders -> Nat]
    /\ SumFunctionOnSet(InitialBalance, Bidders) <= 2^(BidWidth - 2) - 1
                                  \* the supply of a token fits an asset
    /\ IncrementDivisor \in Nat \ {0}
    /\ BlocksPerDay \in Nat /\ UpdateInterval \in Nat

(* What proofs use of powers of two, which the provers know nothing about. *)
ASSUME PowersAssumption ==
    2^(BidWidth - 2) \in Nat \ {0} /\ 2^BidWidth = 4 * 2^(BidWidth - 2)

VARIABLES
    bids,          \* the rows of name_bid_table
    refunds,       \* bid_refund_table of each name: the amount by bidder, 0: no row
    accounts,      \* names that are accounts
    creator_of,    \* the creators table, for these names
    balance,       \* flon.token: the tokens of the bidders
    escrow,        \* flon.token: the tokens of flon.names
    fees,          \* flon.token: the tokens of the fees account
    since_close,   \* age of last_name_close
    since_update   \* age of last_producer_schedule_update

vars == <<bids, refunds, accounts, creator_of, balance, escrow, fees,
          since_close, since_update>>

MAX_AMOUNT == 2^(BidWidth - 2) - 1

Ages == 0..(BlocksPerDay + 1)

System == "flon"    \* the account of the system contract

(* A negative high_bid is a closed auction waiting to be claimed; 0 stands *)
(* for a name without a row.  age is the age of last_bid_time.             *)
NameBid == [ high_bidder : Bidders, high_bid : -MAX_AMOUNT..MAX_AMOUNT, age : Ages ]

HasRow(n) == bids[n].high_bid # 0

IsOpen(n) == bids[n].high_bid > 0

(* last_name_close and last_producer_schedule_update start at slot 0, long *)
(* before the first block.                                                 *)
Init ==
    /\ bids \in [Names -> {[ high_bidder |-> CHOOSE b \in Bidders : TRUE,
                             high_bid |-> 0, age |-> 0 ]}]
    /\ refunds = [n \in Names |-> [b \in Bidders |-> 0]]
    /\ accounts = {}
    /\ creator_of = [n \in {} |-> System]
    /\ balance = InitialBalance
    /\ escrow = 0
    /\ fees = 0
    /\ since_close = BlocksPerDay + 1
    /\ since_update = UpdateInterval + 1

-----------------------------------------------------------------------------
(* The checks of a bid on a name that already has one.                     *)
BidAccepted(n, bidder, amount) ==
    HasRow(n) =>
        /\ bids[n].high_bid > 0
        /\ amount - bids[n].high_bid > bids[n].high_bid \div IncrementDivisor
        /\ bids[n].high_bidder # bidder

(* Mutant: a second refund replaces the first.                             *)
RefundAfterBid_Replace(n) ==
    IF IsOpen(n) THEN [refunds EXCEPT ![n][bids[n].high_bidder] = bids[n].high_bid]
                 ELSE refunds

(* The bidder that is outbid gets its bid back, added to an older refund.  *)
RefundAfterBid(n) ==
    IF HasRow(n)
    THEN [refunds EXCEPT ![n][bids[n].high_bidder] = @ + bids[n].high_bid]
    ELSE refunds

bidname(bidder, n, amount) ==
    /\ n \notin accounts
    /\ amount > 0
    /\ BidAccepted(n, bidder, amount)
    /\ balance[bidder] >= amount
    /\ refunds' = RefundAfterBid(n)
    /\ bids' = [bids EXCEPT ![n] =
          [ high_bidder |-> bidder, high_bid |-> amount, age |-> 1 ]]
    /\ balance' = [balance EXCEPT ![bidder] = @ - amount]
    /\ escrow' = escrow + amount
    /\ UNCHANGED <<accounts, creator_of, fees, since_close, since_update>>

(* Mutant: the refund row is not erased.                                   *)
bidrefund_Again(bidder, n) ==
    /\ refunds[n][bidder] > 0
    /\ escrow >= refunds[n][bidder]
    /\ balance' = [balance EXCEPT ![bidder] = @ + refunds[n][bidder]]
    /\ escrow' = escrow - refunds[n][bidder]
    /\ UNCHANGED <<bids, refunds, accounts, creator_of, fees, since_close, since_update>>

(* Anyone may push it.                                                     *)
bidrefund(bidder, n) ==
    /\ refunds[n][bidder] > 0
    /\ escrow >= refunds[n][bidder]
    /\ balance' = [balance EXCEPT ![bidder] = @ + refunds[n][bidder]]
    /\ escrow' = escrow - refunds[n][bidder]
    /\ refunds' = [refunds EXCEPT ![n][bidder] = 0]
    /\ UNCHANGED <<bids, accounts, creator_of, fees, since_close, since_update>>

-----------------------------------------------------------------------------
(* Mutant: the index is ordered by the bid itself.                         *)
by_high_bid_Plain(n) == bids[n].high_bid % 2^BidWidth

(* The key of the highbid index, an unsigned number.                       *)
by_high_bid(n) == (-bids[n].high_bid) % 2^BidWidth

(* Mutant: the search starts at the other end of the index.                *)
Highest_Last ==
    LET found == {n \in Names : HasRow(n) /\ by_high_bid(n) >= (2^BidWidth - 1) \div 2}
    IN  {n \in found : \A m \in found : by_high_bid(n) >= by_high_bid(m)}

(* lower_bound(max / 2) skips the closed auctions and finds the smallest   *)
(* key of the others; equal keys are in some fixed order.                  *)
Highest ==
    LET found == {n \in Names : HasRow(n) /\ by_high_bid(n) >= (2^BidWidth - 1) \div 2}
    IN  {n \in found : \A m \in found : by_high_bid(n) <= by_high_bid(m)}

(* More than a day ago.                                                    *)
DayOld(age) == age > BlocksPerDay

(* The bid becomes a fee and the auction is closed.                        *)
Close(n) ==
    /\ DayOld(since_close)
    /\ n \in Highest
    /\ bids[n].high_bid > 0
    /\ DayOld(bids[n].age)

Older(age) == IF age > BlocksPerDay THEN age ELSE age + 1

Aged(rows) ==
    [n \in Names |-> [rows[n] EXCEPT
        !.age = IF rows[n].high_bid = 0 THEN 0 ELSE Older(@)]]

(* More than UpdateInterval blocks after the last election.                *)
UpdateDue == since_update > UpdateInterval

(* onblock once the election is active; the election itself is Schedule's. *)
(* A transfer that flon.token refused would abort onblock.                 *)
onblock ==
    /\ since_update' = IF UpdateDue THEN 1 ELSE since_update + 1
    /\ IF UpdateDue /\ \E n \in Names : Close(n)
       THEN \E n \in {m \in Names : Close(m)} :
              /\ escrow >= bids[n].high_bid
              /\ bids' = Aged([bids EXCEPT ![n].high_bid = -@])
              /\ escrow' = escrow - bids[n].high_bid
              /\ fees' = fees + bids[n].high_bid
              /\ since_close' = 1
       ELSE /\ bids' = Aged(bids)
            /\ since_close' = Older(since_close)
            /\ UNCHANGED <<escrow, fees>>
    /\ UNCHANGED <<refunds, accounts, creator_of, balance>>

(* A block whose onblock returns early, before the election is active, or  *)
(* is aborted: no auction is closed, and all grow older.                   *)
BlockPasses ==
    /\ since_update' = IF UpdateDue THEN since_update ELSE since_update + 1
    /\ bids' = Aged(bids)
    /\ since_close' = Older(since_close)
    /\ UNCHANGED <<refunds, accounts, creator_of, balance, escrow, fees>>

(* flon.names cannot pay the fee, and onblock is aborted.                  *)
FeeRefused == UpdateDue /\ \E n \in Names : Close(n) /\ escrow < bids[n].high_bid

-----------------------------------------------------------------------------
(* Mutant: anyone may claim the name.                                      *)
MayCreate_Anyone(creator, n) ==
    creator # System /\ n \in Names => bids[n].high_bid < 0

(* The checks of newaccount: the system account may create any name, a     *)
(* premium name is its winner's, a name with a suffix the suffix's, and a  *)
(* name of 12 characters anyone's.                                         *)
MayCreate(creator, n) ==
    creator # System =>
        /\ n \in Names => /\ HasRow(n)
                          /\ bids[n].high_bidder = creator
                          /\ bids[n].high_bid < 0
        /\ n \in Others => Suffix[n] \in {n, creator}

(* The row of the auction goes only when the winner creates the account.   *)
newaccount(creator, n) ==
    /\ creator \in Bidders \cup accounts \cup {System}
    /\ n \notin accounts
    /\ MayCreate(creator, n)
    /\ bids' = IF creator = System \/ n \in Others THEN bids
               ELSE [bids EXCEPT ![n].high_bid = 0, ![n].age = 0]
    /\ accounts' = accounts \cup {n}
    /\ creator_of' = [m \in DOMAIN creator_of \cup {n} |->
          IF m = n THEN creator ELSE creator_of[m]]
    /\ UNCHANGED <<refunds, balance, escrow, fees, since_close, since_update>>

Next ==
    \/ \E b \in Bidders, n \in Names, x \in 1..MAX_AMOUNT : bidname(b, n, x)
    \/ \E b \in Bidders, n \in Names : bidrefund(b, n)
    \/ \E c \in Bidders \cup Names \cup Others \cup {System},
          n \in Names \cup Others : newaccount(c, n)
    \/ onblock
    \/ BlockPasses

Spec == Init /\ [][Next]_vars

(* The chain runs onblock in every block.                                  *)
FairSpec == Spec /\ WF_vars(onblock)

-----------------------------------------------------------------------------
(* Properties.                                                             *)

TypeOK ==
    /\ bids \in [Names -> NameBid]
    /\ refunds \in [Names -> [Bidders -> 0..MAX_AMOUNT]]
    /\ accounts \subseteq Names \cup Others
    /\ DOMAIN creator_of = accounts
    /\ balance \in [Bidders -> 0..MAX_AMOUNT]
    /\ {escrow, fees} \subseteq 0..MAX_AMOUNT
    /\ since_close \in Ages
    /\ since_update \in 0..(UpdateInterval + 1)

(* What b has on the names: its open bids and its refunds.                 *)
OnBids(b) ==
    SumFunctionOnSet(
        [n \in Names |-> refunds[n][b]
            + (IF IsOpen(n) /\ bids[n].high_bidder = b THEN bids[n].high_bid ELSE 0)],
        Names)

(* No amount leaves its range, and flon.names holds exactly the open bids  *)
(* and the refunds: every refund can be paid, and onblock can always turn  *)
(* the highest bid into a fee.                                             *)
EscrowInv ==
    /\ TypeOK
    /\ escrow = SumFunctionOnSet([b \in Bidders |-> OnBids(b)], Bidders)

(* A bidder only ever pays for a name it wins: being outbid any number of  *)
(* times, on any names, costs nothing, and the price is the bid itself.    *)
PaysOnlyForWins ==
    [][\A b \in Bidders :
          \/ (balance[b] + OnBids(b))' = balance[b] + OnBids(b)
          \/ \E n \in Names :
                /\ bids[n].high_bidder = b
                /\ IsOpen(n) /\ bids'[n].high_bid = -bids[n].high_bid
                /\ (balance[b] + OnBids(b))' = balance[b] + OnBids(b) - bids[n].high_bid]_vars

(* An auction that closes is the one with the highest bid, although closed *)
(* auctions stay in the index until they are claimed.                      *)
HighestWins ==
    [][\A n \in Names : IsOpen(n) /\ bids'[n].high_bid < 0 =>
          \A m \in Names : bids[m].high_bid <= bids[n].high_bid]_vars

(* A name that was won stays with its winner until the winner creates the  *)
(* account; no one else but the system gets it, or a name under it before. *)
WinnerKeepsName ==
    [][\A n \in Names : bids[n].high_bid < 0 =>
          /\ \/ bids'[n].high_bid = bids[n].high_bid
                /\ bids'[n].high_bidder = bids[n].high_bidder
             \/ n \in accounts' /\ creator_of'[n] = bids[n].high_bidder
          /\ n \notin accounts =>
                \A m \in accounts' \cap Others :
                    Suffix[m] = n => creator_of'[m] = System]_vars

(* If bidding ends, every auction is closed some day: the highest bid      *)
(* never blocks the others for good.                                       *)
AuctionsClose ==
    <>[][\A b \in Bidders : balance'[b] >= balance[b]]_vars
      => \A n \in Names : []<>~IsOpen(n)
=============================================================================
