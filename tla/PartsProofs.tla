---------------------------- MODULE PartsProofs -----------------------------
(***************************************************************************)
(* Theorems about the parts of onblock that share no state: NameAuction    *)
(* (flon.names holds exactly what it owes, a bidder pays only for names it *)
(* wins, the highest bid wins, and a name that was won is kept for its     *)
(* winner), ProducerPay (what is produced stays within two periods of the  *)
(* first reward and no sum wraps) and BlockInfo (the window of records and *)
(* the batches cut from it).  OnBlockProofs puts them together.            *)
(***************************************************************************)
EXTENDS NameAuction, ProducerPay, BlockInfo, SumTheorems

-----------------------------------------------------------------------------
(* NameAuction.                                                            *)

(* What n contributes to what b has on the names.                          *)
Entry(n, b) ==
    refunds[n][b]
      + (IF IsOpen(n) /\ bids[n].high_bidder = b THEN bids[n].high_bid ELSE 0)

EntriesOf(b) == [n \in Names |-> Entry(n, b)]

OnBidsOf == [b \in Bidders |-> OnBids(b)]

(* The type invariant without the upper bounds, which follow from the      *)
(* conservation of tokens.                                                 *)
Shape ==
    /\ bids \in [Names -> NameBid]
    /\ refunds \in [Names -> [Bidders -> Nat]]
    /\ accounts \subseteq Names \cup Others
    /\ DOMAIN creator_of = accounts
    /\ balance \in [Bidders -> Nat]
    /\ escrow \in Nat /\ fees \in Nat
    /\ since_close \in Ages
    /\ since_update \in 0..(UpdateInterval + 1)

(* Tokens move between the bidders, flon.names and the fees.               *)
Conserved ==
    SumFunctionOnSet(balance, Bidders) + escrow + fees
      = SumFunctionOnSet(InitialBalance, Bidders)

Held == escrow = SumFunctionOnSet(OnBidsOf, Bidders)

(* Only the system account has created names under a name that is still    *)
(* no account.                                                             *)
SuffixInv ==
    \A m \in accounts \cap Others :
        Suffix[m] \in Names \ accounts => creator_of[m] = System

Ind == Shape /\ Held /\ Conserved /\ SuffixInv

LEMMA FiniteSets ==
    IsFiniteSet(Names) /\ IsFiniteSet(Bidders)
BY NameAuctionAssumption

LEMMA MaxNat ==
    /\ MAX_AMOUNT \in Nat /\ MAX_AMOUNT = 2^(BidWidth - 2) - 1
    /\ 2^BidWidth \in Nat /\ 2^BidWidth = 4 * MAX_AMOUNT + 4
<1> DEFINE P == 2^(BidWidth - 2)
<1>1. P \in Nat /\ P # 0 /\ 2^BidWidth = 4 * P /\ MAX_AMOUNT = P - 1
  BY PowersAssumption DEF MAX_AMOUNT
<1> HIDE DEF P
<1>2. MAX_AMOUNT \in Nat /\ 4 * P \in Nat /\ 4 * P = 4 * MAX_AMOUNT + 4
  BY <1>1
<1> QED BY <1>1, <1>2 DEF P

LEMMA BidFields ==
    ASSUME Shape, NEW n \in Names
    PROVE  /\ bids[n].high_bidder \in Bidders
           /\ bids[n].high_bid \in Int
           /\ bids[n].high_bid <= MAX_AMOUNT
           /\ -MAX_AMOUNT <= bids[n].high_bid
           /\ bids[n].age \in Ages
<1>1. bids[n] \in NameBid
  BY DEF Shape
<1> QED BY <1>1, MaxNat DEF NameBid

LEMMA EntryNat ==
    ASSUME Shape, NEW n \in Names, NEW b \in Bidders
    PROVE  Entry(n, b) \in Nat /\ refunds[n][b] \in Nat
<1>1. refunds[n][b] \in Nat
  BY DEF Shape
<1>2. IsOpen(n) => bids[n].high_bid \in Nat
  BY BidFields DEF IsOpen
<1> QED BY <1>1, <1>2 DEF Entry

(* OnBids is the sum of the entries.                                       *)
LEMMA OnBidsSum ==
    ASSUME NEW b \in Bidders
    PROVE  OnBids(b) = SumFunctionOnSet(EntriesOf(b), Names)
BY DEF OnBids, EntriesOf, Entry

LEMMA OnBidsSumNext ==
    \A b \in Bidders : OnBids(b)' = SumFunctionOnSet(EntriesOf(b)', Names)
BY DEF OnBids, EntriesOf, Entry

LEMMA OnBidsNat ==
    ASSUME Shape, NEW b \in Bidders
    PROVE  /\ OnBids(b) \in Nat
           /\ \A n \in Names : Entry(n, b) <= OnBids(b)
<1> DEFINE f == EntriesOf(b)
<1>1. \A n \in Names : f[n] \in Nat /\ f[n] = Entry(n, b)
  BY EntryNat DEF EntriesOf
<1>2. OnBids(b) = SumFunctionOnSet(f, Names)
  BY OnBidsSum
<1>3. Names \in SUBSET Names
  OBVIOUS
<1> HIDE DEF f
<1>4. SumFunctionOnSet(f, Names) \in Nat
  BY <1>1, <1>3, SumNat, FiniteSets
<1>5. \A n \in Names : f[n] <= SumFunctionOnSet(f, Names)
  BY <1>1, SumBound, FiniteSets
<1> QED BY <1>1, <1>2, <1>4, <1>5

(* A step that changes one entry, of name n and bidder w, by d.            *)
LEMMA OneEntry ==
    ASSUME Shape, NEW n \in Names, NEW w \in Bidders, NEW d \in Int,
           \A m \in Names, b \in Bidders :
              ~(m = n /\ b = w) => Entry(m, b)' = Entry(m, b),
           Entry(n, w)' = Entry(n, w) + d
    PROVE  /\ \A b \in Bidders \ {w} : OnBids(b)' = OnBids(b)
           /\ OnBids(w)' = OnBids(w) + d
           /\ SumFunctionOnSet(OnBidsOf', Bidders)
                = SumFunctionOnSet(OnBidsOf, Bidders) + d
<1>1. ASSUME NEW b \in Bidders \ {w} PROVE OnBids(b)' = OnBids(b)
  <2>1. EntriesOf(b)' = EntriesOf(b)
    BY <1>1 DEF EntriesOf
  <2> QED BY <2>1, OnBidsSum, OnBidsSumNext
<1>2. OnBids(w)' = OnBids(w) + d
  <2> DEFINE f == EntriesOf(w)
             h == EntriesOf(w)'
  <2>1. IntOn(f, Names)
    BY EntryNat DEF EntriesOf, IntOn
  <2>2. f[n] = Entry(n, w) /\ h[n] = Entry(n, w) + d
    BY DEF EntriesOf
  <2>3. DiffersAt(f, h, Names, n)
    BY DEF EntriesOf, DiffersAt
  <2>4. Entry(n, w) \in Int
    BY EntryNat
  <2>5. OnBids(w) = SumFunctionOnSet(f, Names) /\ OnBids(w)' = SumFunctionOnSet(h, Names)
    BY OnBidsSum, OnBidsSumNext
  <2> HIDE DEF f, h
  <2>6. h[n] \in Int
    BY <2>2, <2>4
  <2>7. IsFiniteSet(Names)
    BY FiniteSets
  <2>8. /\ SumFunctionOnSet(h, Names) = SumFunctionOnSet(f, Names) - f[n] + h[n]
        /\ SumFunctionOnSet(f, Names) \in Int
    BY ONLY <2>1, <2>3, <2>6, <2>7, n \in Names, SumChange
  <2> QED BY <2>2, <2>4, <2>5, <2>8
<1>3. SumFunctionOnSet(OnBidsOf', Bidders) = SumFunctionOnSet(OnBidsOf, Bidders) + d
  <2> DEFINE f == OnBidsOf
             h == OnBidsOf'
  <2>1. IntOn(f, Bidders)
    BY OnBidsNat DEF OnBidsOf, IntOn
  <2>2. f[w] = OnBids(w) /\ h[w] = OnBids(w) + d
    BY <1>2 DEF OnBidsOf
  <2>3. \A b \in Bidders \ {w} : h[b] = f[b]
    BY <1>1 DEF OnBidsOf
  <2>4. OnBids(w) \in Int
    BY OnBidsNat
  <2> HIDE DEF f, h
  <2>5. h[w] \in Int
    BY <2>2, <2>4
  <2>8. IsFiniteSet(Bidders)
    BY FiniteSets
  <2>9. DiffersAt(f, h, Bidders, w)
    BY <2>3 DEF DiffersAt
  <2>6. /\ SumFunctionOnSet(h, Bidders) = SumFunctionOnSet(f, Bidders) - f[w] + h[w]
        /\ SumFunctionOnSet(f, Bidders) \in Int
    BY ONLY <2>1, <2>9, <2>5, <2>8, w \in Bidders, SumChange
  <2>7. SumFunctionOnSet(h, Bidders) = SumFunctionOnSet(f, Bidders) + d
    BY <2>2, <2>4, <2>6
  <2> QED BY <2>7 DEF f, h
<1> QED BY <1>1, <1>2, <1>3

LEMMA NoEntry ==
    ASSUME \A m \in Names, b \in Bidders : Entry(m, b)' = Entry(m, b)
    PROVE  /\ \A b \in Bidders : OnBids(b)' = OnBids(b)
           /\ OnBidsOf' = OnBidsOf
<1>1. ASSUME NEW b \in Bidders PROVE OnBids(b)' = OnBids(b)
  <2>1. EntriesOf(b)' = EntriesOf(b)
    BY DEF EntriesOf
  <2> QED BY <2>1, OnBidsSum, OnBidsSumNext
<1> QED BY <1>1 DEF OnBidsOf

(* The balance of one bidder changes.                                      *)
LEMMA OneBalance ==
    ASSUME Shape, NEW w \in Bidders, NEW x \in Int,
           balance' = [balance EXCEPT ![w] = @ + x]
    PROVE  /\ SumFunctionOnSet(balance', Bidders)
                = SumFunctionOnSet(balance, Bidders) + x
           /\ SumFunctionOnSet(balance, Bidders) \in Nat
           /\ balance'[w] = balance[w] + x
           /\ \A b \in Bidders \ {w} : balance'[b] = balance[b]
<1> DEFINE f == balance
           h == balance'
<1>1. IntOn(f, Bidders) /\ f[w] \in Int /\ \A b \in Bidders : f[b] \in Nat
  BY DEF Shape, IntOn
<1>2. h[w] = f[w] + x /\ \A b \in Bidders \ {w} : h[b] = f[b]
  BY DEF Shape
<1>3. Bidders \in SUBSET Bidders
  OBVIOUS
<1> HIDE DEF f, h
<1>4. h[w] \in Int
  BY <1>1, <1>2
<1>5. /\ SumFunctionOnSet(h, Bidders) = SumFunctionOnSet(f, Bidders) - f[w] + h[w]
      /\ SumFunctionOnSet(f, Bidders) \in Int
  <2>1. DiffersAt(f, h, Bidders, w)
    BY <1>2 DEF DiffersAt
  <2>2. IntOn(f, Bidders)
    BY <1>1
  <2>3. IsFiniteSet(Bidders)
    BY FiniteSets
  <2> QED BY ONLY <1>4, <2>1, <2>2, <2>3, w \in Bidders, SumChange
<1>6. SumFunctionOnSet(f, Bidders) \in Nat
  BY <1>1, <1>3, SumNat, FiniteSets
<1>7. SumFunctionOnSet(h, Bidders) = SumFunctionOnSet(f, Bidders) + x
  BY <1>1, <1>2, <1>5
<1> QED BY <1>2, <1>6, <1>7 DEF f, h


-----------------------------------------------------------------------------
(* A day passes over the bids, and over nothing else of them.              *)
LEMMA AgedRows ==
    ASSUME NEW rows \in [Names -> NameBid]
    PROVE  /\ Aged(rows) \in [Names -> NameBid]
           /\ \A n \in Names : /\ Aged(rows)[n].high_bid = rows[n].high_bid
                               /\ Aged(rows)[n].high_bidder = rows[n].high_bidder
<1>1. \A a \in Ages : Older(a) \in Ages
  BY NameAuctionAssumption DEF Older, Ages
<1>2. 0 \in Ages
  BY NameAuctionAssumption DEF Ages
<1>3. ASSUME NEW n \in Names
      PROVE  /\ Aged(rows)[n] \in NameBid
             /\ Aged(rows)[n].high_bid = rows[n].high_bid
             /\ Aged(rows)[n].high_bidder = rows[n].high_bidder
  <2> DEFINE a == IF rows[n].high_bid = 0 THEN 0 ELSE Older(rows[n].age)
  <2>1. rows[n] \in NameBid
    BY <1>3
  <2>2. a \in Ages
    BY <1>1, <1>2, <2>1 DEF NameBid
  <2>3. Aged(rows)[n] = [rows[n] EXCEPT !.age = a]
    BY <1>3 DEF Aged
  <2> HIDE DEF a
  <2> QED BY <2>1, <2>2, <2>3 DEF NameBid
<1>4. Aged(rows) \in [Names -> NameBid]
  BY <1>3 DEF Aged
<1> QED BY <1>3, <1>4

(* What nobody's entries depend on.                                        *)
LEMMA EntriesKept ==
    ASSUME refunds' = refunds,
           \A n \in Names : /\ bids'[n].high_bid = bids[n].high_bid
                            /\ bids'[n].high_bidder = bids[n].high_bidder
    PROVE  \A m \in Names, b \in Bidders : Entry(m, b)' = Entry(m, b)
BY DEF Entry, IsOpen

(* No bidder is richer or poorer: what it has and has on the names.        *)
Unpaid(b) == balance'[b] + OnBids(b)' = balance[b] + OnBids(b)

LEMMA BidnameStep ==
    ASSUME Ind, NEW b \in Bidders, NEW n \in Names, NEW x \in 1..MAX_AMOUNT,
           bidname(b, n, x)
    PROVE  Ind' /\ \A c \in Bidders : Unpaid(c)
<1> DEFINE h == bids[n].high_bid
           u == bids[n].high_bidder
<1>0. Shape /\ x \in Nat /\ x > 0 /\ x <= MAX_AMOUNT /\ x \in Int /\ -x \in Int
  BY MaxNat DEF Ind
<1>1. h \in Int /\ u \in Bidders
  BY <1>0, BidFields
<1>2. h = 0 \/ (h > 0 /\ u # b)
  BY DEF bidname, BidAccepted, HasRow
<1>3. [ high_bidder |-> b, high_bid |-> x, age |-> 1 ] \in NameBid
  BY <1>0, MaxNat, NameAuctionAssumption DEF NameBid, Ages
<1>4. /\ bids' \in [Names -> NameBid]
      /\ bids'[n].high_bid = x /\ bids'[n].high_bidder = b
      /\ \A m \in Names \ {n} : bids'[m] = bids[m]
  BY <1>0, <1>3 DEF bidname, Shape
<1>5. /\ refunds' \in [Names -> [Bidders -> Nat]]
      /\ \A m \in Names, c \in Bidders :
            refunds'[m][c] = IF m = n /\ h # 0 /\ c = u THEN refunds[m][c] + h
                             ELSE refunds[m][c]
  <2>1. CASE h = 0
    BY <1>0, <2>1 DEF bidname, RefundAfterBid, HasRow, Shape
  <2>2. CASE h > 0
    <3>1. refunds' = [refunds EXCEPT ![n][u] = @ + h]
      BY <1>1, <2>2 DEF bidname, RefundAfterBid, HasRow
    <3>2. refunds \in [Names -> [Bidders -> Nat]] /\ h \in Nat /\ h # 0
      BY <1>0, <1>1, <2>2 DEF Shape
    <3> HIDE DEF h, u
    <3> QED BY <1>1, <3>1, <3>2
  <2> QED BY <1>2, <2>1, <2>2
<1>6. \A m \in Names, c \in Bidders : ~(m = n /\ c = b) => Entry(m, c)' = Entry(m, c)
  <2> SUFFICES ASSUME NEW m \in Names, NEW c \in Bidders, ~(m = n /\ c = b)
               PROVE  Entry(m, c)' = Entry(m, c)
    OBVIOUS
  <2>0. refunds[m][c] \in Nat
    BY <1>0, EntryNat
  <2>1. CASE m # n
    BY <1>4, <1>5, <2>1 DEF Entry, IsOpen
  <2>2. CASE m = n
    <3>1. c # b
      BY <2>2
    <3>2. Entry(n, c)' = refunds'[n][c]
      BY <1>4, <1>5, <3>1 DEF Entry, IsOpen
    <3>3. Entry(n, c) = refunds[n][c] + (IF h > 0 /\ u = c THEN h ELSE 0)
      BY DEF Entry, IsOpen
    <3> QED BY <1>1, <1>2, <1>5, <2>0, <2>2, <3>2, <3>3
  <2> QED BY <2>1, <2>2
<1>7. Entry(n, b)' = Entry(n, b) + x
  <2>1. refunds[n][b] \in Nat
    BY <1>0, EntryNat
  <2>2. Entry(n, b)' = refunds'[n][b] + x
    BY <1>0, <1>4 DEF Entry, IsOpen
  <2>3. Entry(n, b) = refunds[n][b] + (IF h > 0 /\ u = b THEN h ELSE 0)
    BY DEF Entry, IsOpen
  <2> QED BY <1>0, <1>1, <1>2, <1>5, <2>1, <2>2, <2>3
<1>8. /\ \A c \in Bidders \ {b} : OnBids(c)' = OnBids(c)
      /\ OnBids(b)' = OnBids(b) + x
      /\ SumFunctionOnSet(OnBidsOf', Bidders) = SumFunctionOnSet(OnBidsOf, Bidders) + x
  BY <1>0, <1>6, <1>7, OneEntry
<1>9. balance' = [balance EXCEPT ![b] = @ + (-x)] /\ balance[b] >= x /\ escrow' = escrow + x
  BY <1>0 DEF bidname, Shape
<1>10. /\ SumFunctionOnSet(balance', Bidders) = SumFunctionOnSet(balance, Bidders) + (-x)
       /\ SumFunctionOnSet(balance, Bidders) \in Nat
       /\ balance'[b] = balance[b] + (-x)
       /\ \A c \in Bidders \ {b} : balance'[c] = balance[c]
  BY <1>0, <1>9, OneBalance
<1>11. balance' \in [Bidders -> Nat] /\ escrow' \in Nat
  BY <1>0, <1>9 DEF Shape
<1>12. Shape'
  BY <1>0, <1>4, <1>5, <1>11 DEF Shape, bidname
<1>13. Held' /\ Conserved'
  <2>1. escrow \in Nat /\ fees \in Nat /\ fees' = fees
    BY <1>0 DEF Shape, bidname
  <2>2. Held'
    BY <1>8, <1>9 DEF Ind, Held
  <2>3. SumFunctionOnSet(balance', Bidders) + escrow' + fees'
           = SumFunctionOnSet(balance, Bidders) + escrow + fees
    BY <1>0, <1>9, <1>10, <2>1
  <2> QED BY <2>2, <2>3 DEF Ind, Conserved
<1>14. SuffixInv'
  BY DEF Ind, SuffixInv, bidname
<1>15. ASSUME NEW c \in Bidders PROVE Unpaid(c)
  <2>1. balance[c] \in Nat /\ OnBids(c) \in Nat
    BY <1>0, OnBidsNat DEF Shape
  <2> QED BY <1>0, <1>8, <1>10, <2>1 DEF Unpaid
<1> QED BY <1>12, <1>13, <1>14, <1>15 DEF Ind

LEMMA BidrefundStep ==
    ASSUME Ind, NEW b \in Bidders, NEW n \in Names, bidrefund(b, n)
    PROVE  Ind' /\ \A c \in Bidders : Unpaid(c)
<1> DEFINE x == refunds[n][b]
<1>0. Shape /\ x \in Nat /\ x > 0 /\ x \in Int /\ -x \in Int
  BY EntryNat DEF Ind, bidrefund
<1>1. /\ refunds' \in [Names -> [Bidders -> Nat]]
      /\ \A m \in Names, c \in Bidders :
            refunds'[m][c] = IF m = n /\ c = b THEN 0 ELSE refunds[m][c]
  BY <1>0 DEF bidrefund, Shape
<1>2. \A m \in Names, c \in Bidders : ~(m = n /\ c = b) => Entry(m, c)' = Entry(m, c)
  BY <1>1 DEF Entry, IsOpen, bidrefund
<1>3. Entry(n, b)' = Entry(n, b) + (-x)
  <2>1. IsOpen(n) => bids[n].high_bid \in Nat
    BY <1>0, BidFields DEF IsOpen
  <2> QED BY <1>0, <1>1, <2>1 DEF Entry, IsOpen, bidrefund
<1>9. /\ balance' = [balance EXCEPT ![b] = @ + x]
      /\ escrow' = escrow - x /\ escrow >= x
      /\ UNCHANGED <<bids, accounts, creator_of, fees, since_close, since_update>>
  BY DEF bidrefund
<1> HIDE DEF x
<1>8. /\ \A c \in Bidders \ {b} : OnBids(c)' = OnBids(c)
      /\ OnBids(b)' = OnBids(b) + (-x)
      /\ SumFunctionOnSet(OnBidsOf', Bidders) = SumFunctionOnSet(OnBidsOf, Bidders) + (-x)
  BY <1>0, <1>2, <1>3, OneEntry
<1>10. /\ SumFunctionOnSet(balance', Bidders) = SumFunctionOnSet(balance, Bidders) + x
       /\ SumFunctionOnSet(balance, Bidders) \in Nat
       /\ balance'[b] = balance[b] + x
       /\ \A c \in Bidders \ {b} : balance'[c] = balance[c]
  BY <1>0, <1>9, OneBalance
<1>11. balance' \in [Bidders -> Nat] /\ escrow' \in Nat
  BY <1>0, <1>9 DEF Shape
<1>12. Shape'
  BY <1>0, <1>1, <1>9, <1>11 DEF Shape
<1>13. Held' /\ Conserved'
  <2>1. escrow \in Nat /\ fees \in Nat /\ fees' = fees
    BY <1>0, <1>9 DEF Shape
  <2>2. Held'
    <3>1. escrow = SumFunctionOnSet(OnBidsOf, Bidders)
      BY DEF Ind, Held
    <3>2. escrow' = SumFunctionOnSet(OnBidsOf', Bidders)
      BY <1>0, <1>8, <1>9, <2>1, <3>1
    <3> QED BY <3>2 DEF Held
  <2>3. SumFunctionOnSet(balance', Bidders) + escrow' + fees'
           = SumFunctionOnSet(balance, Bidders) + escrow + fees
    BY <1>0, <1>9, <1>10, <2>1
  <2> QED BY <2>2, <2>3 DEF Ind, Conserved
<1>14. SuffixInv'
  BY <1>9 DEF Ind, SuffixInv
<1>15. ASSUME NEW c \in Bidders PROVE Unpaid(c)
  <2>1. balance[c] \in Nat /\ OnBids(c) \in Nat
    BY <1>0, OnBidsNat DEF Shape
  <2> QED BY <1>0, <1>8, <1>10, <2>1 DEF Unpaid
<1> QED BY <1>12, <1>13, <1>14, <1>15 DEF Ind

(* A step that changes no entry, no balance and neither token account.     *)
LEMMA QuietStep ==
    ASSUME Ind, Shape', SuffixInv',
           \A m \in Names, b \in Bidders : Entry(m, b)' = Entry(m, b),
           UNCHANGED <<balance, escrow, fees>>
    PROVE  Ind' /\ \A c \in Bidders : Unpaid(c)
<1>1. (\A b \in Bidders : OnBids(b)' = OnBids(b)) /\ OnBidsOf' = OnBidsOf
  BY NoEntry
<1>2. Held' /\ Conserved'
  BY <1>1 DEF Ind, Held, Conserved
<1>3. \A c \in Bidders : Unpaid(c)
  BY <1>1 DEF Unpaid
<1> QED BY <1>2, <1>3 DEF Ind

(* What a block without a close does to the ages.                          *)
LEMMA AgesStep ==
    ASSUME Ind, bids' = Aged(bids), since_close' = Older(since_close),
           since_update' \in 0..(UpdateInterval + 1),
           UNCHANGED <<refunds, accounts, creator_of, balance, escrow, fees>>
    PROVE  Ind' /\ \A c \in Bidders : Unpaid(c)
<1>0. bids \in [Names -> NameBid] /\ Shape
  BY DEF Ind, Shape
<1>1. /\ bids' \in [Names -> NameBid]
      /\ \A n \in Names : /\ bids'[n].high_bid = bids[n].high_bid
                          /\ bids'[n].high_bidder = bids[n].high_bidder
  BY <1>0, AgedRows
<1>2. since_close' \in Ages
  BY <1>0, NameAuctionAssumption DEF Shape, Older, Ages
<1>3. Shape'
  BY <1>0, <1>1, <1>2 DEF Shape
<1>4. SuffixInv'
  BY DEF Ind, SuffixInv
<1>5. \A m \in Names, b \in Bidders : Entry(m, b)' = Entry(m, b)
  BY <1>1, EntriesKept
<1> QED BY <1>3, <1>4, <1>5, QuietStep

LEMMA BlockPassesStep ==
    ASSUME Ind, BlockPasses
    PROVE  Ind' /\ \A c \in Bidders : Unpaid(c)
<1>1. since_update' \in 0..(UpdateInterval + 1)
  BY NameAuctionAssumption DEF Ind, Shape, BlockPasses, UpdateDue
<1> QED BY <1>1, AgesStep DEF BlockPasses

(* The auction of n is closed, and its bid becomes a fee.                  *)
Closes(n) ==
    /\ Close(n) /\ escrow >= bids[n].high_bid
    /\ bids' = Aged([bids EXCEPT ![n].high_bid = -@])
    /\ escrow' = escrow - bids[n].high_bid
    /\ fees' = fees + bids[n].high_bid
    /\ since_close' = 1
    /\ UNCHANGED <<refunds, accounts, creator_of, balance>>

(* The rows after a close.                                                 *)
LEMMA ClosedRows ==
    ASSUME Shape, NEW n \in Names, Closes(n)
    PROVE  /\ bids' \in [Names -> NameBid]
           /\ bids'[n].high_bid = -bids[n].high_bid
           /\ \A m \in Names : bids'[m].high_bidder = bids[m].high_bidder
           /\ \A m \in Names \ {n} : bids'[m].high_bid = bids[m].high_bid
<1> DEFINE rows == [bids EXCEPT ![n].high_bid = -@]
<1>1. bids \in [Names -> NameBid]
  BY DEF Shape
<1>2. /\ rows[n] = [bids[n] EXCEPT !.high_bid = -bids[n].high_bid]
      /\ \A m \in Names \ {n} : rows[m] = bids[m]
      /\ DOMAIN rows = Names /\ rows = [m \in Names |-> rows[m]]
  BY <1>1
<1>3. -bids[n].high_bid \in -MAX_AMOUNT..MAX_AMOUNT
  BY BidFields, MaxNat
<1>4. /\ rows[n] \in NameBid
      /\ rows[n].high_bid = -bids[n].high_bid
      /\ rows[n].high_bidder = bids[n].high_bidder
  BY <1>1, <1>2, <1>3 DEF NameBid
<1>5. bids' = Aged(rows)
  BY DEF Closes
<1> HIDE DEF rows
<1>6. rows \in [Names -> NameBid]
  BY <1>1, <1>2, <1>4
<1>7. /\ bids' \in [Names -> NameBid]
      /\ \A m \in Names : /\ bids'[m].high_bid = rows[m].high_bid
                          /\ bids'[m].high_bidder = rows[m].high_bidder
  BY <1>5, <1>6, AgedRows
<1> QED BY <1>2, <1>4, <1>7

LEMMA ClosesStep ==
    ASSUME Ind, NEW n \in Names, Closes(n),
           NEW u \in Bidders, bids[n].high_bidder = u,
           since_update' \in 0..(UpdateInterval + 1)
    PROVE  /\ Ind'
           /\ \A c \in Bidders \ {u} : Unpaid(c)
           /\ balance'[u] + OnBids(u)' = balance[u] + OnBids(u) - bids[n].high_bid
<1> DEFINE h == bids[n].high_bid
<1>0. Shape /\ h \in Nat /\ h > 0
  BY BidFields DEF Ind, Closes, Close
<1>1. /\ bids' \in [Names -> NameBid]
      /\ bids'[n].high_bid = -h
      /\ \A m \in Names : bids'[m].high_bidder = bids[m].high_bidder
      /\ \A m \in Names \ {n} : bids'[m].high_bid = bids[m].high_bid
  BY <1>0, ClosedRows
<1>2. \A m \in Names, c \in Bidders : ~(m = n /\ c = u) => Entry(m, c)' = Entry(m, c)
  <2> SUFFICES ASSUME NEW m \in Names, NEW c \in Bidders, ~(m = n /\ c = u)
               PROVE  Entry(m, c)' = Entry(m, c)
    OBVIOUS
  <2>1. refunds' = refunds
    BY DEF Closes
  <2>2. CASE m # n
    BY <1>1, <2>1, <2>2 DEF Entry, IsOpen
  <2>3. CASE m = n
    <3>1. c # u
      BY <2>3
    <3> QED BY <1>1, <2>1, <2>3, <3>1 DEF Entry, IsOpen
  <2> QED BY <2>2, <2>3
<1>3. Entry(n, u)' = Entry(n, u) + (-h)
  <2>1. refunds[n][u] \in Nat /\ refunds' = refunds
    BY <1>0, EntryNat DEF Closes
  <2>2. ~IsOpen(n)' /\ IsOpen(n)
    BY <1>0, <1>1 DEF IsOpen
  <2>3. Entry(n, u)' = refunds[n][u] + 0
    BY <1>1, <2>1, <2>2 DEF Entry
  <2>4. Entry(n, u) = refunds[n][u] + h
    BY <2>2 DEF Entry
  <2> HIDE DEF h
  <2> QED BY <1>0, <2>1, <2>3, <2>4
<1>4. /\ escrow' = escrow - h /\ escrow >= h /\ fees' = fees + h
      /\ UNCHANGED <<refunds, accounts, creator_of, balance>> /\ since_close' = 1
  BY DEF Closes
<1> HIDE DEF h
<1>5. -h \in Int
  BY <1>0
<1>6. /\ \A c \in Bidders \ {u} : OnBids(c)' = OnBids(c)
      /\ OnBids(u)' = OnBids(u) + (-h)
      /\ SumFunctionOnSet(OnBidsOf', Bidders) = SumFunctionOnSet(OnBidsOf, Bidders) + (-h)
  BY <1>0, <1>2, <1>3, <1>5, OneEntry
<1>7. Shape'
  <2>1. escrow' \in Nat /\ fees' \in Nat
    BY <1>0, <1>4 DEF Shape
  <2>2. since_close' \in Ages
    BY <1>4, NameAuctionAssumption DEF Ages
  <2> QED BY <1>0, <1>1, <1>4, <2>1, <2>2 DEF Shape
<1>8. Held' /\ Conserved'
  <2>1. escrow \in Nat /\ fees \in Nat
    BY <1>0 DEF Shape
  <2>2. escrow = SumFunctionOnSet(OnBidsOf, Bidders)
    BY DEF Ind, Held
  <2>3. escrow' = SumFunctionOnSet(OnBidsOf', Bidders)
    BY <1>0, <1>4, <1>6, <2>1, <2>2
  <2>4. \A c \in Bidders : balance[c] \in Nat
    BY <1>0 DEF Shape
  <2>5. SumFunctionOnSet(balance, Bidders) \in Nat
    <3>1. Bidders \in SUBSET Bidders
      OBVIOUS
    <3> QED BY <2>4, <3>1, SumNat, FiniteSets
  <2>6. SumFunctionOnSet(balance', Bidders) + escrow' + fees'
           = SumFunctionOnSet(balance, Bidders) + escrow + fees
    BY <1>0, <1>4, <2>1, <2>5
  <2> QED BY <2>3, <2>6 DEF Ind, Held, Conserved
<1>9. SuffixInv'
  BY <1>4 DEF Ind, SuffixInv
<1>10. \A c \in Bidders \ {u} : Unpaid(c)
  BY <1>4, <1>6 DEF Unpaid
<1>11. balance'[u] + OnBids(u)' = balance[u] + OnBids(u) - h
  <2>1. balance[u] \in Nat /\ OnBids(u) \in Nat
    BY <1>0, OnBidsNat DEF Shape
  <2> QED BY <1>0, <1>4, <1>6, <2>1
<1> QED BY <1>7, <1>8, <1>9, <1>10, <1>11 DEF Ind, h

(* onblock closes an auction or lets time pass.                            *)
LEMMA OnblockCases ==
    ASSUME Ind, onblock
    PROVE  /\ since_update' \in 0..(UpdateInterval + 1)
           /\ \/ \E n \in Names : Closes(n)
              \/ /\ bids' = Aged(bids)
                 /\ since_close' = Older(since_close)
                 /\ UNCHANGED <<refunds, accounts, creator_of, balance, escrow, fees>>
<1>1. since_update' \in 0..(UpdateInterval + 1)
  BY NameAuctionAssumption DEF Ind, Shape, onblock, UpdateDue
<1>2. CASE UpdateDue /\ \E n \in Names : Close(n)
  BY <1>1, <1>2 DEF onblock, Closes
<1>3. CASE ~(UpdateDue /\ \E n \in Names : Close(n))
  BY <1>1, <1>3 DEF onblock
<1> QED BY <1>2, <1>3

-----------------------------------------------------------------------------
(* newaccount touches the row of a name only when its winner claims it.    *)
LEMMA ClaimedRows ==
    ASSUME Shape, NEW c, NEW n \in Names \cup Others, newaccount(c, n)
    PROVE  \/ bids' = bids
           \/ /\ n \in Names
              /\ bids[n].high_bid < 0 /\ bids[n].high_bidder = c
              /\ bids' \in [Names -> NameBid]
              /\ bids'[n].high_bid = 0
              /\ \A m \in Names \ {n} : bids'[m] = bids[m]
<1>1. CASE c = System \/ n \in Others
  BY <1>1 DEF newaccount
<1>2. CASE ~(c = System \/ n \in Others)
  <2> DEFINE r1 == [bids EXCEPT ![n].high_bid = 0]
             r2 == [r1 EXCEPT ![n].age = 0]
  <2>1. n \in Names /\ bids[n].high_bid < 0 /\ bids[n].high_bidder = c
    BY <1>2 DEF newaccount, MayCreate
  <2>2. bids' = r2
    BY <1>2, Zenon DEF newaccount, r1, r2
  <2>3. bids \in [Names -> NameBid]
    BY DEF Shape
  <2>4. 0 \in -MAX_AMOUNT..MAX_AMOUNT /\ 0 \in Ages
    BY MaxNat, NameAuctionAssumption DEF Ages
  <2>5. /\ r1 \in [Names -> NameBid] /\ r1[n].high_bid = 0
        /\ \A m \in Names \ {n} : r1[m] = bids[m]
    BY <2>1, <2>3, <2>4 DEF NameBid
  <2> HIDE DEF r1
  <2>6. /\ r2 \in [Names -> NameBid] /\ r2[n].high_bid = 0
        /\ \A m \in Names \ {n} : r2[m] = r1[m]
    BY <2>1, <2>4, <2>5 DEF NameBid
  <2> HIDE DEF r2
  <2> QED BY <2>1, <2>2, <2>5, <2>6
<1> QED BY <1>1, <1>2

(* Who may be the creator of a name under a name that is no account.       *)
LEMMA SuffixCreator ==
    ASSUME NEW c, NEW n \in Others, newaccount(c, n),
           Suffix[n] \in Names \ accounts
    PROVE  c = System
<1>1. n \notin Names
  BY NameAuctionAssumption
<1>2. ASSUME c # System PROVE FALSE
  <2>1. Suffix[n] = c
    BY <1>1, <1>2 DEF newaccount, MayCreate
  <2>2. c \in Bidders \cup accounts
    BY <1>2 DEF newaccount
  <2> QED BY <2>1, <2>2, NameAuctionAssumption
<1> QED BY <1>2

LEMMA NewaccountStep ==
    ASSUME Ind, NEW c, NEW n \in Names \cup Others, newaccount(c, n)
    PROVE  Ind' /\ \A b \in Bidders : Unpaid(b)
<1>0. Shape /\ bids \in [Names -> NameBid]
  BY DEF Ind, Shape
<1>1. /\ accounts' = accounts \cup {n} /\ n \notin accounts
      /\ creator_of' = [m \in DOMAIN creator_of \cup {n} |->
            IF m = n THEN c ELSE creator_of[m]]
      /\ DOMAIN creator_of = accounts
      /\ UNCHANGED <<refunds, balance, escrow, fees, since_close, since_update>>
  BY <1>0 DEF newaccount, Shape
<1>2. Shape'
  <2>1. bids' \in [Names -> NameBid]
    BY <1>0, ClaimedRows
  <2>2. accounts' \subseteq Names \cup Others /\ DOMAIN creator_of' = accounts'
    BY <1>0, <1>1 DEF Shape
  <2> QED BY <1>0, <1>1, <2>1, <2>2 DEF Shape
<1>3. SuffixInv'
  <2> SUFFICES ASSUME NEW m \in accounts' \cap Others, Suffix[m] \in Names \ accounts'
               PROVE  creator_of'[m] = System
    BY DEF SuffixInv
  <2>1. Suffix[m] \in Names \ accounts
    BY <1>1
  <2>2. CASE m = n
    BY <1>1, <2>1, <2>2, SuffixCreator
  <2>3. CASE m # n
    BY <1>1, <2>1, <2>3 DEF Ind, SuffixInv
  <2> QED BY <2>2, <2>3
<1>4. ASSUME NEW m \in Names, NEW b \in Bidders
      PROVE  Entry(m, b)' = Entry(m, b)
  <2>1. CASE bids' = bids
    BY <1>1, <2>1 DEF Entry, IsOpen
  <2>2. CASE bids' # bids
    <3>1. /\ n \in Names /\ bids[n].high_bid < 0 /\ bids'[n].high_bid = 0
          /\ \A k \in Names \ {n} : bids'[k] = bids[k]
      BY <1>0, <2>2, ClaimedRows
    <3>2. CASE m = n
      <4>1. bids[n].high_bid \in Int
        BY <1>0, <3>1, BidFields
      <4>2. ~IsOpen(m) /\ ~IsOpen(m)'
        BY <3>1, <3>2, <4>1 DEF IsOpen
      <4> QED BY <1>1, <4>2 DEF Entry
    <3>3. CASE m # n
      BY <1>1, <3>1, <3>3 DEF Entry, IsOpen
    <3> QED BY <3>2, <3>3
  <2> QED BY <2>1, <2>2
<1> QED BY <1>1, <1>2, <1>3, <1>4, QuietStep

-----------------------------------------------------------------------------
LEMMA Start ==
    ASSUME Init
    PROVE  Ind
<1>1. bids \in [Names -> NameBid] /\ \A n \in Names : ~IsOpen(n)
  <2> DEFINE r == [ high_bidder |-> CHOOSE b \in Bidders : TRUE, high_bid |-> 0, age |-> 0 ]
  <2>1. (CHOOSE b \in Bidders : TRUE) \in Bidders
    BY NameAuctionAssumption
  <2>2. 0 \in -MAX_AMOUNT..MAX_AMOUNT /\ 0 \in Ages
    BY MaxNat, NameAuctionAssumption DEF Ages
  <2>3. r \in NameBid /\ r.high_bid = 0
    BY <2>1, <2>2 DEF NameBid
  <2>4. bids \in [Names -> {r}]
    BY DEF Init
  <2> HIDE DEF r
  <2> QED BY <2>3, <2>4 DEF IsOpen
<1>2. Shape
  <2>1. since_close \in Ages /\ since_update \in 0..(UpdateInterval + 1)
    BY NameAuctionAssumption DEF Init, Ages
  <2>2. refunds \in [Names -> [Bidders -> Nat]]
    BY DEF Init
  <2>3. accounts \subseteq Names \cup Others /\ DOMAIN creator_of = accounts
    BY DEF Init
  <2>4. balance \in [Bidders -> Nat] /\ escrow \in Nat /\ fees \in Nat
    BY NameAuctionAssumption DEF Init
  <2> QED BY <1>1, <2>1, <2>2, <2>3, <2>4 DEF Shape
<1>3. \A b \in Bidders : OnBids(b) = 0
  <2> SUFFICES ASSUME NEW b \in Bidders PROVE OnBids(b) = 0
    OBVIOUS
  <2> DEFINE f == EntriesOf(b)
  <2>1. \A n \in Names : f[n] = 0
    BY <1>1 DEF EntriesOf, Entry, Init
  <2>2. OnBids(b) = SumFunctionOnSet(f, Names)
    BY OnBidsSum
  <2> HIDE DEF f
  <2> QED BY <2>1, <2>2, SumZero, FiniteSets
<1>4. SumFunctionOnSet(OnBidsOf, Bidders) = 0
  <2> DEFINE f == OnBidsOf
  <2>1. \A b \in Bidders : f[b] = 0
    BY <1>3 DEF OnBidsOf
  <2> HIDE DEF f
  <2>2. SumFunctionOnSet(f, Bidders) = 0
    BY <2>1, SumZero, FiniteSets
  <2> QED BY <2>2 DEF f
<1>5. Held
  BY <1>4 DEF Held, Init
<1>6. Conserved
  <2>1. SumFunctionOnSet(InitialBalance, Bidders) \in Nat
    <3>1. Bidders \in SUBSET Bidders /\ \A b \in Bidders : InitialBalance[b] \in Nat
      BY NameAuctionAssumption
    <3> QED BY <3>1, SumNat, FiniteSets
  <2> QED BY <2>1 DEF Conserved, Init
<1>7. SuffixInv
  BY DEF SuffixInv, Init
<1> QED BY <1>2, <1>5, <1>6, <1>7 DEF Ind

LEMMA Step ==
    ASSUME Ind, [Next]_vars
    PROVE  Ind'
<1>1. ASSUME NEW b \in Bidders, NEW n \in Names, NEW x \in 1..MAX_AMOUNT,
             bidname(b, n, x)
      PROVE  Ind'
  BY <1>1, BidnameStep
<1>2. ASSUME NEW b \in Bidders, NEW n \in Names, bidrefund(b, n)
      PROVE  Ind'
  BY <1>2, BidrefundStep
<1>3. ASSUME NEW c, NEW n \in Names \cup Others, newaccount(c, n)
      PROVE  Ind'
  BY <1>3, NewaccountStep
<1>4. ASSUME onblock PROVE Ind'
  <2>1. ASSUME NEW n \in Names, Closes(n) PROVE Ind'
    <3>1. bids[n].high_bidder \in Bidders
      BY BidFields DEF Ind
    <3>2. since_update' \in 0..(UpdateInterval + 1)
      BY <1>4, OnblockCases
    <3> QED BY <2>1, <3>1, <3>2, ClosesStep
  <2> QED BY <1>4, <2>1, OnblockCases, AgesStep
<1>5. ASSUME BlockPasses PROVE Ind'
  BY <1>5, BlockPassesStep
<1>6. ASSUME UNCHANGED vars PROVE Ind'
  <2>1. UNCHANGED <<bids, refunds, accounts, creator_of, balance, escrow, fees,
                    since_close, since_update>>
    BY <1>6 DEF vars
  <2>2. Shape'
    BY <2>1 DEF Ind, Shape
  <2>3. SuffixInv'
    BY <2>1 DEF Ind, SuffixInv
  <2>4. \A m \in Names, b \in Bidders : Entry(m, b)' = Entry(m, b)
    BY <2>1, EntriesKept
  <2> QED BY <2>1, <2>2, <2>3, <2>4, QuietStep
<1> QED BY <1>1, <1>2, <1>3, <1>4, <1>5, <1>6 DEF Next

(* In every reachable state flon.names holds what it owes, no token is     *)
(* made or lost, and names under an unclaimed name are the system's.       *)
THEOREM Invariance == Spec => []Ind
<1>1. Init => Ind
  BY Start
<1>2. Ind /\ [Next]_vars => Ind'
  BY Step
<1> QED BY <1>1, <1>2, PTL DEF Spec

(* An amount of the tokens that exist fits an asset.                       *)
LEMMA Bounds ==
    ASSUME Ind
    PROVE  TypeOK
<1>0. Shape /\ \A b \in Bidders : balance[b] \in Nat
  BY DEF Ind, Shape
<1>1. Bidders \in SUBSET Bidders
  OBVIOUS
<1>2. /\ SumFunctionOnSet(balance, Bidders) \in Nat
      /\ \A b \in Bidders : balance[b] <= SumFunctionOnSet(balance, Bidders)
  BY <1>0, <1>1, SumNat, SumBound, FiniteSets
<1>3. SumFunctionOnSet(balance, Bidders) + escrow + fees <= MAX_AMOUNT
  BY NameAuctionAssumption DEF Ind, Conserved, MAX_AMOUNT
<1>4. escrow \in Nat /\ fees \in Nat /\ MAX_AMOUNT \in Nat
  BY <1>0, MaxNat DEF Shape
<1>5. /\ SumFunctionOnSet(balance, Bidders) <= MAX_AMOUNT
      /\ escrow <= MAX_AMOUNT /\ fees <= MAX_AMOUNT
  BY <1>2, <1>3, <1>4
<1>6. balance \in [Bidders -> 0..MAX_AMOUNT]
  <2>1. \A b \in Bidders : balance[b] <= MAX_AMOUNT
    BY <1>0, <1>2, <1>4, <1>5
  <2> QED BY <1>0, <1>4, <2>1 DEF Shape
<1>7. refunds \in [Names -> [Bidders -> 0..MAX_AMOUNT]]
  <2>1. ASSUME NEW n \in Names, NEW b \in Bidders
        PROVE  refunds[n][b] \in 0..MAX_AMOUNT
    <3>1. refunds[n][b] \in Nat /\ refunds[n][b] <= Entry(n, b) /\ Entry(n, b) \in Nat
      <4>1. IsOpen(n) => bids[n].high_bid \in Nat
        BY <1>0, BidFields DEF IsOpen
      <4>2. refunds[n][b] \in Nat
        BY <1>0, EntryNat
      <4> QED BY <4>1, <4>2 DEF Entry
    <3>2. OnBids(b) \in Nat /\ Entry(n, b) <= OnBids(b)
      BY <1>0, OnBidsNat
    <3>3. OnBids(b) <= escrow
      <4> DEFINE f == OnBidsOf
      <4>1. \A c \in Bidders : f[c] \in Nat
        BY <1>0, OnBidsNat DEF OnBidsOf
      <4>2. f[b] = OnBids(b)
        BY DEF OnBidsOf
      <4>3. escrow = SumFunctionOnSet(f, Bidders)
        BY DEF Ind, Held
      <4> HIDE DEF f
      <4>4. f[b] <= SumFunctionOnSet(f, Bidders)
        BY <4>1, SumBound, FiniteSets
      <4> QED BY <4>2, <4>3, <4>4
    <3> QED BY <1>4, <1>5, <3>1, <3>2, <3>3
  <2>2. refunds \in [Names -> [Bidders -> Nat]]
    BY <1>0 DEF Shape
  <2> QED BY <2>1, <2>2
<1> QED BY <1>0, <1>4, <1>5, <1>6, <1>7 DEF Shape, TypeOK

(* flon.names can always pay the fee (the transfer in onblock).            *)
LEMMA FeePaid == Ind => ~FeeRefused
<1> SUFFICES ASSUME Ind, NEW n \in Names, Close(n), escrow < bids[n].high_bid
             PROVE  FALSE
  BY DEF FeeRefused
<1>0. Shape /\ bids[n].high_bid > 0
  BY DEF Ind, Close
<1> DEFINE b == bids[n].high_bidder
<1>1. b \in Bidders /\ bids[n].high_bid \in Int
  BY <1>0, BidFields
<1>2. refunds[n][b] \in Nat /\ Entry(n, b) \in Nat
  BY <1>0, <1>1, EntryNat
<1>3. Entry(n, b) = refunds[n][b] + bids[n].high_bid
  BY <1>0 DEF Entry, IsOpen
<1>4. OnBids(b) \in Nat /\ Entry(n, b) <= OnBids(b)
  BY <1>0, <1>1, OnBidsNat
<1>5. OnBids(b) <= escrow
  <2> DEFINE f == OnBidsOf
  <2>1. \A c \in Bidders : f[c] \in Nat
    BY <1>0, OnBidsNat DEF OnBidsOf
  <2>2. f[b] = OnBids(b)
    BY <1>1 DEF OnBidsOf
  <2>3. escrow = SumFunctionOnSet(f, Bidders)
    BY DEF Ind, Held
  <2> HIDE DEF f, b
  <2>4. f[b] <= SumFunctionOnSet(f, Bidders)
    BY <1>1, <2>1, SumBound, FiniteSets
  <2> QED BY <2>2, <2>3, <2>4
<1>6. escrow \in Nat
  BY <1>0 DEF Shape
<1> HIDE DEF b
<1> QED BY <1>1, <1>2, <1>3, <1>4, <1>5, <1>6

(* flon.names always holds exactly the open bids and the refunds, so that  *)
(* bidrefund and the fee of onblock are never refused by flon.token.       *)
THEOREM EscrowCorrect == Spec => []EscrowInv
<1>1. Ind => EscrowInv
  BY Bounds DEF Ind, Held, EscrowInv, OnBidsOf
<1> QED BY <1>1, Invariance, PTL

-----------------------------------------------------------------------------
(* Being outbid costs nothing and winning costs the bid (bidname's refund, *)
(* bidrefund and the transfer of onblock).                                 *)
THEOREM OnlyWinnersPay == Spec => PaysOnlyForWins
<1> DEFINE Paid(b) == \E n \in Names :
                         /\ bids[n].high_bidder = b
                         /\ IsOpen(n) /\ bids'[n].high_bid = -bids[n].high_bid
                         /\ (balance[b] + OnBids(b))' = balance[b] + OnBids(b) - bids[n].high_bid
           Fair == \A b \in Bidders : Unpaid(b) \/ Paid(b)
<1>1. ASSUME Ind, Next PROVE Fair
  <2>1. ASSUME NEW b \in Bidders, NEW n \in Names, NEW x \in 1..MAX_AMOUNT,
               bidname(b, n, x)
        PROVE  Fair
    BY <1>1, <2>1, BidnameStep
  <2>2. ASSUME NEW b \in Bidders, NEW n \in Names, bidrefund(b, n)
        PROVE  Fair
    BY <1>1, <2>2, BidrefundStep
  <2>3. ASSUME NEW c, NEW n \in Names \cup Others, newaccount(c, n)
        PROVE  Fair
    BY <1>1, <2>3, NewaccountStep
  <2>4. ASSUME onblock PROVE Fair
    <3>1. ASSUME NEW n \in Names, Closes(n) PROVE Fair
      <4>1. PICK u \in Bidders : u = bids[n].high_bidder
        BY <1>1, BidFields DEF Ind
      <4>2. since_update' \in 0..(UpdateInterval + 1)
        BY <1>1, <2>4, OnblockCases
      <4>3. /\ \A c \in Bidders \ {u} : Unpaid(c)
            /\ balance'[u] + OnBids(u)' = balance[u] + OnBids(u) - bids[n].high_bid
        BY <1>1, <3>1, <4>1, <4>2, ClosesStep
      <4>4. IsOpen(n) /\ bids'[n].high_bid = -bids[n].high_bid
        BY <1>1, <3>1, ClosedRows DEF Ind, Closes, Close, IsOpen
      <4>5. Paid(u)
        BY <4>1, <4>3, <4>4
      <4> QED BY <4>3, <4>5
    <3> QED BY <1>1, <2>4, <3>1, OnblockCases, AgesStep
  <2>5. ASSUME BlockPasses PROVE Fair
    BY <1>1, <2>5, BlockPassesStep
  <2> QED BY <1>1, <2>1, <2>2, <2>3, <2>4, <2>5 DEF Next
<1>2. Ind /\ [Next]_vars =>
        [\A b \in Bidders :
          \/ (balance[b] + OnBids(b))' = balance[b] + OnBids(b)
          \/ \E n \in Names :
                /\ bids[n].high_bidder = b
                /\ IsOpen(n) /\ bids'[n].high_bid = -bids[n].high_bid
                /\ (balance[b] + OnBids(b))' = balance[b] + OnBids(b) - bids[n].high_bid]_vars
  BY <1>1 DEF Unpaid
<1> QED BY <1>2, Invariance, PTL DEF Spec, PaysOnlyForWins

(* The unsigned key of an open bid.                                        *)
LEMMA NegatedKey ==
    ASSUME NEW K \in Nat, NEW h \in Nat, 0 < h, h < K
    PROVE  (-h) % K = K - h
<1> DEFINE q == (-h) \div K
           r == (-h) % K
<1>1. q \in Int /\ r \in Int /\ 0 <= r /\ r < K /\ -h = K * q + r
  OBVIOUS
<1> HIDE DEF q, r
<1>2. q > -2
  <2>1. ASSUME q <= -2 PROVE FALSE
    <3>1. K * q <= K * (-2)
      BY <1>1, <2>1
    <3> QED BY <1>1, <3>1
  <2> QED BY <1>1, <2>1
<1>3. q < 0
  <2>1. ASSUME q >= 0 PROVE FALSE
    <3>1. K * q >= 0
      BY <1>1, <2>1
    <3> QED BY <1>1, <3>1
  <2> QED BY <1>1, <2>1
<1>4. q = -1
  BY <1>1, <1>2, <1>3
<1>5. r = K - h
  BY <1>1, <1>4
<1> QED BY <1>5 DEF r

(* A close takes the highest bid of all: the search in the highbid index   *)
(* meets every open auction, in the order of the bids.                     *)
LEMMA HighestIsHighest ==
    ASSUME Shape, NEW n \in Names, n \in Highest, IsOpen(n), NEW m \in Names
    PROVE  bids[m].high_bid <= bids[n].high_bid
<1> DEFINE K == 2^BidWidth
           found == {k \in Names : HasRow(k) /\ by_high_bid(k) >= (2^BidWidth - 1) \div 2}
<1>1. /\ bids[n].high_bid \in Int /\ bids[m].high_bid \in Int
      /\ bids[n].high_bid > 0
      /\ bids[n].high_bid <= MAX_AMOUNT /\ bids[m].high_bid <= MAX_AMOUNT
  BY BidFields DEF IsOpen
<1>2. CASE bids[m].high_bid <= 0
  BY <1>1, <1>2
<1>3. CASE bids[m].high_bid > 0
  <2>1. MAX_AMOUNT \in Nat /\ K \in Nat /\ K = 4 * MAX_AMOUNT + 4
    BY MaxNat
  <2>2. /\ by_high_bid(n) = (-bids[n].high_bid) % K
        /\ by_high_bid(m) = (-bids[m].high_bid) % K
    BY DEF by_high_bid
  <2>3. (2^BidWidth - 1) \div 2 = (K - 1) \div 2
    OBVIOUS
  <2>4. by_high_bid(n) <= by_high_bid(m) \/ ~(by_high_bid(m) >= (2^BidWidth - 1) \div 2)
    BY <1>1, <1>3 DEF Highest, HasRow
  <2> HIDE DEF K
  <2>5. /\ bids[n].high_bid \in Nat /\ 0 < bids[n].high_bid /\ bids[n].high_bid < K
        /\ bids[m].high_bid \in Nat /\ 0 < bids[m].high_bid /\ bids[m].high_bid < K
    BY <1>1, <1>3, <2>1
  <2>6. by_high_bid(n) = K - bids[n].high_bid /\ by_high_bid(m) = K - bids[m].high_bid
    BY <2>1, <2>2, <2>5, NegatedKey
  <2>7. (K - 1) \div 2 = 2 * MAX_AMOUNT + 1
    BY <2>1
  <2>8. by_high_bid(m) >= (K - 1) \div 2
    BY <1>1, <2>1, <2>5, <2>6, <2>7
  <2> QED BY <1>1, <2>1, <2>3, <2>4, <2>5, <2>6, <2>8
<1> QED BY <1>1, <1>2, <1>3

(* Only onblock closes an auction, and it closes the one its index search  *)
(* finds: the highest bid.                                                 *)
THEOREM HighestBidWins == Spec => HighestWins
<1> DEFINE Wins == \A n \in Names : IsOpen(n) /\ bids'[n].high_bid < 0 =>
                      \A m \in Names : bids[m].high_bid <= bids[n].high_bid
<1>1. ASSUME Ind, Next PROVE Wins
  <2>0. Shape /\ bids \in [Names -> NameBid]
    BY <1>1 DEF Ind, Shape
  <2> SUFFICES ASSUME NEW n \in Names, IsOpen(n), bids'[n].high_bid < 0,
                      NEW m \in Names
               PROVE  bids[m].high_bid <= bids[n].high_bid
    OBVIOUS
  <2>1. bids[n].high_bid \in Int /\ bids[n].high_bid > 0
    BY <2>0, BidFields DEF IsOpen
  <2>2. bids'[n].high_bid # bids[n].high_bid
    BY <2>1
  <2>3. ASSUME NEW b \in Bidders, NEW k \in Names, NEW x \in 1..MAX_AMOUNT,
               bidname(b, k, x)
        PROVE  FALSE
    <3>1. x > 0 /\ x \in Int
      BY MaxNat
    <3>2. bids'[n] = IF n = k THEN [ high_bidder |-> b, high_bid |-> x, age |-> 1 ]
                     ELSE bids[n]
      BY <2>0, <2>3 DEF bidname
    <3>3. CASE n = k
      <4>1. bids'[n].high_bid = x
        BY <3>2, <3>3
      <4> QED BY <3>1, <4>1
    <3>4. CASE n # k
      BY <2>2, <3>2, <3>4
    <3> QED BY <3>3, <3>4
  <2>4. ASSUME NEW b \in Bidders, NEW k \in Names, bidrefund(b, k)
        PROVE  FALSE
    BY <2>2, <2>4 DEF bidrefund
  <2>5. ASSUME NEW c, NEW k \in Names \cup Others, newaccount(c, k)
        PROVE  FALSE
    <3>1. CASE bids' = bids
      BY <2>2, <3>1
    <3>2. CASE bids' # bids
      <4>1. bids'[k].high_bid = 0 /\ \A j \in Names \ {k} : bids'[j] = bids[j]
        BY <2>0, <2>5, <3>2, ClaimedRows
      <4>2. CASE n = k
        BY <4>1, <4>2
      <4>3. CASE n # k
        BY <2>2, <4>1, <4>3
      <4> QED BY <4>2, <4>3
    <3> QED BY <3>1, <3>2
  <2>6. bids' # Aged(bids)
    BY <2>0, <2>2, AgedRows
  <2>7. ASSUME NEW k \in Names, Closes(k)
        PROVE  bids[m].high_bid <= bids[n].high_bid
    <3>1. n = k
      BY <2>0, <2>2, <2>7, ClosedRows
    <3>2. n \in Highest
      BY <2>7, <3>1 DEF Closes, Close
    <3> QED BY <2>0, <3>2, HighestIsHighest
  <2>8. ASSUME onblock PROVE bids[m].high_bid <= bids[n].high_bid
    BY <1>1, <2>6, <2>7, <2>8, OnblockCases
  <2>9. ASSUME BlockPasses PROVE FALSE
    BY <2>6, <2>9 DEF BlockPasses
  <2> QED BY <1>1, <2>3, <2>4, <2>5, <2>8, <2>9 DEF Next
<1>2. Ind /\ [Next]_vars =>
        [\A n \in Names : IsOpen(n) /\ bids'[n].high_bid < 0 =>
            \A m \in Names : bids[m].high_bid <= bids[n].high_bid]_vars
  BY <1>1
<1> QED BY <1>2, Invariance, PTL DEF Spec, HighestWins

(* A name that was won waits for its winner: bidname refuses it, onblock   *)
(* passes over it and newaccount gives it to no one else.                  *)
THEOREM WinnerKeeps == Spec => WinnerKeepsName
<1> DEFINE RowKept(n) == /\ bids'[n].high_bid = bids[n].high_bid
                         /\ bids'[n].high_bidder = bids[n].high_bidder
           Claimed(n) == n \in accounts' /\ creator_of'[n] = bids[n].high_bidder
           Below(n) == n \notin accounts =>
                         \A m \in accounts' \cap Others :
                             Suffix[m] = n => creator_of'[m] = System
<1>1. ASSUME Ind, Next, NEW n \in Names, bids[n].high_bid < 0
      PROVE  (RowKept(n) \/ Claimed(n)) /\ Below(n)
  <2>0. Shape /\ bids \in [Names -> NameBid] /\ DOMAIN creator_of = accounts
    BY <1>1 DEF Ind, Shape
  <2>1. bids[n].high_bid \in Int
    BY <2>0, BidFields
  <2>2. ASSUME UNCHANGED <<accounts, creator_of>> PROVE Below(n)
    BY <1>1, <2>2 DEF Ind, SuffixInv
  <2>3. ASSUME NEW b \in Bidders, NEW k \in Names, NEW x \in 1..MAX_AMOUNT,
               bidname(b, k, x)
        PROVE  RowKept(n) /\ Below(n)
    <3>1. k # n
      BY <1>1, <2>1, <2>3 DEF bidname, BidAccepted, HasRow
    <3>2. bids'[n] = bids[n]
      BY <2>0, <2>3, <3>1 DEF bidname
    <3>3. UNCHANGED <<accounts, creator_of>>
      BY <2>3 DEF bidname
    <3> QED BY <2>2, <3>2, <3>3
  <2>4. ASSUME NEW b \in Bidders, NEW k \in Names, bidrefund(b, k)
        PROVE  RowKept(n) /\ Below(n)
    <3>1. UNCHANGED <<bids, accounts, creator_of>>
      BY <2>4 DEF bidrefund
    <3> QED BY <2>2, <3>1
  <2>5. ASSUME NEW c, NEW k \in Names \cup Others, newaccount(c, k)
        PROVE  (RowKept(n) \/ Claimed(n)) /\ Below(n)
    <3>1. /\ accounts' = accounts \cup {k} /\ k \notin accounts
          /\ creator_of'[k] = c
          /\ \A m \in accounts : creator_of'[m] = creator_of[m]
      BY <2>0, <2>5 DEF newaccount
    <3>2. RowKept(n) \/ Claimed(n)
      <4>1. CASE bids' = bids
        BY <4>1
      <4>2. CASE bids' # bids
        <5>1. bids[k].high_bidder = c /\ \A m \in Names \ {k} : bids'[m] = bids[m]
          BY <2>0, <2>5, <4>2, ClaimedRows
        <5>2. CASE n = k
          BY <3>1, <5>1, <5>2
        <5>3. CASE n # k
          BY <5>1, <5>3
        <5> QED BY <5>2, <5>3
      <4> QED BY <4>1, <4>2
    <3>3. Below(n)
      <4> SUFFICES ASSUME n \notin accounts, NEW m \in accounts' \cap Others, Suffix[m] = n
                   PROVE  creator_of'[m] = System
        OBVIOUS
      <4>1. CASE m = k
        BY <2>5, <3>1, <4>1, SuffixCreator
      <4>2. CASE m # k
        BY <1>1, <3>1, <4>2 DEF Ind, SuffixInv
      <4> QED BY <4>1, <4>2
    <3> QED BY <3>2, <3>3
  <2>6. ASSUME bids' = Aged(bids) PROVE RowKept(n)
    BY <2>0, <2>6, AgedRows
  <2>7. ASSUME NEW k \in Names, Closes(k) PROVE RowKept(n) /\ Below(n)
    <3>1. k # n
      BY <1>1, <2>1, <2>7 DEF Closes, Close
    <3>2. RowKept(n)
      BY <2>0, <2>7, <3>1, ClosedRows
    <3>3. UNCHANGED <<accounts, creator_of>>
      BY <2>7 DEF Closes
    <3> QED BY <2>2, <3>2, <3>3
  <2>8. ASSUME onblock PROVE RowKept(n) /\ Below(n)
    BY <1>1, <2>2, <2>6, <2>7, <2>8, OnblockCases
  <2>9. ASSUME BlockPasses PROVE RowKept(n) /\ Below(n)
    BY <2>2, <2>6, <2>9 DEF BlockPasses
  <2> HIDE DEF RowKept, Claimed, Below
  <2> QED BY <1>1, <2>3, <2>4, <2>5, <2>8, <2>9 DEF Next
<1>2. Ind /\ [Next]_vars =>
        [\A n \in Names : bids[n].high_bid < 0 =>
          /\ \/ bids'[n].high_bid = bids[n].high_bid
                /\ bids'[n].high_bidder = bids[n].high_bidder
             \/ n \in accounts' /\ creator_of'[n] = bids[n].high_bidder
          /\ n \notin accounts =>
                \A m \in accounts' \cap Others :
                    Suffix[m] = n => creator_of'[m] = System]_vars
  BY <1>1
<1> QED BY <1>2, Invariance, PTL DEF Spec, WinnerKeepsName

-----------------------------------------------------------------------------
(* ProducerPay: first what the provers need of arithmetic.                 *)

(* The multiples of s are s apart.                                         *)
LEMMA Multiples ==
    ASSUME NEW s \in Nat, NEW j \in Nat, NEW k \in Nat, NEW d \in Int,
           j * s <= d, d < j * s + s, k * s <= d, d < k * s + s
    PROVE  j = k
<1>1. ASSUME NEW x \in Nat, NEW y \in Nat, x < y PROVE x * s + s <= y * s
  <2>1. PICK z \in Nat : y = (x + 1) + z
    <3>1. y - (x + 1) \in Nat /\ y = (x + 1) + (y - (x + 1))
      BY <1>1
    <3> QED BY <3>1
  <2>2. y * s = (x + 1) * s + z * s
    BY <2>1
  <2>3. (x + 1) * s = x * s + s
    OBVIOUS
  <2>4. z * s \in Nat /\ x * s \in Nat
    OBVIOUS
  <2> QED BY <2>2, <2>3, <2>4
<1>2. j * s \in Nat /\ k * s \in Nat
  OBVIOUS
<1>3. ~(j < k)
  BY <1>1, <1>2
<1>4. ~(k < j)
  BY <1>1, <1>2
<1> QED BY <1>3, <1>4

(* The quotient of naturals.                                            *)
LEMMA Division ==
    ASSUME NEW x \in Nat, NEW s \in Nat \ {0}
    PROVE  /\ x \div s \in Nat
           /\ (x \div s) * s <= x /\ x < (x \div s) * s + s
<1> DEFINE k == x \div s
           r == x % s
<1>1. k \in Int /\ x = s * k + r /\ r \in 0..(s - 1)
  OBVIOUS
<1> HIDE DEF k, r
<1>2. k \in Nat
  <2>1. ASSUME k < 0 PROVE FALSE
    <3>1. k <= -1
      BY <1>1, <2>1
    <3>2. s * k <= s * (-1)
      BY <1>1, <3>1
    <3> QED BY <1>1, <3>2
  <2> QED BY <1>1, <2>1
<1>3. s * k = k * s /\ k * s \in Nat
  BY <1>2
<1>4. k * s <= x /\ x < k * s + s
  BY <1>1, <1>3
<1> QED BY <1>2, <1>4 DEF k

-----------------------------------------------------------------------------
(* Powers of two in wrapping integers.                                     *)

Two(n) == 2^n

(* One more than the largest int64_t.                                      *)
TopBit == Two(Width - 1)

LEMMA Halvings ==
    /\ Two(0) = 1
    /\ \A n \in 0..(Width + MaxTime) : Two(n) \in Nat \ {0} /\ Two(n + 1) = 2 * Two(n)
    /\ Width \in Nat /\ Width > 1 /\ MaxTime \in Nat \ {0}
BY HalvingsAssumption, ProducerPayAssumption DEF Two

LEMMA HalfRange ==
    /\ TopBit \in Nat \ {0} /\ 2^(Width - 1) = TopBit /\ 2^Width = 2 * TopBit
    /\ Two(Width) = 2 * TopBit
<1>1. Width - 1 \in 0..(Width + MaxTime) /\ (Width - 1) + 1 = Width
  BY Halvings
<1>2. Two((Width - 1) + 1) = 2 * Two(Width - 1) /\ Two(Width - 1) \in Nat \ {0}
  BY <1>1, Halvings
<1>3. Two(Width) = 2 * TopBit
  BY <1>1, <1>2 DEF TopBit
<1> QED BY <1>2, <1>3 DEF TopBit, Two

LEMMA SmallPowers ==
    ASSUME NEW n \in Nat, n <= Width - 1
    PROVE  Two(n) <= TopBit /\ (n < Width - 1 => 2 * Two(n) <= TopBit)
<1> DEFINE W == Width
           Q == {j \in Nat : j <= W - 1 =>
                    /\ Two((W - 1) - j) <= TopBit
                    /\ j > 0 => 2 * Two((W - 1) - j) <= TopBit}
<1>0. W \in Nat /\ W > 1 /\ MaxTime \in Nat
  BY Halvings
<1>1. 0 \in Q
  <2>1. (W - 1) - 0 = W - 1
    BY <1>0
  <2> QED BY <2>1, HalfRange DEF TopBit
<1>2. ASSUME NEW j \in Nat, j \in Q PROVE j + 1 \in Q
  <2>1. SUFFICES ASSUME j + 1 <= W - 1 PROVE
            Two((W - 1) - (j + 1)) <= TopBit /\ 2 * Two((W - 1) - (j + 1)) <= TopBit
    OBVIOUS
  <2> DEFINE i == (W - 1) - (j + 1)
  <2>2. i \in 0..(W + MaxTime) /\ i + 1 = (W - 1) - j /\ j <= W - 1
    BY <1>0, <2>1
  <2>3. Two(i) \in Nat /\ Two(i + 1) = 2 * Two(i)
    BY <2>2, Halvings
  <2>4. Two((W - 1) - j) <= TopBit
    BY <1>2, <2>2
  <2>5. 2 * Two(i) <= TopBit
    BY <2>2, <2>3, <2>4
  <2> HIDE DEF i
  <2>6. Two(i) <= TopBit
    BY <2>3, <2>5, HalfRange
  <2> QED BY <2>5, <2>6 DEF i
<1>3. (W - 1) - n \in Nat
  BY <1>0
<1>4. (W - 1) - n \in Q
  <2> HIDE DEF Q
  <2> QED BY <1>1, <1>2, <1>3, NatSetInduction
<1>5. (W - 1) - ((W - 1) - n) = n /\ (W - 1) - n <= W - 1
  BY <1>0
<1> QED BY <1>0, <1>3, <1>4, <1>5

LEMMA WrapId ==
    ASSUME NEW x \in Int, -TopBit <= x, x < TopBit
    PROVE  Wrap(x) = x
<1> DEFINE y == x + TopBit
           m == 2 * TopBit
<1>1. y \in Nat /\ y < m /\ m \in Nat \ {0}
  BY HalfRange
<1> HIDE DEF y, m
<1>2. y % m = y
  BY <1>1
<1>3. Wrap(x) = (y % m) - TopBit
  BY HalfRange DEF Wrap, y, m
<1> QED BY <1>2, <1>3, HalfRange DEF y

LEMMA WrapTwice ==
    /\ Wrap(2 * Two(Width - 2)) = -TopBit
    /\ Wrap(2 * (-TopBit)) = 0
    /\ Wrap(2 * 0) = 0
<1> DEFINE m == 2 * TopBit
<1>0. TopBit \in Nat \ {0} /\ m \in Nat \ {0} /\ \A x : Wrap(x) = ((x + TopBit) % m) - TopBit
  BY HalfRange DEF Wrap
<1>1. 2 * Two(Width - 2) = TopBit
  <2>1. Width - 2 \in 0..(Width + MaxTime) /\ (Width - 2) + 1 = Width - 1
    BY Halvings
  <2> QED BY <2>1, Halvings DEF TopBit
<1>2. Wrap(TopBit) = -TopBit
  <2>1. TopBit + TopBit = m
    BY <1>0
  <2> HIDE DEF m
  <2>2. m % m = 0
    BY <1>0
  <2>3. Wrap(TopBit) = (m % m) - TopBit
    BY <1>0, <2>1
  <2> QED BY <1>0, <2>2, <2>3
<1>3. Wrap(2 * (-TopBit)) = 0
  <2>1. 2 * (-TopBit) + TopBit = -TopBit /\ TopBit < m /\ m - TopBit = TopBit
    BY <1>0
  <2> HIDE DEF m
  <2>2. (-TopBit) % m = m - TopBit
    BY <1>0, <2>1
  <2> QED BY <1>0, <2>1, <2>2
<1>4. Wrap(2 * 0) = 0
  BY WrapId, <1>0
<1> QED BY <1>1, <1>2, <1>3, <1>4

IsPower(f, base, N) ==
    f = [n \in 0..N |-> IF n = 0 THEN 1 ELSE Wrap(base * f[n - 1])]

LEMMA PowerExists ==
    ASSUME NEW base, NEW N \in Nat
    PROVE  \E f : IsPower(f, base, N)
<1> DEFINE Q == {n \in Nat : \E f : IsPower(f, base, n)}
<1>1. 0 \in Q
  <2> DEFINE f == [n \in 0..0 |-> 1]
  <2>1. IsPower(f, base, 0)
    BY DEF IsPower
  <2> QED BY <2>1
<1>2. ASSUME NEW n \in Nat, n \in Q PROVE n + 1 \in Q
  <2>1. PICK f : IsPower(f, base, n)
    BY <1>2
  <2> DEFINE g == [m \in 0..(n + 1) |-> IF m \in 0..n THEN f[m] ELSE Wrap(base * f[n])]
             h == [m \in 0..(n + 1) |-> IF m = 0 THEN 1 ELSE Wrap(base * g[m - 1])]
  <2>2. ASSUME NEW m \in 0..(n + 1) PROVE g[m] = h[m]
    <3>1. CASE m = 0
      <4>1. f[0] = 1
        BY <2>1 DEF IsPower
      <4> QED BY <3>1, <4>1
    <3>2. CASE m \in 1..n
      <4>1. f[m] = Wrap(base * f[m - 1])
        BY <2>1, <3>2 DEF IsPower
      <4>2. m - 1 \in 0..n /\ m \in 0..n
        BY <3>2
      <4>3. g[m] = f[m] /\ g[m - 1] = f[m - 1]
        BY <4>2
      <4> HIDE DEF g
      <4> QED BY <4>1, <4>3, <3>2
    <3>3. CASE m = n + 1
      <4>1. g[n] = f[n] /\ g[m] = Wrap(base * f[n])
        BY <3>3
      <4>2. m # 0 /\ m - 1 = n
        BY <3>3
      <4> HIDE DEF g
      <4> QED BY <4>1, <4>2
    <3> QED BY <3>1, <3>2, <3>3
  <2>3. g = h
    <3>1. DOMAIN g = DOMAIN h /\ \A m \in DOMAIN g : g[m] = h[m]
      BY <2>2
    <3> QED BY <3>1
  <2>4. IsPower(g, base, n + 1)
    <3> HIDE DEF g
    <3> QED BY <2>3 DEF IsPower
  <2> QED BY <2>4
<1>3. N \in Q
  <2> HIDE DEF Q
  <2> QED BY <1>1, <1>2, NatSetInduction
<1> QED BY <1>3

(* What power(2, n) returns.                                               *)
LEMMA PowerValue ==
    ASSUME NEW c \in Nat
    PROVE  power(2, c) = IF c < Width - 1 THEN Two(c)
                         ELSE IF c = Width - 1 THEN -TopBit ELSE 0
<1> DEFINE W == Width
           Val(n) == IF n < W - 1 THEN Two(n) ELSE IF n = W - 1 THEN -TopBit ELSE 0
           f == CHOOSE g : IsPower(g, 2, c)
           Q == {n \in Nat : n <= c => f[n] = Val(n)}
<1>0. W \in Nat /\ W > 1 /\ MaxTime \in Nat /\ TopBit \in Nat \ {0}
  BY Halvings, HalfRange
<1>1. IsPower(f, 2, c)
  BY PowerExists
<1>2. power(2, c) = f[c]
  BY DEF power, IsPower
<1> HIDE DEF f
<1>3. 0 \in Q
  <2>1. f[0] = 1
    BY <1>1 DEF IsPower
  <2>2. Val(0) = 1
    BY <1>0, Halvings
  <2> QED BY <2>1, <2>2
<1>4. ASSUME NEW n \in Nat, n \in Q PROVE n + 1 \in Q
  <2>1. SUFFICES ASSUME n + 1 <= c PROVE f[n + 1] = Val(n + 1)
    OBVIOUS
  <2>2. f[n + 1] = Wrap(2 * f[n])
    <3>1. n + 1 \in 0..c /\ n + 1 # 0 /\ (n + 1) - 1 = n
      BY <2>1
    <3> QED BY <1>1, <3>1 DEF IsPower
  <2>3. f[n] = Val(n)
    BY <1>4, <2>1
  <2>4. CASE n + 1 < W - 1
    <3>1. n \in 0..(W + MaxTime) /\ n + 1 \in 0..(W + MaxTime) /\ n < W - 1
      BY <1>0, <2>4
    <3>2. Two(n + 1) = 2 * Two(n) /\ Two(n + 1) \in Nat \ {0}
      BY <3>1, Halvings
    <3>3. 2 * Two(n + 1) <= TopBit
      <4>1. n + 1 \in Nat /\ n + 1 <= Width - 1 /\ n + 1 < Width - 1
        BY <1>0, <2>4
      <4> QED BY <4>1, SmallPowers
    <3>4. Wrap(Two(n + 1)) = Two(n + 1)
      BY <1>0, <3>2, <3>3, WrapId
    <3> QED BY <2>2, <2>3, <2>4, <3>1, <3>2, <3>4
  <2>5. CASE n + 1 = W - 1
    <3>1. n = W - 2 /\ n < W - 1
      BY <1>0, <2>5
    <3> QED BY <1>0, <2>2, <2>3, <2>5, <3>1, WrapTwice
  <2>6. CASE n + 1 > W - 1
    <3>1. CASE n = W - 1
      <4>1. ~(n < W - 1) /\ ~(n + 1 < W - 1) /\ n + 1 # W - 1
        BY <1>0, <3>1
      <4> QED BY <2>2, <2>3, <3>1, <4>1, WrapTwice
    <3>2. CASE n # W - 1
      <4>1. ~(n < W - 1) /\ ~(n + 1 < W - 1) /\ n + 1 # W - 1
        BY <1>0, <2>6, <3>2
      <4> QED BY <2>2, <2>3, <3>2, <4>1, WrapTwice
    <3> QED BY <3>1, <3>2
  <2> QED BY <1>0, <2>4, <2>5, <2>6
<1>5. c \in Q
  <2> HIDE DEF Q
  <2> QED BY <1>3, <1>4, NatSetInduction
<1> QED BY <1>2, <1>5

-----------------------------------------------------------------------------
(* The start of the rewards.                                               *)

(* The inductive invariant for the times.                                  *)
TimesInd ==
    /\ now \in 1..MaxTime
    /\ election_activated_time \in 0..MaxTime /\ reward_started_time \in 0..MaxTime
    /\ RewardTimesInv

LEMMA TimesStart == PayInit => TimesInd
BY ProducerPayAssumption DEF PayInit, TimesInd, RewardTimesInv

LEMMA TimesStep == TimesInd /\ [PayNext]_payvars => TimesInd'
<1> SUFFICES ASSUME TimesInd, [PayNext]_payvars PROVE TimesInd'
  OBVIOUS
<1>0. MaxTime \in Nat \ {0}
  BY ProducerPayAssumption
<1>1. CASE UNCHANGED payvars
  BY <1>1 DEF payvars, TimesInd, RewardTimesInv
<1>2. ASSUME NEW e \in 1..MaxTime, NEW r \in 1..MaxTime, NEW a \in Rewards,
             cfgelection(e, r, a)
      PROVE  TimesInd'
  BY <1>0, <1>2 DEF cfgelection, Reschedule, InOrder, TimesInd, RewardTimesInv
<1>3. ASSUME NEW p \in Producers, regproducer(p) PROVE TimesInd'
  BY <1>3 DEF regproducer, TimesInd, RewardTimesInv
<1>4. ASSUME NEW p \in Producers, onblockPays(p) PROVE TimesInd'
  <2>1. now' = now + 1 /\ now' \in 1..MaxTime
    BY <1>0, <1>4 DEF onblockPays, Tick, TimesInd
  <2>2. /\ election_activated_time' = election_activated_time
        /\ reward_started_time' = reward_started_time
    BY <1>4 DEF onblockPays
  <2>3. CASE Rewarded(p)
    BY <1>0, <2>1, <2>2, <2>3 DEF TimesInd, RewardTimesInv, Rewarded
  <2>4. CASE ~Rewarded(p)
    <3>1. total_produced_rewards' = total_produced_rewards
      BY <1>4, <2>4 DEF onblockPays
    <3> QED BY <1>0, <2>1, <2>2, <3>1 DEF TimesInd, RewardTimesInv
  <2> QED BY <2>3, <2>4
<1>5. ASSUME NEW p \in Producers, onblockTraps(p) PROVE TimesInd'
  BY <1>0, <1>5 DEF onblockTraps, Missed, Tick, TimesInd, RewardTimesInv
<1>6. CASE PayNext
  BY <1>2, <1>3, <1>4, <1>5, <1>6 DEF PayNext
<1> QED BY <1>1, <1>6

(* Both times stay within the run, and the start of the rewards is set     *)
(* with the election and not before it.                                    *)
THEOREM TimesInduction == PaySpec => []TimesInd
BY TimesStart, TimesStep, PTL DEF PaySpec

(* However often cfgelection moves the two times, rewards were produced    *)
(* only since the configured start.                                        *)
THEOREM RewardTimesCorrect == PaySpec => []RewardTimesInv
<1>1. TimesInd => RewardTimesInv
  BY DEF TimesInd
<1> QED BY <1>1, TimesInduction, PTL

-----------------------------------------------------------------------------
(* The halving.                                                            *)

Started == reward_started_time # 0 /\ reward_started_time <= now

Period == 2 * HalvingPeriodSeconds      \* in blocks

(* Two divisions, of blocks by 2 and of seconds by the period, are one.    *)
LEMMA CurPeriod ==
    ASSUME TimesInd, Started
    PROVE  /\ cur_period \in Nat /\ Period \in Nat \ {0}
           /\ cur_period * Period <= now - reward_started_time
           /\ now - reward_started_time < cur_period * Period + Period
           /\ cur_period \in 0..MaxTime
<1> DEFINE x == now - reward_started_time
           y == x \div 2
           H == HalvingPeriodSeconds
           c == y \div H
<1>1. H \in Nat \ {0} /\ x \in Nat /\ x <= MaxTime /\ MaxTime \in Nat
  BY ProducerPayAssumption DEF TimesInd, Started
<1> HIDE DEF x
<1>2. y \in Nat /\ y * 2 <= x /\ x < y * 2 + 2
  BY <1>1, Division
<1> HIDE DEF y, H
<1>3. c \in Nat /\ c * H <= y /\ y < c * H + H
  BY <1>1, <1>2, Division
<1> HIDE DEF c
<1>4. c * H \in Nat /\ c * (2 * H) = 2 * (c * H)
  BY <1>1, <1>3
<1>5. c * (2 * H) <= x /\ x < c * (2 * H) + 2 * H
  BY <1>1, <1>2, <1>3, <1>4
<1>6. c <= c * H
  BY <1>1, <1>3
<1>7. c \in 0..MaxTime
  BY <1>1, <1>2, <1>3, <1>6
<1>8. cur_period = c
  BY DEF cur_period, c, y, x, H
<1>9. 2 * H \in Nat \ {0}
  BY <1>1
<1> QED BY <1>3, <1>5, <1>7, <1>8, <1>9 DEF Period, x, H

(* One block later it is the same period, or the next one has begun.       *)
LEMMA NextPeriod ==
    ASSUME TimesInd, Started, TimesInd', now' = now + 1,
           reward_started_time' = reward_started_time
    PROVE  LET x == now - reward_started_time IN
           cur_period' = IF x + 1 < cur_period * Period + Period
                         THEN cur_period ELSE cur_period + 1
<1> DEFINE x == now - reward_started_time
           c == cur_period
           d == cur_period'
<1>1. c \in Nat /\ Period \in Nat \ {0} /\ c * Period <= x /\ x < c * Period + Period
  BY CurPeriod
<1>2. Started' /\ x' = x + 1 /\ x \in Int
  BY DEF Started, TimesInd
<1>3. d \in Nat /\ d * Period <= x + 1 /\ x + 1 < d * Period + Period
  <2>1. (TimesInd /\ Started =>
           /\ cur_period \in Nat /\ Period \in Nat \ {0}
           /\ cur_period * Period <= now - reward_started_time
           /\ now - reward_started_time < cur_period * Period + Period
           /\ cur_period \in 0..MaxTime)'
    BY CurPeriod, PTL
  <2>2. /\ d \in Nat
        /\ d * Period <= now' - reward_started_time'
        /\ now' - reward_started_time' < d * Period + Period
    BY <1>2, <2>1 DEF Period
  <2>3. now' - reward_started_time' = x + 1
    BY DEF TimesInd
  <2> HIDE DEF x, d
  <2> QED BY <2>2, <2>3
<1> HIDE DEF x, c, d
<1>4. c * Period \in Nat /\ (c + 1) * Period = c * Period + Period /\ c + 1 \in Nat
  BY <1>1
<1>5. CASE x + 1 < c * Period + Period
  <2>1. c * Period <= x + 1 /\ x + 1 \in Int
    BY <1>1, <1>2, <1>4
  <2>2. d = c
    BY <1>1, <1>3, <1>5, <2>1, Multiples
  <2> QED BY <1>5, <2>2 DEF x, c, d
<1>6. CASE ~(x + 1 < c * Period + Period)
  <2>1. (c + 1) * Period <= x + 1 /\ x + 1 < (c + 1) * Period + Period /\ x + 1 \in Int
    BY <1>1, <1>2, <1>4, <1>6
  <2>2. d = c + 1
    BY <1>1, <1>3, <1>4, <2>1, Multiples
  <2> QED BY <1>6, <2>2 DEF x, c, d
<1> QED BY <1>5, <1>6

LEMMA QuotientNat ==
    ASSUME NEW x \in Nat, NEW y \in Nat \ {0}
    PROVE  Quotient(x, y) = x \div y /\ Quotient(x, -y) = -(x \div y)
<1>1. x \div y \in Int
  OBVIOUS
<1>2. Quotient(x, y) = 1 * (x \div y)
  BY DEF Quotient
<1>3. -y < 0 /\ ~(x < 0) /\ -(-y) = y
  OBVIOUS
<1>4. Quotient(x, -y) = (-1) * (x \div y)
  BY <1>3 DEF Quotient
<1> QED BY <1>1, <1>2, <1>4

LEMMA AmountsRange == Amounts = 0..(TopBit - 1) /\ TopBit \in Nat \ {0}
BY HalfRange DEF Amounts

LEMMA HalvingPart ==
    ASSUME TimesInd, initial_rewards_per_block \in Amounts
    PROVE  HalvingInv
<1> SUFFICES ASSUME NEW p \in Producers, Rewarded(p)
             PROVE  IF cur_period < Width
                    THEN /\ ~Traps(p)
                         /\ rewards_per_block = initial_rewards_per_block \div 2^cur_period
                    ELSE Traps(p)
  BY DEF HalvingInv
<1> DEFINE c == cur_period
           x == initial_rewards_per_block
<1>1. Started
  BY DEF Rewarded, Started
<1>2. c \in Nat /\ c \in 0..MaxTime
  BY <1>1, CurPeriod
<1>3. x \in Nat /\ x < TopBit /\ TopBit \in Nat \ {0}
  BY AmountsRange
<1>4. Width \in Nat /\ Width > 1 /\ MaxTime \in Nat
  BY Halvings
<1>5. rewards_per_block = Quotient(x, power(2, c)) /\ (Traps(p) <=> power(2, c) = 0)
  BY DEF rewards_per_block, Traps
<1>6. power(2, c) = IF c < Width - 1 THEN Two(c)
                    ELSE IF c = Width - 1 THEN -TopBit ELSE 0
  BY <1>2, PowerValue
<1>7. 2^cur_period = Two(c)
  BY DEF Two
<1> HIDE DEF c, x
<1>8. CASE c < Width - 1
  <2>1. Two(c) \in Nat \ {0}
    BY <1>2, <1>4, Halvings
  <2>2. power(2, c) = Two(c)
    BY <1>6, <1>8
  <2>3. rewards_per_block = x \div Two(c)
    BY <1>3, <1>5, <2>1, <2>2, QuotientNat
  <2>4. c < Width /\ ~Traps(p)
    BY <1>2, <1>4, <1>5, <1>8, <2>1, <2>2
  <2> QED BY <1>7, <2>3, <2>4 DEF c, x
<1>9. CASE c = Width - 1
  <2>1. power(2, c) = -TopBit
    BY <1>2, <1>4, <1>6, <1>9
  <2>2. x \div TopBit = 0
    BY <1>3
  <2>3. Two(c) = TopBit
    BY <1>9 DEF TopBit
  <2>4. rewards_per_block = x \div Two(c)
    BY <1>3, <1>5, <2>1, <2>2, <2>3, QuotientNat
  <2>5. c < Width /\ ~Traps(p)
    BY <1>2, <1>3, <1>4, <1>5, <1>9, <2>1
  <2> QED BY <1>7, <2>4, <2>5 DEF c, x
<1>10. CASE c > Width - 1
  <2>1. power(2, c) = 0 /\ ~(c < Width)
    BY <1>2, <1>4, <1>6, <1>10
  <2> QED BY <1>5, <2>1 DEF c
<1> QED BY <1>2, <1>4, <1>8, <1>9, <1>10

(* onblock divides by 0 only after as many periods as an int64_t has bits. *)
LEMMA TrapsLate ==
    ASSUME TimesInd, NEW p, Traps(p)
    PROVE  /\ Started
           /\ now - reward_started_time >= 2 * HalvingPeriodSeconds * Width
<1> DEFINE c == cur_period
           x == now - reward_started_time
<1>1. Started /\ power(2, c) = 0
  BY DEF Traps, Rewarded, Started
<1>2. c \in Nat /\ Period \in Nat \ {0} /\ c * Period <= x /\ c \in 0..MaxTime
  BY <1>1, CurPeriod
<1>3. Width \in Nat /\ Width > 1 /\ TopBit \in Nat \ {0} /\ x \in Int
  BY Halvings, HalfRange DEF TimesInd
<1>4. c < Width - 1 => Two(c) # 0
  BY <1>2, <1>3, Halvings
<1>5. c >= Width
  <2> HIDE DEF c
  <2> QED BY <1>1, <1>2, <1>3, <1>4, PowerValue
<1> HIDE DEF c, x
<1>6. PICK z \in Nat : c = Width + z
  <2>1. c - Width \in Nat /\ c = Width + (c - Width)
    BY <1>2, <1>3, <1>5
  <2> QED BY <2>1
<1>7. c * Period = Width * Period + z * Period
  BY <1>2, <1>3, <1>6
<1>8. z * Period \in Nat /\ Width * Period \in Nat
  BY <1>2, <1>3, <1>6
<1>9. x >= Width * Period
  BY <1>2, <1>3, <1>7, <1>8
<1>10. Width * Period = 2 * HalvingPeriodSeconds * Width
  BY <1>3, ProducerPayAssumption DEF Period
<1> QED BY <1>1, <1>9, <1>10 DEF x

-----------------------------------------------------------------------------
(* What is ever produced.                                                  *)

LEMMA Cancel ==
    ASSUME NEW e \in Nat \ {0}, NEW x \in Int, NEW y \in Int, e * x <= e * y
    PROVE  x <= y
<1>1. ASSUME y < x PROVE FALSE
  <2>1. PICK z \in Nat : x = (y + 1) + z
    <3>1. x - (y + 1) \in Nat /\ x = (y + 1) + (x - (y + 1))
      BY <1>1
    <3> QED BY <3>1
  <2>2. e * x = e * y + e + e * z
    BY <2>1
  <2>3. e * z \in Nat /\ e * y \in Int
    BY <2>1
  <2> QED BY <2>2, <2>3
<1> QED BY <1>1

(* The ceiling on the total t, with e = 2^c, in block off of a period of   *)
(* size blocks: e * t reaches e * 2 * size * b less what the blocks that   *)
(* are left could add.                                                     *)
Below(e, t, size, off, b) ==
    e * t + (2 * (size * b) - off * b) <= e * (2 * (size * b))

LEMMA BelowBound ==
    ASSUME NEW e \in Nat \ {0}, NEW t \in Nat, NEW size \in Nat \ {0}, NEW b \in Nat,
           NEW off \in 0..size, Below(e, t, size, off, b)
    PROVE  t <= 2 * (size * b)
<1> DEFINE sb == size * b
           ob == off * b
<1>1. sb \in Nat /\ ob \in Nat /\ ob <= sb
  <2>1. PICK z \in Nat : size = off + z
    <3>1. size - off \in Nat /\ size = off + (size - off)
      OBVIOUS
    <3> QED BY <3>1
  <2>2. size * b = off * b + z * b
    BY <2>1
  <2>3. off * b \in Nat /\ z * b \in Nat
    BY <2>1
  <2> QED BY <2>2, <2>3
<1>2. e * t + (2 * sb - ob) <= e * (2 * sb)
  BY DEF Below
<1> HIDE DEF sb, ob
<1>3. e * t \in Nat /\ e * (2 * sb) \in Nat /\ 2 * sb \in Int
  BY <1>1
<1>4. e * t <= e * (2 * sb)
  BY <1>1, <1>2, <1>3
<1>5. t <= 2 * sb
  BY <1>3, <1>4, Cancel
<1> QED BY <1>5 DEF sb

(* A block adds at most b / e.                                             *)
LEMMA BelowAdd ==
    ASSUME NEW e \in Nat \ {0}, NEW t \in Nat, NEW size \in Nat \ {0}, NEW b \in Nat,
           NEW off \in 0..(size - 1), NEW rew \in Nat, e * rew <= b,
           Below(e, t, size, off, b)
    PROVE  /\ Below(e, t + rew, size, off + 1, b)
           /\ t + rew <= 2 * (size * b)
<1> DEFINE sb == size * b
           ob == off * b
           et == e * t
           er == e * rew
           es == e * (2 * sb)
<1>1. sb \in Nat /\ ob \in Nat /\ et \in Nat /\ er \in Nat /\ es \in Nat
  OBVIOUS
<1>2. et + (2 * sb - ob) <= es
  BY DEF Below
<1>3. e * (t + rew) = et + er /\ (off + 1) * b = ob + b
  OBVIOUS
<1>4. er <= b
  OBVIOUS
<1>5. (et + er) + (2 * sb - (ob + b)) <= es
  <2> HIDE DEF sb, ob, et, er, es
  <2> QED BY <1>1, <1>2, <1>4
<1>6. Below(e, t + rew, size, off + 1, b)
  BY <1>3, <1>5 DEF Below
<1>7. t + rew \in Nat /\ off + 1 \in 0..size
  OBVIOUS
<1> QED BY <1>6, <1>7, BelowBound

(* At the end of a period everything doubles.                              *)
LEMMA BelowDouble ==
    ASSUME NEW e \in Nat \ {0}, NEW t \in Nat, NEW size \in Nat \ {0}, NEW b \in Nat,
           Below(e, t, size, size, b)
    PROVE  Below(2 * e, t, size, 0, b)
<1> DEFINE sb == size * b
           et == e * t
           es == e * (2 * sb)
<1>1. sb \in Nat /\ et \in Nat /\ es \in Nat
  OBVIOUS
<1>2. et + (2 * sb - sb) <= es
  BY DEF Below
<1>3. (2 * e) * t = 2 * et /\ (2 * e) * (2 * sb) = 2 * es /\ 0 * b = 0
  OBVIOUS
<1>4. 2 * et + (2 * sb - 0) <= 2 * es
  <2> HIDE DEF sb, et, es
  <2> QED BY <1>1, <1>2
<1> QED BY <1>3, <1>4 DEF Below

(* Every configured reward is within b.                                    *)
Bounding == {b \in Nat : \A r \in Rewards : r <= b}

(* The inductive invariant of what is produced: the total stays below a    *)
(* ceiling that every period doubles at its end.                           *)
PayInd ==
    /\ TimesInd
    /\ initial_rewards_per_block \in Nat
    /\ \A b \in Bounding : initial_rewards_per_block <= b
    /\ registered \subseteq Producers
    /\ total_produced_rewards \in Nat
    /\ unclaimed_rewards \in [Producers -> Nat]
    /\ total_produced_rewards = SumFunctionOnSet(unclaimed_rewards, Producers)
    /\ total_unclaimed_rewards = total_produced_rewards
    /\ Started => \A b \in Bounding :
           Below(Two(cur_period), total_produced_rewards, Period,
                 (now - reward_started_time) - cur_period * Period, b)

LEMMA PayStart == PayInit => PayInd
<1> SUFFICES ASSUME PayInit PROVE PayInd
  OBVIOUS
<1>1. TimesInd
  BY TimesStart
<1>2. SumFunctionOnSet(unclaimed_rewards, Producers) = 0
  BY SumZero, ProducerPayAssumption DEF PayInit
<1>3. ~Started /\ unclaimed_rewards \in [Producers -> Nat]
  BY DEF PayInit, Started
<1>4. \A b \in Bounding : 0 <= b
  BY DEF Bounding
<1> QED BY <1>1, <1>2, <1>3, <1>4 DEF PayInit, PayInd

(* Some amount covers every reward and twice a period of it fits.          *)
LEMMA Fits ==
    ASSUME \A r \in Rewards : 4 * HalvingPeriodSeconds * r <= 2^(Width - 1) - 1
    PROVE  \E b \in Bounding : 2 * (Period * b) <= TopBit - 1
<1> DEFINE F == 4 * HalvingPeriodSeconds
           b == (TopBit - 1) \div F
<1>1. HalvingPeriodSeconds \in Nat \ {0} /\ \A r \in Rewards : r \in Int
  <2>1. 2^(Width - 1) = TopBit /\ TopBit \in Nat
    BY HalfRange
  <2>2. -(2^(Width - 1))..(2^(Width - 1) - 1) \subseteq Int
    BY <2>1
  <2> QED BY <2>2, ProducerPayAssumption
<1>2. F \in Nat \ {0} /\ TopBit - 1 \in Nat
  BY <1>1, HalfRange
<1>3. \A r \in Rewards : F * r <= TopBit - 1
  BY HalfRange
<1>4. F = 2 * Period /\ Period \in Nat
  BY <1>1 DEF Period
<1> HIDE DEF F
<1>5. b \in Nat /\ b * F <= TopBit - 1 /\ TopBit - 1 < b * F + F
  BY <1>2, Division
<1> HIDE DEF b
<1>6. ASSUME NEW r \in Rewards PROVE r <= b
  <2>0. r \in Int
    BY <1>1
  <2>1. SUFFICES ASSUME b < r PROVE FALSE
    BY <1>5, <2>0
  <2>2. PICK z \in Nat : r = (b + 1) + z
    <3>1. r - (b + 1) \in Nat /\ r = (b + 1) + (r - (b + 1))
      BY <1>5, <2>0, <2>1
    <3> QED BY <3>1
  <2>3. F * r = b * F + F + F * z
    BY <1>2, <1>5, <2>2
  <2>4. F * z \in Nat /\ b * F \in Nat /\ F * r <= TopBit - 1
    BY <1>2, <1>3, <1>5
  <2> QED BY <1>2, <1>5, <2>3, <2>4
<1>7. b \in Bounding
  BY <1>5, <1>6 DEF Bounding
<1>8. 2 * (Period * b) = b * F
  BY <1>4, <1>5
<1> QED BY <1>5, <1>7, <1>8

(* The reward of a block, in a period with e = 2^c.                        *)
LEMMA BlockReward ==
    ASSUME TimesInd, initial_rewards_per_block \in Amounts,
           NEW p \in Producers, Rewarded(p), ~Traps(p)
    PROVE  /\ Two(cur_period) \in Nat \ {0}
           /\ rewards_per_block \in Nat
           /\ Two(cur_period) * rewards_per_block <= initial_rewards_per_block
<1> DEFINE c == cur_period
           x == initial_rewards_per_block
           rew == rewards_per_block
<1>1. cur_period < Width
  BY HalvingPart DEF HalvingInv
<1>2. rew = x \div Two(c)
  BY <1>1, HalvingPart DEF HalvingInv, Two
<1>3. Started
  BY DEF Rewarded, Started
<1>4. c \in 0..MaxTime /\ x \in Nat
  BY <1>3, CurPeriod, AmountsRange
<1>5. Two(c) \in Nat \ {0}
  <2>1. c \in 0..(Width + MaxTime)
    BY <1>4, Halvings
  <2> QED BY <2>1, Halvings
<1> DEFINE e == Two(c)
<1> HIDE DEF c, x, rew, e
<1>6. rew \in Nat /\ rew * e <= x
  BY <1>2, <1>4, <1>5, Division DEF e
<1>7. e * rew = rew * e
  BY <1>5, <1>6 DEF e
<1> QED BY <1>5, <1>6, <1>7 DEF c, x, rew, e

(* The ceiling of the next block, from the one of this block with its      *)
(* reward added.                                                           *)
LEMMA BelowNext ==
    ASSUME TimesInd, Started, TimesInd', now' = now + 1,
           reward_started_time' = reward_started_time,
           NEW b \in Nat, NEW t \in Nat,
           Below(Two(cur_period), t, Period,
                 ((now - reward_started_time) - cur_period * Period) + 1, b)
    PROVE  Below(Two(cur_period'), t, Period,
                 (now' - reward_started_time') - cur_period' * Period, b)
<1> DEFINE c == cur_period
           x == now - reward_started_time
<1>1. c \in Nat /\ Period \in Nat \ {0} /\ c * Period <= x /\ x < c * Period + Period
      /\ c \in 0..MaxTime
  BY CurPeriod
<1>2. x \in Int /\ now' - reward_started_time' = x + 1
  BY DEF TimesInd
<1>3. cur_period' = IF x + 1 < c * Period + Period THEN c ELSE c + 1
  BY NextPeriod
<1>4. Two(c) \in Nat \ {0} /\ Two(c + 1) = 2 * Two(c)
  <2>1. c \in 0..(Width + MaxTime)
    BY <1>1, Halvings
  <2> QED BY <2>1, Halvings
<1>5. Below(Two(c), t, Period, (x - c * Period) + 1, b)
  OBVIOUS
<1> DEFINE d == cur_period'
           y == now' - reward_started_time'
<1>6. d = (IF x + 1 < c * Period + Period THEN c ELSE c + 1) /\ y = x + 1
  BY <1>2, <1>3
<1> SUFFICES Below(Two(d), t, Period, y - d * Period, b)
  OBVIOUS
<1> HIDE DEF c, x, d, y
<1>7. c * Period \in Nat
  BY <1>1
<1>8. CASE x + 1 < c * Period + Period
  <2>1. d = c /\ y - c * Period = (x - c * Period) + 1
    BY <1>2, <1>6, <1>7, <1>8
  <2> QED BY <1>5, <2>1
<1>9. CASE ~(x + 1 < c * Period + Period)
  <2>1. (c + 1) * Period = c * Period + Period
    BY <1>1
  <2>2. (x - c * Period) + 1 = Period /\ y - (c + 1) * Period = 0 /\ d = c + 1
    BY <1>1, <1>2, <1>6, <1>7, <1>9, <2>1
  <2>3. Below(2 * Two(c), t, Period, 0, b)
    BY <1>1, <1>4, <1>5, <2>2, BelowDouble
  <2> QED BY <1>4, <2>2, <2>3
<1> QED BY <1>8, <1>9

LEMMA BelowLater ==
    ASSUME TimesInd, Started, NEW b \in Nat, NEW t \in Nat,
           Below(Two(cur_period), t, Period,
                 (now - reward_started_time) - cur_period * Period, b)
    PROVE  Below(Two(cur_period), t, Period,
                 ((now - reward_started_time) - cur_period * Period) + 1, b)
<1> DEFINE c == cur_period
           off == (now - reward_started_time) - cur_period * Period
           e == Two(c)
<1>1. c \in Nat /\ Period \in Nat \ {0} /\ c * Period <= now - reward_started_time
      /\ now - reward_started_time < c * Period + Period /\ c \in 0..MaxTime
  BY CurPeriod
<1>2. off \in 0..(Period - 1)
  <2>1. c * Period \in Nat /\ now - reward_started_time \in Int
    BY <1>1 DEF TimesInd
  <2> HIDE DEF c
  <2> QED BY <1>1, <2>1 DEF c
<1>3. e \in Nat \ {0}
  <2>1. c \in 0..(Width + MaxTime)
    BY <1>1, Halvings
  <2> QED BY <2>1, Halvings
<1>4. Below(e, t, Period, off, b)
  OBVIOUS
<1> SUFFICES Below(e, t, Period, off + 1, b)
  OBVIOUS
<1> HIDE DEF e, off, c
<1>5. e * 0 <= b /\ t + 0 = t
  BY <1>3
<1>6. Below(e, t + 0, Period, off + 1, b)
  BY <1>1, <1>2, <1>3, <1>4, <1>5, BelowAdd
<1> QED BY <1>5, <1>6

(* Twice a period of some amount that covers every reward fits.            *)
Fitting == \E b \in Bounding : 2 * (Period * b) <= TopBit - 1

(* Nothing is produced before the start.                                   *)
LEMMA NothingBefore ==
    ASSUME PayInd, ~Started
    PROVE  total_produced_rewards = 0
BY DEF PayInd, TimesInd, RewardTimesInv, Started

LEMMA CeilingBound ==
    ASSUME PayInd, Fitting
    PROVE  /\ \A b \in Bounding : total_produced_rewards <= 2 * (Period * b)
           /\ total_produced_rewards <= TopBit - 1
           /\ initial_rewards_per_block <= TopBit - 1
<1> DEFINE c == cur_period
           x == now - reward_started_time
           t == total_produced_rewards
<1>0. TimesInd /\ t \in Nat /\ Period \in Nat \ {0} /\ TopBit \in Nat \ {0}
  BY ProducerPayAssumption, HalfRange DEF PayInd, Period
<1>1. ASSUME NEW b \in Bounding PROVE t <= 2 * (Period * b)
  <2>0. b \in Nat
    BY DEF Bounding
  <2>1. CASE ~Started
    <3>1. t = 0 /\ 2 * (Period * b) \in Nat
      BY <1>0, <2>0, <2>1, NothingBefore
    <3> QED BY <3>1
  <2>2. CASE Started
    <3>1. c \in Nat /\ c * Period <= x /\ x < c * Period + Period /\ c \in 0..MaxTime
      BY <1>0, <2>2, CurPeriod
    <3>2. x \in Int /\ c * Period \in Nat
      BY <1>0, <3>1 DEF TimesInd
    <3>3. Below(Two(c), t, Period, x - c * Period, b)
      BY <2>2 DEF PayInd
    <3>4. Two(c) \in Nat \ {0}
      <4>1. c \in 0..(Width + MaxTime)
        BY <3>1, Halvings
      <4> QED BY <4>1, Halvings
    <3> HIDE DEF c, x, t
    <3>5. x - c * Period \in 0..Period
      BY <1>0, <3>1, <3>2
    <3> QED BY <1>0, <2>0, <3>3, <3>4, <3>5, BelowBound
  <2> QED BY <2>1, <2>2
<1>2. PICK b \in Bounding : 2 * (Period * b) <= TopBit - 1
  BY DEF Fitting
<1>3. t <= 2 * (Period * b) /\ b \in Nat /\ 2 * (Period * b) \in Nat
  BY <1>0, <1>1 DEF Bounding
<1>4. b <= 2 * (Period * b)
  BY <1>0, <1>3
<1>5. initial_rewards_per_block <= b /\ initial_rewards_per_block \in Nat
  BY DEF PayInd
<1> QED BY <1>0, <1>1, <1>2, <1>3, <1>4, <1>5

LEMMA UncreditedBlock ==
    ASSUME PayInd, TimesInd', now' = now + 1,
           UNCHANGED <<election_activated_time, reward_started_time,
                       initial_rewards_per_block, total_produced_rewards,
                       total_unclaimed_rewards, registered, unclaimed_rewards>>
    PROVE  PayInd'
<1>0. TimesInd /\ total_produced_rewards \in Nat
  BY DEF PayInd
<1>1. /\ initial_rewards_per_block' \in Nat
      /\ \A b \in Bounding : initial_rewards_per_block' <= b
      /\ registered' \subseteq Producers
      /\ total_produced_rewards' \in Nat
      /\ unclaimed_rewards' \in [Producers -> Nat]
      /\ total_produced_rewards' = SumFunctionOnSet(unclaimed_rewards', Producers)
      /\ total_unclaimed_rewards' = total_produced_rewards'
  BY DEF PayInd
<1>2. ASSUME Started', NEW b \in Bounding
      PROVE  Below(Two(cur_period'), total_produced_rewards', Period,
                   (now' - reward_started_time') - cur_period' * Period, b)
  <2>0. b \in Nat
    BY DEF Bounding
  <2>1. CASE Started
    <3>1. Below(Two(cur_period), total_produced_rewards, Period,
                ((now - reward_started_time) - cur_period * Period) + 1, b)
      BY <1>0, <2>0, <2>1, BelowLater DEF PayInd
    <3>2. Below(Two(cur_period'), total_produced_rewards, Period,
                (now' - reward_started_time') - cur_period' * Period, b)
      BY <1>0, <2>0, <2>1, <3>1, BelowNext
    <3> QED BY <3>2
  <2>2. CASE ~Started
    <3>1. total_produced_rewards' = 0
      BY <2>2, NothingBefore
    <3>2. now' - reward_started_time' = 0
      BY <1>0, <1>2, <2>2 DEF Started, TimesInd
    <3>3. cur_period' = 0 /\ Period \in Nat \ {0}
      <4>1. (TimesInd /\ Started =>
               /\ cur_period \in Nat /\ Period \in Nat \ {0}
               /\ cur_period * Period <= now - reward_started_time
               /\ now - reward_started_time < cur_period * Period + Period
               /\ cur_period \in 0..MaxTime)'
        BY CurPeriod, PTL
      <4> DEFINE d == cur_period'
      <4>2. d \in Nat /\ Period \in Nat \ {0} /\ d * Period <= now' - reward_started_time'
        BY <1>2, <4>1 DEF Period
      <4>3. d * Period <= 0
        BY <3>2, <4>2
      <4> HIDE DEF d
      <4>4. d = 0
        <5>1. d <= d * Period
          BY <4>2
        <5> QED BY <4>2, <4>3, <5>1
      <4> QED BY <4>2, <4>4 DEF d
    <3>4. Below(Two(0), 0, Period, 0 - 0 * Period, b)
      <4>1. Period * b \in Nat /\ (0 - 0 * Period) * b = 0 /\ Two(0) = 1
        BY <2>0, <3>3, Halvings
      <4> QED BY <4>1 DEF Below
    <3> QED BY <3>1, <3>2, <3>3, <3>4
  <2> QED BY <2>1, <2>2
<1> QED BY <1>1, <1>2 DEF PayInd, Period, Bounding

LEMMA CreditedBlock ==
    ASSUME PayInd, Fitting, TimesInd', NEW p \in Producers, Rewarded(p), onblockPays(p)
    PROVE  PayInd'
<1> DEFINE rew == rewards_per_block
           t == total_produced_rewards
           u == unclaimed_rewards
           c == cur_period
           off == (now - reward_started_time) - c * Period
<1>0. TimesInd /\ t \in Nat /\ u \in [Producers -> Nat] /\ Started /\ TopBit \in Nat \ {0}
      /\ t = SumFunctionOnSet(u, Producers) /\ IsFiniteSet(Producers)
  BY HalfRange, ProducerPayAssumption DEF PayInd, Rewarded, Started
<1>1. initial_rewards_per_block \in Amounts
  BY CeilingBound, AmountsRange DEF PayInd
<1>2. Two(c) \in Nat \ {0} /\ rew \in Nat /\ Two(c) * rew <= initial_rewards_per_block
  BY <1>0, <1>1, BlockReward DEF onblockPays
<1>3. ASSUME NEW b \in Bounding
      PROVE  /\ Below(Two(c), t + rew, Period, off + 1, b)
             /\ t + rew <= 2 * (Period * b)
             /\ b \in Nat
  <2>0. b \in Nat
    BY DEF Bounding
  <2>1. Below(Two(c), t, Period, off, b)
    BY <1>0 DEF PayInd
  <2>2. c \in Nat /\ Period \in Nat \ {0} /\ c * Period <= now - reward_started_time
        /\ now - reward_started_time < c * Period + Period
    BY <1>0, CurPeriod
  <2>3. off \in 0..(Period - 1)
    <3>1. c * Period \in Nat /\ now - reward_started_time \in Int
      BY <1>0, <2>2 DEF TimesInd
    <3> HIDE DEF c
    <3> QED BY <2>2, <3>1
  <2>4. Two(c) * rew <= b
    <3> DEFINE s == Two(c) * rew
    <3>1. initial_rewards_per_block <= b /\ initial_rewards_per_block \in Nat
      BY DEF PayInd
    <3>2. s \in Nat /\ s <= initial_rewards_per_block
      BY <1>2
    <3> HIDE DEF s
    <3>3. s <= b
      BY <2>0, <3>1, <3>2
    <3> QED BY <3>3 DEF s
  <2> HIDE DEF c, off, rew, t
  <2> QED BY <1>0, <1>2, <2>0, <2>1, <2>2, <2>3, <2>4, BelowAdd
<1>4. t + rew <= TopBit - 1
  <2>1. PICK b \in Bounding : 2 * (Period * b) <= TopBit - 1
    BY DEF Fitting
  <2>2. t + rew <= 2 * (Period * b) /\ b \in Nat /\ Period \in Nat
    BY <1>3, ProducerPayAssumption DEF Period
  <2>3. 2 * (Period * b) \in Nat /\ t + rew \in Nat
    BY <1>0, <1>2, <2>2
  <2> HIDE DEF t, rew
  <2> QED BY <1>0, <2>1, <2>2, <2>3
<1>5. u[p] \in Nat /\ u[p] <= t
  BY <1>0, SumBound
<1>6. Wrap(t + rew) = t + rew /\ Wrap(u[p] + rew) = u[p] + rew
  <2> HIDE DEF t, rew, u
  <2>1. t + rew \in Int /\ -TopBit <= t + rew /\ t + rew < TopBit
    BY <1>0, <1>2, <1>4
  <2>2. u[p] + rew \in Int /\ -TopBit <= u[p] + rew /\ u[p] + rew < TopBit
    BY <1>0, <1>2, <1>4, <1>5
  <2> QED BY <2>1, <2>2, WrapId
<1>7. /\ now' = now + 1
      /\ u' = [u EXCEPT ![p] = u[p] + rew]
      /\ total_produced_rewards' = t + rew
      /\ total_unclaimed_rewards' = t + rew
      /\ UNCHANGED <<reward_started_time, initial_rewards_per_block, registered>>
  BY <1>6 DEF onblockPays, Tick, Credited, PayInd
<1>8. u' \in [Producers -> Nat] /\ t + rew \in Nat
  BY <1>0, <1>2, <1>5, <1>7
<1>9. t + rew = SumFunctionOnSet(u', Producers)
  <2>1. IntOn(u, Producers)
    BY <1>0 DEF IntOn
  <2>2. u'[p] = u[p] + rew
    BY <1>0, <1>7
  <2>2a. u'[p] \in Int
    BY <1>2, <1>5, <2>2
  <2>3. DiffersAt(u, u', Producers, p)
    BY <1>0, <1>7 DEF DiffersAt
  <2>4. IsFiniteSet(Producers)
    BY <1>0
  <2>5. SumFunctionOnSet(u', Producers) = SumFunctionOnSet(u, Producers) - u[p] + u'[p]
    BY ONLY <2>1, <2>2a, <2>3, <2>4, SumChange, p \in Producers
  <2> HIDE DEF t, u, rew
  <2> QED BY <1>0, <1>2, <1>5, <2>2, <2>5
<1>10. ASSUME NEW b \in Bounding
       PROVE  Below(Two(cur_period'), total_produced_rewards', Period,
                    (now' - reward_started_time') - cur_period' * Period, b)
  <2>1. reward_started_time' = reward_started_time
    BY <1>7
  <2>2. Below(Two(cur_period'), t + rew, Period,
              (now' - reward_started_time') - cur_period' * Period, b)
    BY <1>0, <1>3, <1>7, <1>8, <2>1, BelowNext
  <2> QED BY <1>7, <2>2
<1>11. /\ initial_rewards_per_block' \in Nat
       /\ \A b \in Bounding : initial_rewards_per_block' <= b
       /\ registered' \subseteq Producers
  BY <1>7 DEF PayInd
<1> QED BY <1>7, <1>8, <1>9, <1>10, <1>11 DEF PayInd, Period, Bounding

LEMMA PayStep == ASSUME Fitting PROVE PayInd /\ [PayNext]_payvars => PayInd'
<1> SUFFICES ASSUME PayInd, [PayNext]_payvars PROVE PayInd'
  OBVIOUS
<1>0. TimesInd' /\ TimesInd
  BY TimesStep DEF PayInd
<1>1. ASSUME UNCHANGED payvars PROVE PayInd'
  <2>1. cur_period' = cur_period /\ (Started' <=> Started)
    BY <1>1 DEF payvars, cur_period, Started
  <2> QED BY <1>0, <1>1, <2>1 DEF payvars, PayInd, Period, Bounding
<1>2. ASSUME NEW e \in 1..MaxTime, NEW r \in 1..MaxTime, NEW a \in Rewards,
             cfgelection(e, r, a)
      PROVE  PayInd'
  <2>1. a \in Nat /\ \A b \in Bounding : a <= b
    <3>1. -(2^(Width - 1))..(2^(Width - 1) - 1) \subseteq Int
      BY HalfRange
    <3>2. a \in Int /\ a >= 0
      BY <1>2, <3>1, ProducerPayAssumption DEF cfgelection, ValidAmount
    <3> QED BY <3>2 DEF Bounding
  <2>2. CASE Started
    <3>1. reward_started_time' = reward_started_time /\ now' = now
      BY <1>0, <1>2, <2>2 DEF cfgelection, Reschedule, Started, TimesInd
    <3>2. cur_period' = cur_period
      BY <3>1 DEF cur_period
    <3> QED BY <1>0, <1>2, <2>1, <2>2, <3>1, <3>2 DEF cfgelection, PayInd, Period, Bounding
  <2>3. CASE ~Started
    <3>1. ~Started'
      BY <1>0, <1>2, <2>3 DEF cfgelection, Reschedule, Started, TimesInd
    <3> QED BY <1>0, <1>2, <2>1, <3>1 DEF cfgelection, PayInd, Bounding
  <2> QED BY <2>2, <2>3
<1>3. ASSUME NEW p \in Producers, regproducer(p) PROVE PayInd'
  <2>1. cur_period' = cur_period /\ (Started' <=> Started)
    BY <1>3 DEF regproducer, cur_period, Started
  <2> QED BY <1>0, <1>3, <2>1 DEF regproducer, PayInd, Period, Bounding
<1>4. ASSUME NEW p \in Producers, onblockPays(p) PROVE PayInd'
  <2>1. CASE Rewarded(p)
    BY <1>0, <1>4, <2>1, CreditedBlock
  <2>2. CASE ~Rewarded(p)
    <3>1. /\ now' = now + 1
          /\ UNCHANGED <<election_activated_time, reward_started_time,
                         initial_rewards_per_block, total_produced_rewards,
                         total_unclaimed_rewards, registered, unclaimed_rewards>>
      BY <1>4, <2>2 DEF onblockPays, Tick
    <3> QED BY <1>0, <3>1, UncreditedBlock
  <2> QED BY <2>1, <2>2
<1>5. ASSUME NEW p \in Producers, onblockTraps(p) PROVE PayInd'
  <2>1. /\ now' = now + 1
        /\ UNCHANGED <<election_activated_time, reward_started_time,
                       initial_rewards_per_block, total_produced_rewards,
                       total_unclaimed_rewards, registered, unclaimed_rewards>>
    BY <1>5 DEF onblockTraps, Missed, Tick
  <2> QED BY <1>0, <2>1, UncreditedBlock
<1>6. CASE PayNext
  BY <1>2, <1>3, <1>4, <1>5, <1>6 DEF PayNext
<1> QED BY <1>1, <1>6

LEMMA PayIndImplies == ASSUME Fitting PROVE PayInd => IssuanceInv
<1> SUFFICES ASSUME PayInd PROVE IssuanceInv
  OBVIOUS
<1> DEFINE t == total_produced_rewards
           u == unclaimed_rewards
<1>1. t <= TopBit - 1 /\ initial_rewards_per_block <= TopBit - 1
      /\ \A b \in Bounding : t <= 2 * (Period * b)
  BY CeilingBound
<1>2. TopBit \in Nat \ {0} /\ Amounts = 0..(TopBit - 1)
  BY AmountsRange
<1>3. IsFiniteSet(Producers) /\ u \in [Producers -> Nat]
      /\ t = SumFunctionOnSet(u, Producers) /\ t \in Nat
  BY ProducerPayAssumption DEF PayInd
<1>4. t \in Amounts /\ initial_rewards_per_block \in Amounts
  BY <1>1, <1>2 DEF PayInd
<1>5. ASSUME NEW p \in Producers PROVE u[p] \in Amounts
  <2>1. u[p] <= t /\ u[p] \in Nat
    BY <1>3, SumBound
  <2> QED BY <1>1, <1>2, <1>3, <2>1
<1>6. PayTypeOK
  BY <1>3, <1>4, <1>5 DEF PayTypeOK, PayInd, TimesInd
<1>7. HalvingInv
  BY <1>4, HalvingPart DEF PayInd
<1>8. ASSUME NEW most \in Rewards, \A r \in Rewards : r <= most
      PROVE  t <= 2 * (2 * HalvingPeriodSeconds) * most
  <2>1. -(2^(Width - 1))..(2^(Width - 1) - 1) \subseteq Int
    BY HalfRange
  <2>2. most \in Int /\ \A r \in Rewards : r \in Int
    BY <2>1, ProducerPayAssumption
  <2>3. most \in Nat
    <3>1. PICK r \in Rewards : r >= 0
      BY ProducerPayAssumption
    <3> QED BY <1>8, <2>2, <3>1
  <2>4. most \in Bounding
    BY <1>8, <2>3 DEF Bounding
  <2>5. t <= 2 * (Period * most)
    BY <1>1, <2>4
  <2>6. 2 * (Period * most) = 2 * (2 * HalvingPeriodSeconds) * most
    BY <2>3, ProducerPayAssumption DEF Period
  <2> QED BY <2>5, <2>6
<1> QED BY <1>3, <1>6, <1>7, <1>8 DEF IssuanceInv, PayInd

(* When two periods of the largest first reward fit an int64_t, onblock    *)
(* never credits more than that, however long the chain runs and however   *)
(* cfgelection changes the reward: no sum wraps, the totals are what the   *)
(* producers are credited with, and the reward halves in every period      *)
(* until the divisor is 0.                                                 *)
THEOREM IssuanceBounded ==
    ASSUME \A r \in Rewards : 4 * HalvingPeriodSeconds * r <= 2^(Width - 1) - 1
    PROVE  PaySpec => []IssuanceInv
<1>1. Fitting
  BY Fits DEF Fitting
<1>2. PayInd /\ [PayNext]_payvars => PayInd'
  BY <1>1, PayStep
<1>3. PayInd => IssuanceInv
  BY <1>1, PayIndImplies
<1> QED BY <1>2, <1>3, PayStart, PTL DEF PaySpec

-----------------------------------------------------------------------------
(* BlockInfo.                                                              *)

(* The largest of some numbers up to n.                                    *)
LEMMA MaxOf ==
    ASSUME NEW n \in Nat, NEW S \in SUBSET (0..n), S # {}
    PROVE  Max(S) \in S /\ \A x \in S : x <= Max(S)
<1> DEFINE U == {k \in Nat : \A x \in S : x <= k}
<1>1. n \in U
  OBVIOUS
<1>2. PICK k \in U : \A j \in U : k <= j
  <2>1. U \in SUBSET Nat /\ U # {}
    BY <1>1
  <2> HIDE DEF U
  <2> QED BY <2>1, LeastExists
<1>3. k \in S
  <2>1. SUFFICES ASSUME k \notin S PROVE FALSE
    OBVIOUS
  <2>2. k \in Nat /\ \A x \in S : x \in Nat /\ x <= k /\ x # k
    BY <1>2, <2>1
  <2>3. PICK x \in S : TRUE
    OBVIOUS
  <2>4. k - 1 \in Nat
    BY <2>2, <2>3
  <2>5. k - 1 \in U
    BY <2>2, <2>4
  <2> QED BY <1>2, <2>2, <2>5
<1>4. \E x \in S : \A y \in S : x >= y
  <2>1. \A y \in S : y \in Nat /\ y <= k
    BY <1>2
  <2>2. k \in Nat
    BY <1>2
  <2>3. \A y \in S : k >= y
    BY <2>1, <2>2
  <2> QED BY <1>3, <2>3
<1>5. Max(S) \in S /\ \A y \in S : Max(S) >= y
  BY <1>4 DEF Max
<1> QED BY <1>5

(* It is the only number of them that is not below another.                *)
LEMMA MaxIs ==
    ASSUME NEW n \in Nat, NEW S \in SUBSET (0..n), NEW m \in S, \A x \in S : x <= m
    PROVE  Max(S) = m
<1>1. Max(S) \in S /\ \A x \in S : x <= Max(S)
  BY MaxOf
<1>2. Max(S) \in 0..n /\ m \in 0..n
  BY <1>1
<1>3. Max(S) <= m /\ m <= Max(S)
  BY <1>1
<1> QED BY <1>2, <1>3

LEMMA Prunable ==
    ASSUME NEW n \in Nat
    PROVE  last_prunable_block_height(n)
             = IF n >= RollingWindowSize THEN n - RollingWindowSize ELSE 0
<1> DEFINE W == RollingWindowSize
<1>1. W \in Nat
  BY BlockInfoAssumption
<1>2. CASE n >= W
  <2>1. Max({n, W}) = n
    BY <1>1, <1>2, MaxIs
  <2> QED BY <1>1, <1>2, <2>1 DEF last_prunable_block_height
<1>3. CASE n < W
  <2>1. Max({n, W}) = W
    BY <1>1, <1>3, MaxIs
  <2> QED BY <1>1, <1>3, <2>1 DEF last_prunable_block_height
<1> QED BY <1>1, <1>2, <1>3

(* The inductive invariant of the records.                                 *)
RecordShape ==
    /\ height \in 0..MaxHeight
    /\ DOMAIN slot_of = 0..height
    /\ recorded \in SUBSET (1..height)
    /\ Rows \in SUBSET recorded
    /\ \A h \in Rows : table[h] = slot_of[h]

InfoInd ==
    /\ RecordShape
    /\ Cardinality(Rows) <= RollingWindowSize
    /\ \A h \in recorded : h > Max(recorded) - RollingWindowSize => h \in Rows

(* If the window is full, the oldest row is too old for the next block.    *)
LEMMA OldestErased ==
    ASSUME NEW n \in Nat, NEW rows \in SUBSET (1..n), 
           Cardinality(rows) = RollingWindowSize + 1
    PROVE  \E m \in rows : m \in Erased(rows, last_prunable_block_height(n))
<1> DEFINE W == RollingWindowSize
<1>1. W \in Nat
  BY BlockInfoAssumption
<1>2. IsFiniteSet(rows)
  <2>1. IsFiniteSet(1..n)
    BY FS_Interval
  <2> QED BY <2>1, FS_Subset
<1>3. rows \in SUBSET Nat /\ rows # {}
  BY <1>1, FS_EmptySet
<1>4. PICK m \in rows : \A j \in rows : m <= j
  BY <1>3, LeastExists
<1>5. rows \in SUBSET (m..n) /\ m \in 1..n
  BY <1>4
<1>6. Cardinality(m..n) = n - m + 1 /\ IsFiniteSet(m..n)
  BY <1>5, FS_Interval
<1>7. Cardinality(rows) <= Cardinality(m..n)
  BY <1>5, <1>6, FS_Subset
<1>8. W + 1 <= n - m + 1
  BY <1>6, <1>7
<1>9. m <= last_prunable_block_height(n)
  BY <1>1, <1>5, <1>8, Prunable
<1>10. Cardinality({g \in rows : g < m}) = 0
  <2>1. \A g \in rows : g \in Nat /\ m \in Nat /\ m <= g
    BY <1>3, <1>4
  <2>2. {g \in rows : g < m} = {}
    <3>1. ASSUME NEW g \in rows PROVE ~(g < m)
      BY <2>1
    <3> QED BY <3>1
  <2> QED BY <2>2, FS_EmptySet
<1>11. Cardinality({g \in rows : g < m}) < 2
  BY <1>10
<1> QED BY <1>9, <1>11 DEF Erased

LEMMA RecordsInd ==
    ASSUME InfoInd, NEW slot, onblockRecords(slot)
    PROVE  InfoInd'
<1> DEFINE W == RollingWindowSize
           new == height + 1
           rows == Rows \cup (IF W > 0 THEN {new} ELSE {})
           gone == Erased(rows, last_prunable_block_height(new))
           kept == rows \ gone
<1>1. W \in Nat /\ height \in Nat /\ new \in Nat /\ new \in 0..MaxHeight
  BY BlockInfoAssumption DEF InfoInd, RecordShape, onblockRecords, Block
<1>2. table' = [h \in kept |-> IF h = new THEN slot ELSE table[h]]
  BY DEF onblockRecords, add_to_blockinfo_table, new_block_height
<1>3. Rows' = kept
  BY <1>2 DEF Rows
<1>4. height' = new /\ recorded' = recorded \cup {new}
  BY DEF onblockRecords, Block
<1>5. slot_of' = [h \in 0..new |-> IF h = new THEN slot ELSE slot_of[h]]
  BY DEF onblockRecords, Block
<1>6. recorded \in SUBSET (1..height) /\ Rows \in SUBSET recorded
  BY DEF InfoInd, RecordShape
<1>7. rows \in SUBSET (1..new) /\ new \notin Rows
  BY <1>1, <1>6
<1>8. recorded' \in SUBSET (1..new) /\ kept \in SUBSET recorded'
  <2>1. recorded' \in SUBSET (1..new)
    BY <1>1, <1>4, <1>6
  <2>2. rows \in SUBSET recorded'
    BY <1>4, <1>6
  <2> QED BY <2>1, <2>2
<1>9. ASSUME NEW h \in kept PROVE table'[h] = slot_of'[h]
  <2>1. CASE h = new
    BY <1>1, <1>2, <1>5, <1>9, <2>1
  <2>2. CASE h # new
    <3>1. h \in Rows /\ h \in 0..new
      BY <1>7, <1>9, <2>2
    <3>2. table[h] = slot_of[h]
      BY <3>1 DEF InfoInd, RecordShape
    <3>3. table'[h] = table[h]
      BY <1>2, <1>9, <2>2
    <3>4. slot_of'[h] = slot_of[h]
      BY <1>5, <2>2, <3>1
    <3> QED BY <3>2, <3>3, <3>4
  <2> QED BY <2>1, <2>2
<1>10. RecordShape'
  <2>1. DOMAIN slot_of' = 0..new
    BY <1>5
  <2> QED BY <1>1, <1>3, <1>4, <1>8, <1>9, <2>1 DEF RecordShape
<1>11. Cardinality(Rows') <= W
  <2>1. IsFiniteSet(Rows) /\ Cardinality(Rows) \in Nat /\ Cardinality(Rows) <= W
    <3>1. IsFiniteSet(1..height)
      BY <1>1, FS_Interval
    <3>2. IsFiniteSet(Rows)
      BY <1>6, <3>1, FS_Subset
    <3> QED BY <3>2, FS_CardinalityType DEF InfoInd
  <2>2. IsFiniteSet(rows) /\ Cardinality(rows) \in Nat
        /\ Cardinality(rows) <= (IF W > 0 THEN W + 1 ELSE W)
    <3>1. CASE W > 0
      <4>1. rows = Rows \cup {new}
        BY <3>1
      <4>2. IsFiniteSet(rows) /\ Cardinality(rows) = Cardinality(Rows) + 1
        BY <1>7, <2>1, <4>1, FS_AddElement
      <4> HIDE DEF rows
      <4> QED BY <1>1, <2>1, <3>1, <4>2
    <3>2. CASE ~(W > 0)
      BY <2>1, <3>2
    <3> QED BY <3>1, <3>2
  <2> HIDE DEF rows
  <2>3. IsFiniteSet(kept) /\ Cardinality(kept) \in Nat /\ Cardinality(kept) <= Cardinality(rows)
    BY <2>2, FS_Subset, FS_CardinalityType
  <2>4. CASE Cardinality(rows) <= W
    BY <1>1, <1>3, <2>2, <2>3, <2>4
  <2>5. CASE Cardinality(rows) = W + 1
    <3>1. PICK m \in rows : m \in gone
      BY <1>1, <1>7, <2>5, OldestErased
    <3>2. Cardinality(rows \ {m}) = W /\ IsFiniteSet(rows \ {m})
      BY <1>1, <2>2, <2>5, <3>1, FS_RemoveElement
    <3>3. kept \in SUBSET (rows \ {m})
      BY <3>1
    <3>4. Cardinality(kept) <= W
      BY <3>2, <3>3, FS_Subset
    <3> QED BY <1>3, <3>4
  <2> QED BY <1>1, <2>2, <2>4, <2>5
<1>12. Max(recorded') = new
  <2>1. recorded' \in SUBSET (0..new) /\ new \in recorded' /\ \A x \in recorded' : x <= new
    BY <1>1, <1>4, <1>8
  <2> QED BY <1>1, <2>1, MaxIs
<1>13. ASSUME NEW h \in recorded', h > new - W PROVE h \in Rows'
  <2>0. h \in 1..new /\ W > 0
    BY <1>1, <1>8, <1>13
  <2>1. h \in rows
    <3>1. CASE h = new
      BY <2>0, <3>1
    <3>2. CASE h # new
      <4>1. h \in recorded
        BY <1>4, <3>2
      <4>2. Max(recorded) \in recorded
        <5>1. recorded \in SUBSET (0..height) /\ recorded # {}
          BY <1>6, <4>1
        <5> QED BY <1>1, <5>1, MaxOf
      <4>3. Max(recorded) \in 1..height
        BY <1>6, <4>2
      <4>4. h > Max(recorded) - W
        BY <1>1, <1>13, <2>0, <4>3
      <4> QED BY <4>1, <4>4 DEF InfoInd
    <3> QED BY <3>1, <3>2
  <2>2. h \notin gone
    <3>1. h > last_prunable_block_height(new)
      BY <1>1, <1>13, <2>0, Prunable
    <3>2. last_prunable_block_height(new) \in Int /\ h \in Int
      BY <1>1, <2>0, Prunable
    <3> QED BY <3>1, <3>2 DEF Erased
  <2> QED BY <1>3, <2>1, <2>2
<1> QED BY <1>10, <1>11, <1>12, <1>13 DEF InfoInd

LEMMA FailsInd ==
    ASSUME InfoInd, NEW slot, onblockFails(slot)
    PROVE  InfoInd'
<1>1. height \in Nat /\ height + 1 \in 0..MaxHeight /\ recorded \in SUBSET (1..height)
      /\ Rows \in SUBSET recorded
  BY BlockInfoAssumption DEF InfoInd, RecordShape, onblockFails, Block
<1>2. height' = height + 1 /\ Rows' = Rows /\ recorded' = recorded /\ table' = table
  BY DEF onblockFails, Block, Rows
<1>3. slot_of' = [h \in 0..(height + 1) |->
                    IF h = height + 1 THEN slot ELSE slot_of[h]]
  BY DEF onblockFails, Block
<1>4. ASSUME NEW h \in Rows PROVE table'[h] = slot_of'[h]
  <2>1. table[h] = slot_of[h]
    BY DEF InfoInd, RecordShape
  <2>2. h \in 0..(height + 1) /\ h # height + 1
    BY <1>1
  <2> QED BY <1>2, <1>3, <2>1, <2>2
<1>5. DOMAIN slot_of' = 0..(height + 1) /\ recorded \in SUBSET (1..(height + 1))
  BY <1>1, <1>3
<1>6. RecordShape'
  BY <1>1, <1>2, <1>4, <1>5 DEF RecordShape
<1> QED BY <1>2, <1>6 DEF InfoInd

LEMMA InfoNextInd == InfoInd /\ [InfoNext]_infovars => InfoInd'
<1> SUFFICES ASSUME InfoInd, [InfoNext]_infovars PROVE InfoInd'
  OBVIOUS
<1>1. CASE UNCHANGED infovars
  BY <1>1 DEF infovars, InfoInd, RecordShape, Rows
<1>2. CASE InfoNext
  BY <1>1, <1>2, RecordsInd, FailsInd DEF InfoNext
<1> QED BY <1>1, <1>2

LEMMA InfoInitInd == InfoInit => InfoInd
<1> SUFFICES ASSUME InfoInit PROVE InfoInd
  OBVIOUS
<1>1. Rows = {} /\ recorded = {}
  BY DEF InfoInit, Rows
<1>2. Cardinality({}) = 0
  BY FS_EmptySet
<1>3. RecordShape
  BY <1>1, BlockInfoAssumption DEF InfoInit, RecordShape
<1> QED BY <1>1, <1>2, <1>3, BlockInfoAssumption DEF InfoInd

(* The rows of the blockinfo table are recorded blocks, no more than the   *)
(* window has, and the recorded blocks of the window are all there.        *)
THEOREM InfoInduction == InfoSpec => []InfoInd
BY InfoInitInd, InfoNextInd, PTL DEF InfoSpec

LEMMA WindowPart == InfoInd => WindowInv
<1> SUFFICES ASSUME InfoInd PROVE WindowInv
  OBVIOUS
<1>1. recorded \in SUBSET (1..height) /\ Rows \in SUBSET recorded /\ height \in 0..MaxHeight
  BY DEF InfoInd, RecordShape
<1>2. recorded \subseteq 0..height /\ Rows \subseteq 0..height
  BY <1>1
<1> QED BY <1>1, <1>2 DEF InfoInd, RecordShape, WindowInv, InfoTypeOK

(* add_to_blockinfo_table keeps the window, however many blocks onblock    *)
(* missed before it prunes again.                                          *)
THEOREM WindowCorrect == InfoSpec => []WindowInv
BY InfoInduction, WindowPart, PTL

LEMMA BatchStart ==
    ASSUME NEW end \in Nat, NEW offset \in 0..end, NEW size \in Nat \ {0}
    PROVE  LET start == batch_start_height(end, offset, size) IN
           /\ start \in offset..end
           /\ \E k \in 0..end : start = offset + k * size
           /\ end < start + size
<1> DEFINE d == end - offset
           k == d \div size
           start == end - (d % size)
<1>1. d \in Nat /\ d <= end
  OBVIOUS
<1>2. k \in Int /\ d = size * k + (d % size) /\ d % size \in 0..(size - 1)
  <2> HIDE DEF d
  <2> QED BY <1>1
<1>3. k \in Nat
  <2>1. ASSUME k < 0 PROVE FALSE
    <3>1. k <= -1
      BY <1>2, <2>1
    <3> HIDE DEF k, d
    <3>2. size * k <= size * (-1)
      BY <1>2, <3>1
    <3> QED BY <1>1, <1>2, <3>2
  <2> QED BY <1>2, <2>1
<1> HIDE DEF d, k
<1>4. size * k \in Nat /\ k <= size * k /\ size * k = k * size
  BY <1>3
<1>5. start = offset + k * size
  BY <1>1, <1>2, <1>4 DEF d
<1>6. k \in 0..end
  BY <1>1, <1>2, <1>3, <1>4
<1>7. start \in offset..end /\ end < start + size
  BY <1>1, <1>2, <1>4, <1>5 DEF d
<1> QED BY <1>5, <1>6, <1>7 DEF batch_start_height, d

(* It computes the batch of the definition.                                *)
LEMMA BatchIsLatest ==
    ASSUME NEW end \in Nat, NEW offset \in 0..end, NEW size \in Nat \ {0}
    PROVE  batch_start_height(end, offset, size) = LatestBatch(offset, size, end)
<1> DEFINE start == batch_start_height(end, offset, size)
           b == LatestBatch(offset, size, end)
<1>1. /\ start \in offset..end
      /\ \E k \in 0..end : start = offset + k * size
      /\ end < start + size
  BY BatchStart
<1>2. /\ b \in offset..end
      /\ \E k \in 0..end : b = offset + k * size
      /\ end < b + size
  <2> HIDE DEF start
  <2> QED BY <1>1 DEF LatestBatch
<1> HIDE DEF start, b
<1>3. PICK k \in 0..end : start = offset + k * size
  BY <1>1
<1>4. PICK j \in 0..end : b = offset + j * size
  BY <1>2
<1>5. j * size \in Nat /\ k * size \in Nat
  OBVIOUS
<1>6. k * size <= end - offset /\ end - offset < k * size + size
  BY <1>1, <1>3, <1>5
<1>7. j * size <= end - offset /\ end - offset < j * size + size
  BY <1>2, <1>4, <1>5
<1>8. j = k
  BY <1>6, <1>7, Multiples
<1> QED BY <1>3, <1>4, <1>8 DEF start, b

LEMMA BatchPart == InfoInd => BatchInv
<1> SUFFICES ASSUME InfoInd,
                    NEW offset \in 0..MaxHeight, NEW size \in 1..(RollingWindowSize + 1),
                    Rows # {}, offset <= Max(Rows)
             PROVE  LET answer == get_latest_block_batch_info(offset, size)
                        end == Max(Rows)
                        start == LatestBatch(offset, size, end)
                    IN  /\ answer.error_code = "no_error" =>
                              /\ answer.batch_start_height = start
                              /\ answer.batch_start_timestamp = slot_of[start]
                              /\ answer.batch_current_end_height = end
                              /\ answer.batch_current_end_timestamp = slot_of[end]
                        /\ size <= RollingWindowSize /\ start..end \subseteq recorded
                              => answer.error_code = "no_error"
  BY DEF BatchInv
<1> DEFINE W == RollingWindowSize
           answer == get_latest_block_batch_info(offset, size)
           end == Max(Rows)
           start == batch_start_height(end, offset, size)
<1>1. W \in Nat /\ height \in Nat /\ MaxHeight \in Nat
  BY BlockInfoAssumption DEF InfoInd, RecordShape
<1>2. recorded \in SUBSET (1..height) /\ Rows \in SUBSET recorded
  BY DEF InfoInd, RecordShape
<1>3. /\ recorded \in SUBSET (0..height) /\ recorded # {}
      /\ Rows \in SUBSET (0..height) /\ Rows # {}
  <2>1. \A x \in recorded : x \in 0..height
    BY <1>2
  <2>2. \A x \in Rows : x \in recorded
    BY <1>2
  <2> QED BY <2>1, <2>2
<1>4. end \in Rows /\ \A x \in Rows : x <= end
  BY <1>1, <1>3, MaxOf
<1>5. Max(recorded) \in recorded /\ \A x \in recorded : x <= Max(recorded)
  BY <1>1, <1>3, MaxOf
<1>6. end \in 0..height /\ Max(recorded) \in 0..height
  BY <1>3, <1>4, <1>5
<1>7. LatestBatch(offset, size, end) = start
  <2>1. offset \in 0..end /\ end \in Nat /\ size \in Nat \ {0}
    BY <1>1, <1>6
  <2> QED BY <2>1, BatchIsLatest
<1>8. /\ start \in offset..end /\ end < start + size
  <2>1. offset \in 0..end /\ end \in Nat /\ size \in Nat \ {0}
    BY <1>1, <1>6
  <2> QED BY <2>1, BatchStart
<1>9. answer = IF start \in Rows
                THEN [ error_code |-> "no_error",
                       batch_start_height |-> start,
                       batch_start_timestamp |-> table[start],
                       batch_current_end_height |-> end,
                       batch_current_end_timestamp |-> table[end] ]
                ELSE error("insufficient_data")
  <2>1. size # 0 /\ ~(end < offset)
    BY <1>1, <1>6
  <2> QED BY <2>1 DEF get_latest_block_batch_info
<1> HIDE DEF answer, start, end
<1>10. ASSUME answer.error_code = "no_error"
       PROVE  /\ answer.batch_start_height = start
              /\ answer.batch_start_timestamp = slot_of[start]
              /\ answer.batch_current_end_height = end
              /\ answer.batch_current_end_timestamp = slot_of[end]
  <2>1. start \in Rows
    <3>1. error("insufficient_data").error_code # "no_error"
      BY DEF error
    <3> QED BY <1>9, <1>10, <3>1
  <2>2. table[start] = slot_of[start] /\ table[end] = slot_of[end]
    BY <1>4, <2>1 DEF InfoInd, RecordShape
  <2> QED BY <1>9, <2>1, <2>2
<1>11. ASSUME size <= W, start..end \subseteq recorded
       PROVE  answer.error_code = "no_error"
  <2>1. Max(recorded) \in Rows
    <3>1. W > 0
      BY <1>1, <1>11
    <3>2. Max(recorded) > Max(recorded) - W
      BY <1>1, <1>6, <3>1
    <3> QED BY <1>5, <3>2 DEF InfoInd
  <2>2. Max(recorded) = end
    <3>1. Max(recorded) <= end
      BY <1>4, <2>1
    <3>2. end <= Max(recorded)
      BY <1>2, <1>4, <1>5
    <3> QED BY <1>6, <3>1, <3>2
  <2>3. start \in recorded
    <3>1. start \in start..end
      BY <1>1, <1>6, <1>8
    <3> QED BY <1>11, <3>1
  <2>4. start > Max(recorded) - W
    BY <1>1, <1>6, <1>8, <1>11, <2>2
  <2>5. start \in Rows
    BY <2>3, <2>4 DEF InfoInd
  <2> QED BY <1>9, <2>5
<1> QED BY <1>7, <1>10, <1>11 DEF answer, start, end

(* get_latest_block_batch_info answers with the last batch of the records, *)
(* and does answer when the batch fits the window and has no gap.          *)
THEOREM BatchCorrect == InfoSpec => []BatchInv
BY InfoInduction, BatchPart, PTL
=============================================================================
