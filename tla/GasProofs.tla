----------------------------- MODULE GasProofs ------------------------------
(***************************************************************************)
(* Theorems about the ledger of Token and about Gas, for any finite set of *)
(* accounts, any symbols and any limits.                                   *)
(***************************************************************************)
EXTENDS Gas, SumTheorems

Holdings(s) == [a \in Accounts |-> balance[a][s]]

(* The inductive invariant of the ledger.  An account without a row has no *)
(* balance: close refuses any other row, so open and add_balance find      *)
(* nothing left from before.                                               *)
LedgerInd ==
    /\ TypeOK
    /\ \A a \in Accounts, s \in Symbols : <<a, s>> \notin rows => balance[a][s] = 0
    /\ \A s \in Symbols :
          /\ stat[s].supply = SumFunctionOnSet(Holdings(s), Accounts)
          /\ stat[s].supply <= stat[s].max_supply
          /\ ~stat[s].exists => stat[s].supply = 0

-----------------------------------------------------------------------------
LEMMA LedgerFields ==
    ASSUME TypeOK, NEW s \in Symbols
    PROVE  /\ MAX_AMOUNT \in Nat
           /\ stat[s].exists \in BOOLEAN
           /\ stat[s].supply \in 0..MAX_AMOUNT
           /\ stat[s].max_supply \in 0..MAX_AMOUNT
           /\ stat[s].issuer \in Accounts
           /\ stat[s] = [ exists |-> stat[s].exists, supply |-> stat[s].supply,
                          max_supply |-> stat[s].max_supply,
                          issuer |-> stat[s].issuer ]
           /\ \A a \in Accounts : balance[a][s] \in 0..MAX_AMOUNT
BY TokenAssumption DEF TypeOK, StatRow

LEMMA HoldingsType ==
    ASSUME TypeOK, NEW s \in Symbols
    PROVE  /\ \A a \in Accounts :
                /\ Holdings(s)[a] = balance[a][s]
                /\ Holdings(s)[a] \in Nat
                /\ Holdings(s)[a] \in Int
           /\ IntOn(Holdings(s), Accounts)
<1>1. \A a \in Accounts : balance[a][s] \in Nat /\ Holdings(s)[a] = balance[a][s]
  BY TokenAssumption DEF TypeOK, Holdings
<1> QED BY <1>1 DEF IntOn

(* Two different summands are together no more than the sum.               *)
LEMMA SumBoundTwo ==
    ASSUME NEW S, IsFiniteSet(S), NEW f, \A y \in S : f[y] \in Nat,
           NEW x \in S, NEW z \in S, x # z
    PROVE  f[x] + f[z] <= SumFunctionOnSet(f, S)
<1>1. IntOn(f, S) /\ IsFiniteSet(S \ {x}) /\ z \in S \ {x}
  BY FS_RemoveElement DEF IntOn
<1>2. f[z] <= SumFunctionOnSet(f, S \ {x})
  BY <1>1, SumBound
<1>3. /\ SumFunctionOnSet(f, S) = f[x] + SumFunctionOnSet(f, S \ {x})
      /\ SumFunctionOnSet(f, S \ {x}) \in Int
  BY <1>1, SumRemove
<1>4. f[x] \in Int /\ f[z] \in Int
  BY <1>1 DEF IntOn
<1> QED BY <1>2, <1>3, <1>4

(* No account has more than the supply, nor two accounts together.         *)
LEMMA HoldingBound ==
    ASSUME LedgerInd, NEW s \in Symbols, NEW a \in Accounts
    PROVE  /\ balance[a][s] <= stat[s].supply
           /\ \A b \in Accounts :
                 a # b => balance[a][s] + balance[b][s] <= stat[s].supply
<1>1. TypeOK /\ IsFiniteSet(Accounts)
  BY TokenAssumption DEF LedgerInd
<1>2. \A c \in Accounts : Holdings(s)[c] \in Nat /\ Holdings(s)[c] = balance[c][s]
  BY <1>1, HoldingsType
<1>3. stat[s].supply = SumFunctionOnSet(Holdings(s), Accounts)
  BY DEF LedgerInd
<1>4. balance[a][s] <= stat[s].supply
  BY <1>1, <1>2, <1>3, SumBound
<1>5. ASSUME NEW b \in Accounts, a # b
      PROVE  balance[a][s] + balance[b][s] <= stat[s].supply
  BY <1>1, <1>2, <1>3, <1>5, SumBoundTwo
<1> QED BY <1>4, <1>5

LEMMA LedgerSupply ==
    ASSUME LedgerInd
    PROVE  SupplyInv
<1>0. TypeOK
  BY DEF LedgerInd
<1>1. ReceiveInv
  <2> SUFFICES ASSUME NEW a \in Accounts, NEW b \in Accounts, NEW s \in Symbols
               PROVE  /\ a # b => add_balance_ok(b, s, balance[a][s])
                      /\ stat[s].exists =>
                           add_balance_ok(b, s, stat[s].max_supply - stat[s].supply)
    BY DEF ReceiveInv
  <2>1. /\ MAX_AMOUNT \in Nat
        /\ stat[s].supply \in 0..MAX_AMOUNT
        /\ stat[s].max_supply \in 0..MAX_AMOUNT
        /\ balance[a][s] \in 0..MAX_AMOUNT
        /\ balance[b][s] \in 0..MAX_AMOUNT
    BY <1>0, LedgerFields
  <2>2. /\ balance[b][s] <= stat[s].supply
        /\ a # b => balance[b][s] + balance[a][s] <= stat[s].supply
    BY HoldingBound
  <2> QED BY <2>1, <2>2 DEF add_balance_ok
<1>2. ASSUME NEW s \in Symbols
      PROVE  stat[s].supply
               = SumFunctionOnSet(
                    [a \in Accounts |-> IF <<a, s>> \in rows THEN balance[a][s] ELSE 0],
                    Accounts)
  <2>1. [a \in Accounts |-> IF <<a, s>> \in rows THEN balance[a][s] ELSE 0]
          = Holdings(s)
    BY DEF LedgerInd, Holdings
  <2> QED BY <2>1 DEF LedgerInd
<1> QED BY <1>0, <1>1, <1>2 DEF SupplyInv, LedgerInd

(* One row changes by d and the supply by as much.                         *)
LEMMA OneRowInd ==
    ASSUME LedgerInd, NEW a \in Accounts, NEW s \in Symbols, NEW d \in Int,
           balance[a][s] + d \in 0..MAX_AMOUNT,
           stat[s].supply + d >= 0,
           stat[s].supply + d <= stat[s].max_supply,
           stat[s].exists,
           stat' = [stat EXCEPT ![s].supply = stat[s].supply + d],
           balance' = [balance EXCEPT ![a][s] = balance[a][s] + d],
           rows' \in SUBSET (Accounts \X Symbols),
           rows \subseteq rows', <<a, s>> \in rows'
    PROVE  LedgerInd'
<1>0. TypeOK /\ IsFiniteSet(Accounts)
  BY TokenAssumption DEF LedgerInd
<1>1. /\ MAX_AMOUNT \in Nat
      /\ stat[s].supply \in 0..MAX_AMOUNT /\ stat[s].max_supply \in 0..MAX_AMOUNT
  BY <1>0, LedgerFields
<1>2. stat[s].supply + d \in 0..MAX_AMOUNT
  BY <1>1
<1>3. /\ stat' \in [Symbols -> StatRow]
      /\ stat'[s].supply = stat[s].supply + d
      /\ stat'[s].max_supply = stat[s].max_supply
      /\ stat'[s].exists
      /\ \A t \in Symbols \ {s} : stat'[t] = stat[t]
  BY <1>0, <1>2 DEF TypeOK, StatRow
<1>4. /\ balance' \in [Accounts -> [Symbols -> 0..MAX_AMOUNT]]
      /\ balance'[a][s] = balance[a][s] + d
      /\ \A b \in Accounts, t \in Symbols :
            b # a \/ t # s => balance'[b][t] = balance[b][t]
  BY <1>0 DEF TypeOK
<1>5. TypeOK'
  BY <1>3, <1>4 DEF TypeOK
<1>6. \A b \in Accounts, t \in Symbols : <<b, t>> \notin rows' => balance'[b][t] = 0
  BY <1>4 DEF LedgerInd
<1>7. ASSUME NEW t \in Symbols
      PROVE  /\ stat'[t].supply = SumFunctionOnSet(Holdings(t)', Accounts)
             /\ stat'[t].supply <= stat'[t].max_supply
             /\ ~stat'[t].exists => stat'[t].supply = 0
  <2>1. CASE t # s
    <3>1. Holdings(t)' = Holdings(t)
      BY <1>4, <2>1 DEF Holdings
    <3> QED BY <1>3, <2>1, <3>1 DEF LedgerInd
  <2>2. CASE t = s
    <3> DEFINE f == Holdings(s)
               h == Holdings(s)'
    <3>0. IntOn(f, Accounts) /\ IsFiniteSet(Accounts)
      BY <1>0, HoldingsType
    <3>1. f[a] = balance[a][s] /\ f[a] \in Int
      BY <1>0, HoldingsType
    <3>2. h[a] = balance[a][s] + d
      BY <1>4 DEF Holdings
    <3>7. h[a] \in Int
      BY <3>1, <3>2
    <3>3. \A b \in Accounts \ {a} : h[b] = f[b]
      BY <1>4 DEF Holdings
    <3>4. stat[s].supply = SumFunctionOnSet(f, Accounts)
      BY DEF LedgerInd
    <3> HIDE DEF f, h
    <3>5. /\ SumFunctionOnSet(h, Accounts) = SumFunctionOnSet(f, Accounts) - f[a] + h[a]
          /\ SumFunctionOnSet(f, Accounts) \in Int
      BY ONLY <3>0, <3>7, <3>3, SumUpdate, a \in Accounts
    <3>6. SumFunctionOnSet(h, Accounts) = stat[s].supply + d
      BY <1>1, <3>1, <3>2, <3>4, <3>5
    <3> QED BY <1>3, <2>2, <3>6 DEF h
  <2> QED BY <2>1, <2>2
<1> QED BY <1>5, <1>6, <1>7 DEF LedgerInd

(* What a transfer leaves in the rows.                                     *)
LEMMA TransferRows ==
    ASSUME TypeOK, NEW a \in Accounts, NEW b \in Accounts, NEW s \in Symbols,
           NEW q \in 1..MAX_AMOUNT, transfer(a, b, s, q)
    PROVE  /\ balance' \in [Accounts -> [Symbols -> 0..MAX_AMOUNT]]
           /\ balance'[a][s] = balance[a][s] - q
           /\ balance'[b][s] = balance[b][s] + q
           /\ \A c \in Accounts, t \in Symbols :
                 (c # a /\ c # b) \/ t # s => balance'[c][t] = balance[c][t]
<1> DEFINE half == [balance EXCEPT ![a][s] = balance[a][s] - q]
<1>1. /\ balance[a][s] \in 0..MAX_AMOUNT /\ balance[b][s] \in 0..MAX_AMOUNT
      /\ MAX_AMOUNT \in Nat
      /\ a # b /\ balance[a][s] >= q /\ balance[b][s] + q <= MAX_AMOUNT
  BY LedgerFields DEF transfer, sub_balance_ok, add_balance_ok
<1>2. balance[a][s] - q \in 0..MAX_AMOUNT /\ balance[b][s] + q \in 0..MAX_AMOUNT
  BY <1>1
<1>3. /\ half \in [Accounts -> [Symbols -> 0..MAX_AMOUNT]]
      /\ half[a][s] = balance[a][s] - q
      /\ \A c \in Accounts, t \in Symbols :
            c # a \/ t # s => half[c][t] = balance[c][t]
  BY <1>2 DEF TypeOK
<1>4. balance' = [half EXCEPT ![b][s] = half[b][s] + q]
  BY DEF transfer
<1> HIDE DEF half
<1>5. half[b][s] = balance[b][s]
  BY <1>1, <1>3
<1> QED BY <1>1, <1>2, <1>3, <1>4, <1>5

LEMMA TransferInd ==
    ASSUME LedgerInd, NEW a \in Accounts, NEW b \in Accounts, NEW s \in Symbols,
           NEW q \in 1..MAX_AMOUNT, transfer(a, b, s, q)
    PROVE  LedgerInd'
<1>0. TypeOK /\ IsFiniteSet(Accounts)
  BY TokenAssumption DEF LedgerInd
<1>1. /\ balance' \in [Accounts -> [Symbols -> 0..MAX_AMOUNT]]
      /\ balance'[a][s] = balance[a][s] - q
      /\ balance'[b][s] = balance[b][s] + q
      /\ \A c \in Accounts, t \in Symbols :
            (c # a /\ c # b) \/ t # s => balance'[c][t] = balance[c][t]
  BY <1>0, TransferRows
<1>2. /\ a # b /\ <<a, s>> \in rows
      /\ rows' = rows \cup {<<b, s>>} /\ stat' = stat
  BY DEF transfer, sub_balance_ok
<1>3. TypeOK'
  BY <1>0, <1>1, <1>2 DEF TypeOK
<1>4. \A c \in Accounts, t \in Symbols : <<c, t>> \notin rows' => balance'[c][t] = 0
  BY <1>1, <1>2 DEF LedgerInd
<1>5. ASSUME NEW t \in Symbols
      PROVE  /\ stat'[t].supply = SumFunctionOnSet(Holdings(t)', Accounts)
             /\ stat'[t].supply <= stat'[t].max_supply
             /\ ~stat'[t].exists => stat'[t].supply = 0
  <2>1. CASE t # s
    <3>1. Holdings(t)' = Holdings(t)
      BY <1>1, <2>1 DEF Holdings
    <3> QED BY <1>2, <2>1, <3>1 DEF LedgerInd
  <2>2. CASE t = s
    <3> DEFINE f == Holdings(s)
               g == [c \in Accounts |-> IF c = a THEN balance[a][s] - q
                                                 ELSE balance[c][s]]
               h == Holdings(s)'
    <3>1. IntOn(f, Accounts)
      BY <1>0, HoldingsType
    <3>2. \A c \in Accounts : f[c] = balance[c][s] /\ f[c] \in Int
      BY <1>0, HoldingsType
    <3>3. g[a] = f[a] - q /\ \A c \in Accounts \ {a} : g[c] = f[c]
      BY <3>2
    <3>4. h[b] = g[b] + q /\ \A c \in Accounts \ {b} : h[c] = g[c]
      <4>1. \A c \in Accounts : h[c] = balance'[c][s]
        BY DEF Holdings
      <4>2. h[a] = balance[a][s] - q /\ h[b] = balance[b][s] + q
        BY <1>1, <4>1
      <4>3. \A c \in Accounts : c # a /\ c # b => h[c] = balance[c][s]
        BY <1>1, <4>1
      <4> HIDE DEF h
      <4>4. \A c \in Accounts \ {b} : h[c] = g[c]
        BY <4>2, <4>3
      <4>5. g[b] = balance[b][s]
        BY <1>2
      <4> QED BY <4>2, <4>4, <4>5
    <3>5. stat[s].supply = SumFunctionOnSet(f, Accounts)
      BY DEF LedgerInd
    <3> HIDE DEF f, g, h
    <3>a. q \in Int /\ \A c \in Accounts : g[c] \in Int
      BY <3>2, <3>3
    <3>b. IntOn(g, Accounts) /\ g[a] \in Int
      BY <3>a DEF IntOn
    <3>c. g[b] \in Int /\ h[b] \in Int
      BY <3>4, <3>a
    <3>d. \A c \in Accounts \ {a} : g[c] = f[c]
      BY <3>3
    <3>e. \A c \in Accounts \ {b} : h[c] = g[c]
      BY <3>4
    <3>6. /\ SumFunctionOnSet(g, Accounts) = SumFunctionOnSet(f, Accounts) - f[a] + g[a]
          /\ SumFunctionOnSet(f, Accounts) \in Int
      BY ONLY <1>0, <3>1, <3>b, <3>d, SumUpdate, a \in Accounts
    <3>7. /\ SumFunctionOnSet(h, Accounts) = SumFunctionOnSet(g, Accounts) - g[b] + h[b]
          /\ SumFunctionOnSet(g, Accounts) \in Int
      BY ONLY <1>0, <3>b, <3>c, <3>e, SumUpdate, b \in Accounts
    <3>8. SumFunctionOnSet(h, Accounts) = SumFunctionOnSet(f, Accounts)
      BY <3>2, <3>3, <3>4, <3>6, <3>7, <3>a, <3>c
    <3> QED BY <1>2, <2>2, <3>5, <3>8 DEF LedgerInd, h
  <2> QED BY <2>1, <2>2
<1> QED BY <1>3, <1>4, <1>5 DEF LedgerInd

(* Steps that move no tokens: create, open and close.                      *)
LEMMA StillInd ==
    ASSUME LedgerInd, balance' = balance, stat' \in [Symbols -> StatRow],
           rows' \in SUBSET (Accounts \X Symbols),
           \A s \in Symbols : \/ stat'[s] = stat[s]
                              \/ /\ stat'[s].supply = stat[s].supply
                                 /\ stat'[s].supply <= stat'[s].max_supply
                                 /\ stat'[s].exists,
           \A a \in Accounts, s \in Symbols :
              <<a, s>> \in rows /\ <<a, s>> \notin rows' => balance[a][s] = 0
    PROVE  LedgerInd'
<1>1. TypeOK'
  BY DEF LedgerInd, TypeOK
<1>2. \A s \in Symbols : Holdings(s)' = Holdings(s)
  BY DEF Holdings
<1> QED BY <1>1, <1>2 DEF LedgerInd

LEMMA CreateInd ==
    ASSUME LedgerInd, NEW a \in Accounts, NEW s \in Symbols, NEW n \in 1..MAX_AMOUNT,
           create(a, s, n)
    PROVE  LedgerInd'
<1>0. TypeOK /\ MAX_AMOUNT \in Nat
  BY TokenAssumption DEF LedgerInd
<1> DEFINE row == [ exists |-> TRUE, supply |-> 0, max_supply |-> n, issuer |-> a ]
<1>1. stat' = [stat EXCEPT ![s] = row] /\ UNCHANGED <<rows, balance>>
  BY DEF create
<1>2. /\ row \in StatRow /\ row.exists
      /\ row.supply <= row.max_supply /\ row.supply = stat[s].supply
  BY <1>0 DEF StatRow, create, LedgerInd
<1> HIDE DEF row
<1>3. /\ stat' \in [Symbols -> StatRow] /\ stat'[s] = row
      /\ \A t \in Symbols \ {s} : stat'[t] = stat[t]
  BY <1>0, <1>1, <1>2 DEF TypeOK
<1> QED BY <1>0, <1>1, <1>2, <1>3, StillInd DEF TypeOK

LEMMA IssueInd ==
    ASSUME LedgerInd, NEW a \in Accounts, NEW s \in Symbols, NEW n \in 1..MAX_AMOUNT,
           issue(a, s, n)
    PROVE  LedgerInd'
<1>0. TypeOK
  BY DEF LedgerInd
<1>1. /\ MAX_AMOUNT \in Nat /\ balance[a][s] \in 0..MAX_AMOUNT
      /\ stat[s].supply \in 0..MAX_AMOUNT /\ stat[s].max_supply \in 0..MAX_AMOUNT
  BY <1>0, LedgerFields
<1>2. /\ n <= stat[s].max_supply - stat[s].supply
      /\ balance[a][s] + n <= MAX_AMOUNT
      /\ stat[s].exists
      /\ stat' = [stat EXCEPT ![s].supply = stat[s].supply + n]
      /\ rows' = rows \cup {<<a, s>>}
      /\ balance' = [balance EXCEPT ![a][s] = balance[a][s] + n]
  BY DEF issue, add_balance_ok
<1>3. /\ balance[a][s] + n \in 0..MAX_AMOUNT /\ n \in Int
      /\ stat[s].supply + n >= 0 /\ stat[s].supply + n <= stat[s].max_supply
  BY <1>1, <1>2
<1>4. /\ rows' \in SUBSET (Accounts \X Symbols)
      /\ rows \subseteq rows' /\ <<a, s>> \in rows'
  BY <1>0, <1>2 DEF TypeOK
<1> QED BY <1>2, <1>3, <1>4, OneRowInd

LEMMA RetireInd ==
    ASSUME LedgerInd, NEW s \in Symbols, NEW n \in 1..MAX_AMOUNT, retire(s, n)
    PROVE  LedgerInd'
<1> DEFINE a == stat[s].issuer
           d == -n
<1>0. TypeOK
  BY DEF LedgerInd
<1>1. /\ a \in Accounts
      /\ MAX_AMOUNT \in Nat /\ balance[a][s] \in 0..MAX_AMOUNT
      /\ stat[s].supply \in 0..MAX_AMOUNT /\ stat[s].max_supply \in 0..MAX_AMOUNT
  BY <1>0, LedgerFields
<1>2. /\ stat[s].exists
      /\ <<a, s>> \in rows /\ balance[a][s] >= n
      /\ stat' = [stat EXCEPT ![s].supply = stat[s].supply - n]
      /\ rows' = rows
      /\ balance' = [balance EXCEPT ![a][s] = balance[a][s] - n]
  BY DEF retire, sub_balance_ok
<1>3. balance[a][s] <= stat[s].supply /\ stat[s].supply <= stat[s].max_supply
  <2> HIDE DEF a
  <2> QED BY <1>1, HoldingBound DEF LedgerInd
<1>4. /\ balance[a][s] + d \in 0..MAX_AMOUNT /\ d \in Int
      /\ stat[s].supply + d >= 0 /\ stat[s].supply + d <= stat[s].max_supply
      /\ stat[s].supply - n = stat[s].supply + d
      /\ balance[a][s] - n = balance[a][s] + d
  <2> HIDE DEF a
  <2> QED BY <1>1, <1>2, <1>3
<1>5. /\ stat' = [stat EXCEPT ![s].supply = stat[s].supply + d]
      /\ balance' = [balance EXCEPT ![a][s] = balance[a][s] + d]
  <2> HIDE DEF a, d
  <2> QED BY <1>2, <1>4
<1>6. rows' \in SUBSET (Accounts \X Symbols) /\ rows \subseteq rows' /\ <<a, s>> \in rows'
  BY <1>0, <1>2 DEF TypeOK
<1> HIDE DEF a, d
<1> QED BY <1>1, <1>2, <1>4, <1>5, <1>6, OneRowInd

LEMMA OpenCloseInd ==
    ASSUME LedgerInd, NEW a \in Accounts, NEW s \in Symbols, open(a, s) \/ close(a, s)
    PROVE  LedgerInd'
<1>0. TypeOK
  BY DEF LedgerInd
<1>1. CASE open(a, s)
  BY <1>0, <1>1, StillInd DEF open, TypeOK
<1>2. CASE close(a, s)
  BY <1>0, <1>2, StillInd DEF close, TypeOK
<1> QED BY <1>1, <1>2

(* Every action of flon.token preserves the invariant of the ledger.       *)
LEMMA TokenNextInd ==
    ASSUME LedgerInd, [Next]_vars
    PROVE  LedgerInd'
<1>1. CASE UNCHANGED vars
  BY <1>1, StillInd DEF vars, LedgerInd, TypeOK
<1>2. ASSUME NEW a \in Accounts, NEW s \in Symbols, NEW n \in 1..MAX_AMOUNT,
             create(a, s, n)
      PROVE  LedgerInd'
  BY <1>2, CreateInd
<1>3. ASSUME NEW a \in Accounts, NEW s \in Symbols, NEW n \in 1..MAX_AMOUNT,
             issue(a, s, n)
      PROVE  LedgerInd'
  BY <1>3, IssueInd
<1>4. ASSUME NEW s \in Symbols, NEW n \in 1..MAX_AMOUNT, retire(s, n)
      PROVE  LedgerInd'
  BY <1>4, RetireInd
<1>5. ASSUME NEW a \in Accounts, NEW b \in Accounts, NEW s \in Symbols,
             NEW n \in 1..MAX_AMOUNT, transfer(a, b, s, n)
      PROVE  LedgerInd'
  BY <1>5, TransferInd
<1>6. ASSUME NEW a \in Accounts, NEW s \in Symbols, open(a, s) \/ close(a, s)
      PROVE  LedgerInd'
  BY <1>6, OpenCloseInd
<1> QED BY <1>1, <1>2, <1>3, <1>4, <1>5, <1>6 DEF Next

LEMMA TokenInitInd ==
    ASSUME Init
    PROVE  LedgerInd
<1>1. TypeOK
  BY TokenAssumption DEF Init, TypeOK
<1>2. \A s \in Symbols : stat[s] \in {r \in StatRow : ~r.exists /\ r.supply = 0 /\ r.max_supply = 0}
  BY DEF Init
<1>3. ASSUME NEW s \in Symbols
      PROVE  SumFunctionOnSet(Holdings(s), Accounts) = 0
  <2>1. \A a \in Accounts : Holdings(s)[a] = 0
    BY DEF Init, Holdings
  <2> QED BY <2>1, SumZero, TokenAssumption
<1> QED BY <1>1, <1>2, <1>3 DEF LedgerInd, Init

(* Whatever is created, issued, transferred, retired, opened and closed,   *)
(* the supply of a token is what its holders have, within its maximum, and *)
(* no payment is refused by its receiver.                                  *)
THEOREM LedgerCorrect == Spec => []SupplyInv
<1>1. Init => LedgerInd
  BY TokenInitInd
<1>2. LedgerInd /\ [Next]_vars => LedgerInd'
  BY TokenNextInd
<1>3. LedgerInd => SupplyInv
  BY LedgerSupply
<1> QED BY <1>1, <1>2, <1>3, PTL DEF Spec

-----------------------------------------------------------------------------
(* Gas.                                                                    *)

(* The inductive invariant of Gas.  newaccount resets the limits without   *)
(* a look at what they were, and buygas adds to what is there: no gas is   *)
(* bought for or granted to an account that does not exist, nor bought     *)
(* before init names the token.                                            *)
GasInd ==
    /\ LedgerInd
    /\ existing \in SUBSET Accounts
    /\ core_symbol \in Symbols \cup {NoSymbol}
    /\ limits \in [Accounts -> ResourceLimits]
    /\ bought \in [Accounts -> Nat]
    /\ granted \in [Accounts -> Int]
    /\ \A a \in Accounts : limits[a].reserved_gas = granted[a] + bought[a]
    /\ \A a \in Accounts \ existing : granted[a] = 0 /\ bought[a] = 0
    /\ ~is_init => \A a \in Accounts : bought[a] = 0
    /\ is_init => SumFunctionOnSet(bought, Accounts) <= balance[GAS_ACCOUNT][core_symbol]

LEMMA GasInitInd ==
    ASSUME SysInit
    PROVE  GasInd
<1>1. LedgerInd
  BY TokenInitInd DEF SysInit
<1>2. /\ limits \in [Accounts -> ResourceLimits]
      /\ \A a \in Accounts : limits[a].reserved_gas = 0
  BY GasAssumption DEF SysInit, ResourceLimits
<1>3. ~is_init /\ core_symbol = NoSymbol
  BY DEF SysInit, is_init
<1> QED BY <1>1, <1>2, <1>3, GasAssumption DEF GasInd, SysInit

(* The steps of the ledger that leave the gas account what it has.         *)
LEMMA GasLedgerInd ==
    ASSUME GasInd, LedgerInd',
           \A s \in Symbols : balance'[GAS_ACCOUNT][s] >= balance[GAS_ACCOUNT][s],
           UNCHANGED <<existing, core_symbol, limits, bought, granted>>
    PROVE  GasInd'
<1>1. is_init' = is_init
  BY DEF is_init
<1>2. ASSUME is_init
      PROVE  SumFunctionOnSet(bought, Accounts) <= balance'[GAS_ACCOUNT][core_symbol]
  <2>1. core_symbol \in Symbols
    BY <1>2 DEF is_init, GasInd
  <2>2. /\ balance[GAS_ACCOUNT][core_symbol] \in Int
        /\ balance'[GAS_ACCOUNT][core_symbol] \in Int
    BY <2>1, TokenAssumption, GasAssumption DEF GasInd, LedgerInd, TypeOK
  <2>3. SumFunctionOnSet(bought, Accounts) \in Nat
    <3>1. Accounts \in SUBSET Accounts
      OBVIOUS
    <3> QED BY <3>1, SumNat, TokenAssumption DEF GasInd
  <2> QED BY <1>2, <2>1, <2>2, <2>3 DEF GasInd
<1> QED BY <1>1, <1>2 DEF GasInd

LEMMA TokenActionInd ==
    ASSUME GasInd, TokenAction
    PROVE  GasInd'
<1>0. TypeOK /\ LedgerInd /\ existing \in SUBSET Accounts /\ MAX_AMOUNT \in Nat
  BY TokenAssumption DEF GasInd, LedgerInd
<1>1. UNCHANGED <<existing, core_symbol, limits, bought, granted>>
  BY DEF TokenAction
<1>2. \A a \in Accounts, s \in Symbols : balance[a][s] \in Nat
  BY <1>0 DEF TypeOK
<1>3. ASSUME NEW a \in Issuers, NEW s \in Symbols, NEW n \in Supplies, create(a, s, n)
      PROVE  GasInd'
  <2>1. a \in Accounts /\ n \in 1..MAX_AMOUNT
    BY GasAssumption
  <2>2. balance' = balance
    BY <1>3 DEF create
  <2> QED BY <1>0, <1>1, <1>2, <1>3, <2>1, <2>2, CreateInd, GasLedgerInd, GasAssumption
<1>4. ASSUME NEW a \in existing, NEW s \in Symbols, NEW n \in 1..MAX_AMOUNT, issue(a, s, n)
      PROVE  GasInd'
  <2>1. balance' = [balance EXCEPT ![a][s] = @ + n]
    BY <1>4 DEF issue
  <2>2. \A t \in Symbols : balance'[GAS_ACCOUNT][t] >= balance[GAS_ACCOUNT][t]
    BY <1>0, <1>2, <2>1, GasAssumption DEF TypeOK
  <2>3. LedgerInd'
    BY <1>0, <1>4, IssueInd
  <2> QED BY <1>1, <2>2, <2>3, GasLedgerInd
<1>5. ASSUME NEW s \in Symbols, NEW n \in 1..MAX_AMOUNT,
             stat[s].issuer \in existing \ {GAS_ACCOUNT}, retire(s, n)
      PROVE  GasInd'
  <2>1. balance' = [balance EXCEPT ![stat[s].issuer][s] = @ - n]
    BY <1>5 DEF retire
  <2>2. \A t \in Symbols : balance'[GAS_ACCOUNT][t] = balance[GAS_ACCOUNT][t]
    BY <1>0, <1>5, <2>1, GasAssumption DEF TypeOK
  <2>3. LedgerInd'
    BY <1>0, <1>5, RetireInd
  <2> QED BY <1>1, <1>2, <2>2, <2>3, GasLedgerInd, GasAssumption
<1>6. ASSUME NEW a \in existing \ {GAS_ACCOUNT}, NEW b \in existing, NEW s \in Symbols,
             NEW n \in 1..MAX_AMOUNT, transfer(a, b, s, n)
      PROVE  GasInd'
  <2>0. a \in Accounts /\ b \in Accounts /\ a # GAS_ACCOUNT
    BY <1>0
  <2>1. /\ balance'[b][s] = balance[b][s] + n
        /\ \A c \in Accounts, t \in Symbols :
              (c # a /\ c # b) \/ t # s => balance'[c][t] = balance[c][t]
    BY <1>0, <1>6, <2>0, TransferRows
  <2>2. \A t \in Symbols : balance'[GAS_ACCOUNT][t] >= balance[GAS_ACCOUNT][t]
    BY <1>2, <2>0, <2>1, GasAssumption
  <2>3. LedgerInd'
    BY <1>0, <1>6, <2>0, TransferInd
  <2> QED BY <1>1, <2>2, <2>3, GasLedgerInd
<1>7. ASSUME NEW a \in existing, NEW s \in Symbols, open(a, s) \/ close(a, s)
      PROVE  GasInd'
  <2>1. balance' = balance
    BY <1>7 DEF open, close
  <2>2. LedgerInd'
    BY <1>0, <1>7, OpenCloseInd
  <2> QED BY <1>1, <1>2, <2>1, <2>2, GasLedgerInd, GasAssumption
<1> QED BY <1>3, <1>4, <1>5, <1>6, <1>7 DEF TokenAction

LEMMA InitInd ==
    ASSUME GasInd, NEW s \in Symbols, init(s)
    PROVE  GasInd'
<1>1. /\ ~is_init /\ open(GAS_ACCOUNT, s) /\ core_symbol' = s
      /\ UNCHANGED <<existing, limits, bought, granted>>
  BY DEF init
<1>2. LedgerInd' /\ balance' = balance
  BY <1>1, OpenCloseInd, GasAssumption DEF GasInd, open
<1>3. \A a \in Accounts : bought[a] = 0
  BY <1>1 DEF GasInd
<1>4. SumFunctionOnSet(bought, Accounts) = 0
  BY <1>3, SumZero, TokenAssumption
<1>5. balance[GAS_ACCOUNT][s] \in Nat
  BY TokenAssumption, GasAssumption DEF GasInd, LedgerInd, TypeOK
<1>6. is_init'
  BY <1>1, GasAssumption DEF is_init
<1> QED BY <1>1, <1>2, <1>3, <1>4, <1>5, <1>6 DEF GasInd

LEMMA NewaccountInd ==
    ASSUME GasInd, NEW c \in Accounts, NEW a \in Accounts, newaccount(c, a)
    PROVE  GasInd'
<1> DEFINE none == [ reserved_gas |-> 0, is_unlimited |-> FALSE ]
<1>1. /\ a \notin existing /\ existing' = existing \cup {a}
      /\ limits' = limits \/ limits' = [limits EXCEPT ![a] = none]
      /\ UNCHANGED <<stat, rows, balance, core_symbol, bought, granted>>
  BY DEF newaccount
<1>2. none \in ResourceLimits /\ none.reserved_gas = 0
  BY GasAssumption DEF ResourceLimits
<1> HIDE DEF none
<1>3. limits[a].reserved_gas = 0 /\ granted[a] = 0 /\ bought[a] = 0
  BY <1>1 DEF GasInd
<1>4. /\ limits' \in [Accounts -> ResourceLimits]
      /\ \A b \in Accounts : limits'[b].reserved_gas = limits[b].reserved_gas
  BY <1>1, <1>2, <1>3 DEF GasInd
<1>5. LedgerInd'
  BY <1>1, TokenNextInd DEF vars, GasInd
<1>6. is_init' = is_init
  BY <1>1 DEF is_init
<1>7. existing' \in SUBSET Accounts
  BY <1>1 DEF GasInd
<1> QED BY <1>1, <1>4, <1>5, <1>6, <1>7 DEF GasInd

LEMMA BuygasInd ==
    ASSUME GasInd, NEW p \in Accounts, NEW r \in Accounts, NEW s \in Symbols,
           NEW n \in 1..MAX_AMOUNT, buygas(p, r, s, n)
    PROVE  GasInd'
<1>0. /\ TypeOK /\ LedgerInd /\ IsFiniteSet(Accounts) /\ MAX_GAS \in Nat
      /\ MAX_AMOUNT \in Nat /\ GAS_ACCOUNT \in Accounts
  BY TokenAssumption, GasAssumption DEF GasInd, LedgerInd
<1>1. /\ is_init /\ s = core_symbol
      /\ r \in existing
      /\ transfer(p, GAS_ACCOUNT, s, n)
      /\ MAX_GAS - limits[r].reserved_gas >= n
      /\ limits' = [limits EXCEPT ![r].reserved_gas = limits[r].reserved_gas + n]
      /\ bought' = [bought EXCEPT ![r] = bought[r] + n]
      /\ UNCHANGED <<existing, core_symbol, granted>>
  BY DEF buygas, MayReceiveGas, GasFits
<1>2. /\ limits[r].reserved_gas \in Nat
      /\ \A a \in Accounts : bought[a] \in Nat /\ granted[a] \in Int
  BY <1>0 DEF GasInd, ResourceLimits
<1>3. limits[r].reserved_gas + n \in 0..MAX_GAS
  BY <1>0, <1>1, <1>2
<1>4. /\ limits' \in [Accounts -> ResourceLimits]
      /\ limits'[r].reserved_gas = limits[r].reserved_gas + n
      /\ \A a \in Accounts \ {r} : limits'[a] = limits[a]
  BY <1>1, <1>3 DEF GasInd, ResourceLimits
<1>5. bought[r] + n \in Nat
  BY <1>2
<1>6. /\ bought' \in [Accounts -> Nat] /\ bought'[r] = bought[r] + n
      /\ \A a \in Accounts \ {r} : bought'[a] = bought[a]
  BY <1>1, <1>5 DEF GasInd
<1>7. \A a \in Accounts : limits'[a].reserved_gas = granted'[a] + bought'[a]
  <2> SUFFICES ASSUME NEW a \in Accounts
               PROVE  limits'[a].reserved_gas = granted[a] + bought'[a]
    BY <1>1
  <2>1. limits[a].reserved_gas = granted[a] + bought[a]
    BY DEF GasInd
  <2> QED BY <1>2, <1>4, <1>6, <2>1
<1>8. LedgerInd'
  BY <1>0, <1>1, TransferInd
<1>9. balance'[GAS_ACCOUNT][s] = balance[GAS_ACCOUNT][s] + n
  BY <1>0, <1>1, TransferRows
<1>10. balance[GAS_ACCOUNT][s] \in Nat
  BY <1>0 DEF TypeOK
<1>11. /\ SumFunctionOnSet(bought', Accounts)
            = SumFunctionOnSet(bought, Accounts) - bought[r] + bought'[r]
       /\ SumFunctionOnSet(bought, Accounts) \in Int
  <2>1. IntOn(bought, Accounts) /\ bought'[r] \in Int
    BY <1>2, <1>5, <1>6 DEF IntOn
  <2>2. \A a \in Accounts \ {r} : bought'[a] = bought[a]
    BY <1>6
  <2> QED BY ONLY <1>0, <2>1, <2>2, SumUpdate, r \in Accounts
<1>12. SumFunctionOnSet(bought', Accounts) <= balance'[GAS_ACCOUNT][core_symbol']
  <2>1. SumFunctionOnSet(bought, Accounts) <= balance[GAS_ACCOUNT][s]
    BY <1>1 DEF GasInd
  <2> QED BY <1>1, <1>2, <1>6, <1>9, <1>10, <1>11, <2>1
<1>13. is_init' = is_init
  BY <1>1 DEF is_init
<1> QED BY <1>1, <1>4, <1>6, <1>7, <1>8, <1>12, <1>13 DEF GasInd

LEMMA SetalimitsInd ==
    ASSUME GasInd, NEW a \in Accounts, NEW new \in Grants, setalimits(a, new)
    PROVE  GasInd'
<1>1. /\ a \in existing
      /\ limits' = [limits EXCEPT ![a] = new]
      /\ granted' = [granted EXCEPT ![a] = new.reserved_gas - bought[a]]
      /\ UNCHANGED <<stat, rows, balance, existing, core_symbol, bought>>
  BY DEF setalimits
<1>2. new \in ResourceLimits /\ new.reserved_gas \in Int
  BY GasAssumption DEF ResourceLimits
<1>3. bought[a] \in Nat
  BY DEF GasInd
<1>4. /\ limits' \in [Accounts -> ResourceLimits]
      /\ granted' \in [Accounts -> Int]
      /\ limits'[a] = new /\ granted'[a] = new.reserved_gas - bought[a]
      /\ \A b \in Accounts \ {a} : limits'[b] = limits[b] /\ granted'[b] = granted[b]
  BY <1>1, <1>2, <1>3 DEF GasInd
<1>5. ASSUME NEW b \in Accounts
      PROVE  limits'[b].reserved_gas = granted'[b] + bought[b]
  <2>1. CASE b = a
    BY <1>2, <1>3, <1>4, <2>1
  <2>2. CASE b # a
    BY <1>4, <2>2 DEF GasInd
  <2> QED BY <2>1, <2>2
<1>6. LedgerInd'
  BY <1>1, TokenNextInd DEF vars, GasInd
<1>7. is_init' = is_init
  BY <1>1 DEF is_init
<1> QED BY <1>1, <1>4, <1>5, <1>6, <1>7 DEF GasInd

(* Every action of Gas preserves the inductive invariant.                  *)
LEMMA SysNextInd ==
    ASSUME GasInd, [SysNext]_sysvars
    PROVE  GasInd'
<1>1. CASE UNCHANGED sysvars
  <2>1. LedgerInd'
    BY <1>1, TokenNextInd DEF sysvars, vars, GasInd
  <2> QED BY <1>1, <2>1 DEF sysvars, GasInd, is_init
<1>2. CASE TokenAction
  BY <1>2, TokenActionInd
<1>3. ASSUME NEW s \in Symbols, init(s) PROVE GasInd'
  BY <1>3, InitInd
<1>4. ASSUME NEW c \in Accounts, NEW a \in Accounts, newaccount(c, a) PROVE GasInd'
  BY <1>4, NewaccountInd
<1>5. ASSUME NEW p \in Accounts, NEW r \in Accounts, NEW s \in Symbols,
             NEW n \in 1..MAX_AMOUNT, buygas(p, r, s, n)
      PROVE  GasInd'
  BY <1>5, BuygasInd
<1>6. ASSUME NEW a \in Accounts, NEW new \in Grants, setalimits(a, new) PROVE GasInd'
  BY <1>6, SetalimitsInd
<1> QED BY <1>1, <1>2, <1>3, <1>4, <1>5, <1>6 DEF SysNext, buygasself

(* The inductive invariant holds in every state of the system.             *)
THEOREM GasInvariance == SysSpec => []GasInd
<1>1. SysInit => GasInd
  BY GasInitInd
<1>2. GasInd /\ [SysNext]_sysvars => GasInd'
  BY SysNextInd
<1> QED BY <1>1, <1>2, PTL DEF SysSpec

(* Also when flon.system sells gas on top of it, the ledger adds up.       *)
THEOREM SystemLedgerCorrect == SysSpec => []SupplyInv
<1>1. GasInd => SupplyInv
  BY LedgerSupply DEF GasInd
<1> QED BY <1>1, GasInvariance, PTL

(* Every account has the gas it was granted and bought since, and the gas  *)
(* account holds the tokens that were paid for all that was bought.        *)
THEOREM GasPaid == SysSpec => []GasPaidInv
<1>1. GasInd => GasPaidInv
  BY DEF GasInd, GasPaidInv
<1> QED BY <1>1, GasInvariance, PTL
=============================================================================
