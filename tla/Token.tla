------------------------------- MODULE Token --------------------------------
(***************************************************************************)
(* flon.token: the ledger of every token, one stat row per symbol and one  *)
(* accounts row per owner and symbol.  A symbol whose precision does not   *)
(* match the stat row is refused by every action, so symbols stand for     *)
(* (code, precision) pairs that match.  Memos and RAM payers are left out. *)
(***************************************************************************)
EXTENDS Integers, FiniteSets, Functions

CONSTANTS
    Accounts,    \* accounts that exist on the chain
    Symbols,     \* token symbols
    MAX_AMOUNT   \* asset::max_amount

ASSUME TokenAssumption ==
    /\ IsFiniteSet(Accounts)
    /\ MAX_AMOUNT \in Nat

VARIABLES
    stat,        \* the rows of stats, by symbol
    rows,        \* the (owner, symbol) pairs that have a row in accounts
    balance      \* the balance of each row; 0 where there is none

vars == <<stat, rows, balance>>

StatRow ==
    [ exists     : BOOLEAN,
      supply     : 0..MAX_AMOUNT,
      max_supply : 0..MAX_AMOUNT,
      issuer     : Accounts ]

Init ==
    /\ stat \in [Symbols -> {r \in StatRow : ~r.exists /\ r.supply = 0 /\ r.max_supply = 0}]
    /\ rows = {}
    /\ balance = [a \in Accounts |-> [s \in Symbols |-> 0]]

-----------------------------------------------------------------------------
create(issuer, s, maximum_supply) ==
    /\ maximum_supply > 0
    /\ ~stat[s].exists
    /\ stat' = [stat EXCEPT ![s] =
          [ exists |-> TRUE, supply |-> 0,
            max_supply |-> maximum_supply, issuer |-> issuer ]]
    /\ UNCHANGED <<rows, balance>>

(* The check sub_balance makes; an owner without a row has no balance.     *)
sub_balance_ok(owner, s, value) ==
    <<owner, s>> \in rows /\ balance[owner][s] >= value

(* The check of asset's += in add_balance.                                 *)
add_balance_ok(owner, s, value) == balance[owner][s] + value <= MAX_AMOUNT

(* The issuer mints to itself, up to the maximum supply.                   *)
issue(to, s, quantity) ==
    /\ stat[s].exists
    /\ to = stat[s].issuer
    /\ quantity > 0
    /\ quantity <= stat[s].max_supply - stat[s].supply
    /\ add_balance_ok(to, s, quantity)
    /\ stat' = [stat EXCEPT ![s].supply = @ + quantity]
    /\ rows' = rows \cup {<<to, s>>}
    /\ balance' = [balance EXCEPT ![to][s] = @ + quantity]

retire(s, quantity) ==
    LET issuer == stat[s].issuer
    IN  /\ stat[s].exists
        /\ quantity > 0
        /\ sub_balance_ok(issuer, s, quantity)
        /\ stat' = [stat EXCEPT ![s].supply = @ - quantity]
        /\ balance' = [balance EXCEPT ![issuer][s] = @ - quantity]
        /\ UNCHANGED rows

transfer(from, to, s, quantity) ==
    /\ from # to
    /\ stat[s].exists
    /\ quantity > 0
    /\ sub_balance_ok(from, s, quantity)
    /\ add_balance_ok(to, s, quantity)
    /\ rows' = rows \cup {<<to, s>>}
    /\ balance' = [balance EXCEPT ![from][s] = @ - quantity,
                                  ![to][s] = @ + quantity]
    /\ UNCHANGED stat

open(owner, s) ==
    /\ stat[s].exists
    /\ rows' = rows \cup {<<owner, s>>}
    /\ UNCHANGED <<stat, balance>>

(* Mutant: a row with a balance is closed.                                 *)
close_NotEmpty(owner, s) ==
    /\ <<owner, s>> \in rows
    /\ rows' = rows \ {<<owner, s>>}
    /\ UNCHANGED <<stat, balance>>

close(owner, s) ==
    /\ <<owner, s>> \in rows
    /\ balance[owner][s] = 0
    /\ rows' = rows \ {<<owner, s>>}
    /\ UNCHANGED <<stat, balance>>

Next ==
    \/ \E a \in Accounts, s \in Symbols, n \in 1..MAX_AMOUNT : create(a, s, n)
    \/ \E a \in Accounts, s \in Symbols, n \in 1..MAX_AMOUNT : issue(a, s, n)
    \/ \E s \in Symbols, n \in 1..MAX_AMOUNT : retire(s, n)
    \/ \E a, b \in Accounts, s \in Symbols, n \in 1..MAX_AMOUNT : transfer(a, b, s, n)
    \/ \E a \in Accounts, s \in Symbols : open(a, s)
    \/ \E a \in Accounts, s \in Symbols : close(a, s)

Spec == Init /\ [][Next]_vars

-----------------------------------------------------------------------------
(* Properties.                                                             *)

TypeOK ==
    /\ stat \in [Symbols -> StatRow]
    /\ rows \in SUBSET (Accounts \X Symbols)
    /\ balance \in [Accounts -> [Symbols -> 0..MAX_AMOUNT]]

(* An incoming payment is never refused by the receiver's row: asset's     *)
(* overflow check in add_balance cannot fail for a payment that the        *)
(* sender can afford, nor for an issue within the maximum supply.          *)
ReceiveInv ==
    \A a, b \in Accounts, s \in Symbols :
        /\ a # b => add_balance_ok(b, s, balance[a][s])
        /\ stat[s].exists => add_balance_ok(b, s, stat[s].max_supply - stat[s].supply)

(* The supply of a token is what the rows of its holders have together,    *)
(* and never exceeds the maximum it was created with: transfers conserve   *)
(* it, and no row is closed with tokens in it.  So no balance leaves its   *)
(* range and no payment is refused by its receiver.                        *)
SupplyInv ==
    /\ TypeOK
    /\ ReceiveInv
    /\ \A s \in Symbols :
          /\ stat[s].supply
               = SumFunctionOnSet(
                     [a \in Accounts |-> IF <<a, s>> \in rows THEN balance[a][s] ELSE 0],
                     Accounts)
          /\ stat[s].supply <= stat[s].max_supply
=============================================================================
