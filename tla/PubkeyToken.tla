---------------------------- MODULE PubkeyToken -----------------------------
(***************************************************************************)
(* pubkey.token: tokens are sent to a public key, which has no account     *)
(* yet; later a miner presents a signature of the key and the tokens go,   *)
(* less a fee, to an account, new (newaccount) or existing (move).         *)
(*                                                                         *)
(* Signatures are taken as valid.  The tokens of other accounts than the   *)
(* contract are left out, and so is the admin, which nothing else uses.    *)
(***************************************************************************)
EXTENDS Integers

CONSTANTS
    Pubkeys,
    Symbols,     \* tokens of flon.token, FLON among them
    FLON,        \* FLON_SYMBOL
    MinerFee,    \* the amount of miner_fee, which is in FLON
    Names,       \* account names
    MaxAmount,   \* bound: the amount held for a key
    MaxTime      \* bound: the last block

VARIABLES
    now,
    accounts,    \* names that are accounts
    accts,       \* the pubkeyaccts table, by public key
    held         \* flon.token: the tokens of the contract

vars == <<now, accounts, accts, held>>

NoRow == [ exists |-> FALSE, symbol |-> FLON, quantity |-> 0, last_recv_at |-> 0 ]

Init ==
    /\ now = 1
    /\ accounts = {}
    /\ accts = [k \in Pubkeys |-> NoRow]
    /\ held = [s \in Symbols |-> 0]

-----------------------------------------------------------------------------
(* asset's += aborts on another symbol.                                    *)
on_pubkey_recv_token(k, s, quantity) ==
    /\ accts[k].exists => accts[k].symbol = s
    /\ accts[k].quantity + quantity <= MaxAmount
    /\ accts' = [accts EXCEPT ![k] =
          [ exists |-> TRUE, symbol |-> s, quantity |-> @.quantity + quantity,
            last_recv_at |-> now ]]

(* The notification of flon.token::transfer to the contract; the memo is   *)
(* the public key.                                                         *)
ontransfer(k, s, quantity) ==
    /\ s # FLON
    /\ on_pubkey_recv_token(k, s, quantity)
    /\ held' = [held EXCEPT ![s] = @ + quantity]
    /\ UNCHANGED <<now, accounts>>

(* quantity >= miner_fee; comparing assets of two symbols aborts.          *)
PaysFee(k) == accts[k].symbol = FLON /\ accts[k].quantity >= MinerFee

(* The fee goes to the miner, the rest to the account.                     *)
PayOut(k) ==
    /\ accts[k].exists
    /\ PaysFee(k)
    /\ held[FLON] >= accts[k].quantity
    /\ held' = [held EXCEPT ![FLON] = @ - accts[k].quantity]
    /\ accts' = [accts EXCEPT ![k] = NoRow]

newaccount(k, acct) ==
    /\ acct \notin accounts
    /\ PayOut(k)
    /\ accounts' = accounts \cup {acct}
    /\ UNCHANGED now

(* The signature is of last_recv_at, which must be the current one.        *)
move(k, last_recv_at, to_acct) ==
    /\ to_acct \in accounts
    /\ accts[k].last_recv_at = last_recv_at
    /\ PayOut(k)
    /\ UNCHANGED <<now, accounts>>

Tick ==
    /\ now < MaxTime
    /\ now' = now + 1
    /\ UNCHANGED <<accounts, accts, held>>

Next ==
    \/ \E k \in Pubkeys, s \in Symbols, n \in 1..MaxAmount : ontransfer(k, s, n)
    \/ \E k \in Pubkeys, a \in Names : newaccount(k, a)
    \/ \E k \in Pubkeys, t \in 1..MaxTime, a \in Names : move(k, t, a)
    \/ Tick

Spec == Init /\ [][Next]_vars

-----------------------------------------------------------------------------
(* What an assertion says and the code does not do.                        *)

(* "Only FLON tokens are supported": what is held for a public key is FLON *)
(* and can be paid out when it covers the fee.                             *)
OnlyFLON ==
    \A k \in Pubkeys : accts[k].exists =>
        accts[k].symbol = FLON /\ (accts[k].quantity >= MinerFee => PaysFee(k))
=============================================================================
