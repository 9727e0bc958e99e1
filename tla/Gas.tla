-------------------------------- MODULE Gas ---------------------------------
(***************************************************************************)
(* Gas, the resource limits of accounts: flon.system sells it for core     *)
(* tokens (buygas, buygasself), sets it (setalimits) and resets it for new *)
(* accounts (newaccount), on top of the ledger of Token.  init names the   *)
(* core token.  Token's Accounts are the accounts there may ever be; an    *)
(* account acts and receives tokens once it exists.                        *)
(*                                                                         *)
(* The limits are kept by the host, without what it charges for the use of *)
(* resources.  The gas account sends no transfer of its own: only the host *)
(* takes its tokens, for the gas that was used.                            *)
(***************************************************************************)
EXTENDS Token

CONSTANTS
    Founders,      \* accounts that exist from the beginning
    GAS_ACCOUNT,
    NoSymbol,      \* the invalid symbol, before init
    MAX_GAS,       \* the largest uint64_t
    Issuers,       \* bound: the issuers of the tokens that are created
    Supplies,      \* bound: their maximum supplies
    Grants         \* bound: the limits setalimits is called with

ASSUME GasAssumption ==
    /\ Founders \subseteq Accounts
    /\ GAS_ACCOUNT \in Accounts
    /\ NoSymbol \notin Symbols
    /\ MAX_GAS \in Nat /\ MAX_GAS > MAX_AMOUNT
    /\ Issuers \subseteq Accounts /\ Supplies \subseteq 1..MAX_AMOUNT
    /\ Grants \subseteq [ reserved_gas : 0..MAX_GAS, is_unlimited : BOOLEAN ]

VARIABLES
    existing,       \* the accounts that exist
    core_symbol,    \* the symbol of _gstate.total_vote_stake
    limits,         \* the resource limits of each account, in the host
    bought,         \* history: the gas bought for each account
    granted         \* history: what the limit was set to, less bought then

sysvars == <<stat, rows, balance, existing, core_symbol, limits, bought, granted>>

ResourceLimits == [ reserved_gas : 0..MAX_GAS, is_unlimited : BOOLEAN ]

is_init == core_symbol # NoSymbol

(* An account has no limits until some are set.                            *)
SysInit ==
    /\ Init
    /\ existing = Founders
    /\ core_symbol = NoSymbol
    /\ limits = [a \in Accounts |-> [ reserved_gas |-> 0, is_unlimited |-> TRUE ]]
    /\ bought = [a \in Accounts |-> 0]
    /\ granted = [a \in Accounts |-> 0]

-----------------------------------------------------------------------------
(* The token needs a supply; open refuses a gas account that does not      *)
(* exist.                                                                  *)
init(core) ==
    /\ ~is_init
    /\ stat[core].exists
    /\ stat[core].supply > 0
    /\ GAS_ACCOUNT \in existing
    /\ open(GAS_ACCOUNT, core)
    /\ core_symbol' = core
    /\ UNCHANGED <<existing, limits, bought, granted>>

(* Before init an account keeps the host's limits.  Whether the name may   *)
(* be created is NameAuction's.                                            *)
newaccount(creator, a) ==
    /\ creator \in existing
    /\ a \notin existing
    /\ existing' = existing \cup {a}
    /\ limits' = IF is_init
                 THEN [limits EXCEPT ![a] = [ reserved_gas |-> 0, is_unlimited |-> FALSE ]]
                 ELSE limits
    /\ UNCHANGED <<stat, rows, balance, core_symbol, bought, granted>>

(* Mutant: gas is bought for an account that does not exist yet.           *)
MayReceiveGas_Any(a) == a # GAS_ACCOUNT

MayReceiveGas(a) == a \in existing /\ a # GAS_ACCOUNT

(* The check against an overflow of uint64_t.                              *)
GasFits(a, amount) == MAX_GAS - limits[a].reserved_gas >= amount

buygas(payer, receiver, s, amount) ==
    /\ payer \in existing
    /\ is_init /\ s = core_symbol
    /\ amount > 0
    /\ MayReceiveGas(receiver)
    /\ payer # GAS_ACCOUNT
    /\ transfer(payer, GAS_ACCOUNT, s, amount)
    /\ GasFits(receiver, amount)
    /\ limits' = [limits EXCEPT ![receiver].reserved_gas = @ + amount]
    /\ bought' = [bought EXCEPT ![receiver] = @ + amount]
    /\ UNCHANGED <<existing, core_symbol, granted>>

buygasself(account, s, amount) == buygas(account, account, s, amount)

(* Of the system account.                                                  *)
setalimits(a, new) ==
    /\ a \in existing
    /\ new # limits[a]
    /\ limits' = [limits EXCEPT ![a] = new]
    /\ granted' = [granted EXCEPT ![a] = new.reserved_gas - bought[a]]
    /\ UNCHANGED <<stat, rows, balance, existing, core_symbol, bought>>

(* The actions of flon.token, each sent by an account that exists.         *)
TokenAction ==
    /\ \/ \E a \in Issuers, s \in Symbols, n \in Supplies : create(a, s, n)
       \/ \E a \in existing, s \in Symbols, n \in 1..MAX_AMOUNT : issue(a, s, n)
       \/ \E s \in Symbols, n \in 1..MAX_AMOUNT :
             stat[s].issuer \in existing \ {GAS_ACCOUNT} /\ retire(s, n)
       \/ \E a \in existing \ {GAS_ACCOUNT}, b \in existing,
             s \in Symbols, n \in 1..MAX_AMOUNT : transfer(a, b, s, n)
       \/ \E a \in existing, s \in Symbols : open(a, s)
       \/ \E a \in existing, s \in Symbols : close(a, s)
    /\ UNCHANGED <<existing, core_symbol, limits, bought, granted>>

SysNext ==
    \/ TokenAction
    \/ \E s \in Symbols : init(s)
    \/ \E c, a \in Accounts : newaccount(c, a)
    \/ \E p, r \in Accounts, s \in Symbols, n \in 1..MAX_AMOUNT : buygas(p, r, s, n)
    \/ \E a \in Accounts, s \in Symbols, n \in 1..MAX_AMOUNT : buygasself(a, s, n)
    \/ \E a \in Accounts, new \in Grants : setalimits(a, new)

SysSpec == SysInit /\ [][SysNext]_sysvars

-----------------------------------------------------------------------------
(* Properties.                                                             *)

(* Gas is never lost, doubled or wrapped around: an account has what the   *)
(* system contract last set and what was bought for it since, also when it *)
(* was created in between, and tokens were paid to the gas account for all *)
(* the gas that was ever bought.                                           *)
GasPaidInv ==
    /\ limits \in [Accounts -> ResourceLimits]
    /\ \A a \in Accounts : limits[a].reserved_gas = granted[a] + bought[a]
    /\ is_init => SumFunctionOnSet(bought, Accounts) <= balance[GAS_ACCOUNT][core_symbol]
=============================================================================
