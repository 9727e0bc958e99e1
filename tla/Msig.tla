-------------------------------- MODULE Msig --------------------------------
(***************************************************************************)
(* flon.msig: transactions are proposed, approved by permission levels and *)
(* executed once the approvals authorize them.  A transaction may ask for  *)
(* a delay between the moment it is authorized and its execution.          *)
(*                                                                         *)
(* The clock counts blocks, two per second; 0 is no time.  A proposal is   *)
(* named by its proposer and its proposal_name.  Rows written before       *)
(* earliest_exec_time existed are left out: propose always writes it.  RAM *)
(* payers and context-free actions are left out.                           *)
(***************************************************************************)
EXTENDS Integers, Sequences, FiniteSets, SequencesExt

CONSTANTS
    Proposers,      \* accounts that propose
    Names,          \* proposal names
    Trxs,           \* transactions
    Expiration,     \* the expiration of each, in seconds
    DelaySec,       \* the delay_sec of each
    Actors,         \* accounts that approve
    Levels,         \* permission levels
    ActorOf,        \* the actor of each level
    Authorities,    \* the authorities the accounts may have
    Hashes,         \* hashes approvals are given with: transactions or NoHash
    Copies,         \* bound: how often one level may be requested
    Requests,       \* bound: the requested lists, as how often each level is in one
    MaxTime,        \* bound: the last block
    MaxSent         \* bound: executions

ASSUME MsigAssumption ==
    /\ Trxs # {}
    /\ Expiration \in [Trxs -> Nat]
    /\ DelaySec \in [Trxs -> Nat]
    /\ ActorOf \in [Levels -> Actors]
    /\ Authorities \subseteq [Trxs -> SUBSET SUBSET Levels]
    /\ {Copies, MaxTime, MaxSent} \subseteq Nat
    /\ Requests \subseteq [Levels -> 0..Copies]
    /\ MaxTime >= 2    \* the clock starts at 2

NoHash == "no hash"    \* an approval without proposal_hash

VARIABLES
    now,            \* current_time_point(), in blocks
    authority,      \* the sets of levels that authorize a transaction now
    proposals,      \* the proposals table
    approvals,      \* the approvals table
    invals,         \* last_invalidation_time by account, 0: no row
    sent,           \* the transactions whose actions were sent
    approved,       \* history: approvals less revocations of a level on a proposal
    valid,          \* history: levels that approved a proposal after the last
                    \* invalidation of their actor
    since,          \* history: since when a proposal is authorized, 0: it is not
    lost            \* history: proposals that lost the authorization otherwise
                    \* than by unapprove while their delay was running

vars == <<now, authority, proposals, approvals, invals, sent, approved, valid,
          since, lost>>

Keys == Proposers \X Names

(* The row of a proposal; earliest_exec_time is 0 while it has no value.   *)
Proposal ==
    [ exists : BOOLEAN, trx : Trxs, earliest_exec_time : 0..MaxTime ]

(* An approval; hash is the proposal_hash it was given with.               *)
Approval == [ level : Levels, time : 0..MaxTime, hash : Hashes ]

(* requested_approvals is how often it holds each level: its order and its *)
(* times are never looked at.                                              *)
NoApprovals ==
    [ exists |-> FALSE, requested |-> [l \in Levels |-> 0], provided |-> <<>> ]

Init ==
    /\ now = 2
    /\ authority \in Authorities
    /\ proposals \in [Keys -> {[ exists |-> FALSE, trx |-> CHOOSE t \in Trxs : TRUE,
                                 earliest_exec_time |-> 0 ]}]
    /\ approvals = [q \in Keys |-> NoApprovals]
    /\ invals = [a \in Actors |-> 0]
    /\ sent = <<>>
    /\ approved = [q \in Keys |-> [l \in Levels |-> 0]]
    /\ valid = {}
    /\ since = [q \in Keys |-> 0]
    /\ lost = {}

-----------------------------------------------------------------------------
(* The host function check_transaction_authorization.                      *)
check_transaction_authorization(trx, levels) ==
    \E Q \in authority[trx] : Q \subseteq levels

(* Mutant: an approval of the time of the invalidation counts.             *)
CountsNow_SameTime(a) == invals[ActorOf[a.level]] <= a.time

(* The approval was given after the last invalidation of its actor.        *)
CountsNow(a) == invals[ActorOf[a.level]] < a.time

(* The levels among the provided approvals that are not invalidated.       *)
get_approvals(provided) == {a.level : a \in {b \in Range(provided) : CountsNow(b)}}

trx_is_authorized(q, provided) ==
    check_transaction_authorization(proposals[q].trx, get_approvals(provided))

(* A time_point as a time_point_sec.                                       *)
ToSeconds(t) == t \div 2

propose(q, requested, trx) ==
    /\ \E l \in Levels : requested[l] > 0
    /\ Expiration[trx] >= ToSeconds(now)
    /\ ~proposals[q].exists
    /\ check_transaction_authorization(trx, {l \in Levels : requested[l] > 0})
    /\ ~approvals[q].exists    \* emplace aborts on a key that exists
    /\ proposals' = [proposals EXCEPT ![q] =
          [ exists |-> TRUE, trx |-> trx, earliest_exec_time |-> 0 ]]
    /\ approvals' = [approvals EXCEPT ![q] =
          [ exists |-> TRUE, requested |-> requested, provided |-> <<>> ]]
    /\ UNCHANGED <<now, authority, invals, sent, approved, valid>>

(* Mutant: the hash is not compared.                                       *)
HashMatches_Any(q, hash) == TRUE

(* assert_sha256, when the approval comes with a hash.                     *)
HashMatches(q, hash) == hash # NoHash => hash = proposals[q].trx

(* The time is set when the approval makes the transaction authorized, and *)
(* not touched while it has a value.                                       *)
approve(q, level, hash) ==
    LET provided == Append(approvals[q].provided,
                           [ level |-> level, time |-> now, hash |-> hash ])
    IN  /\ proposals[q].exists
        /\ HashMatches(q, hash)
        /\ approvals[q].requested[level] > 0
        /\ now + 2 * DelaySec[proposals[q].trx] <= MaxTime    \* bound
        /\ approvals' = [approvals EXCEPT
              ![q].provided = provided, ![q].requested[level] = @ - 1]
        /\ proposals' = [proposals EXCEPT ![q].earliest_exec_time =
              IF @ = 0 /\ trx_is_authorized(q, provided)
              THEN now + 2 * DelaySec[proposals[q].trx] ELSE @]
        /\ approved' = [approved EXCEPT ![q][level] = @ + 1]
        /\ valid' = valid \cup {<<q, level>>}
        /\ UNCHANGED <<now, authority, invals, sent>>

(* Mutant: the delay keeps running.                                        *)
TimeAfterUnapprove_Keep(q, provided) == proposals[q].earliest_exec_time

(* The time goes when the transaction is no longer authorized.             *)
TimeAfterUnapprove(q, provided) ==
    IF trx_is_authorized(q, provided) THEN proposals[q].earliest_exec_time ELSE 0

(* Mutant: the level is not asked for its approval again.                  *)
RequestedAgain_Dropped(q, level) == approvals[q].requested

RequestedAgain(q, level) == [approvals[q].requested EXCEPT ![level] = @ + 1]

(* find_if finds the first approval of the level, which is erased.         *)
unapprove(q, level) ==
    LET given == {i \in DOMAIN approvals[q].provided :
                     approvals[q].provided[i].level = level}
        first == CHOOSE i \in given : \A j \in given : i <= j
        provided == RemoveAt(approvals[q].provided, first)
    IN  /\ approvals[q].exists
        /\ given # {}
        /\ proposals[q].exists
        /\ approvals' = [approvals EXCEPT
              ![q].requested = RequestedAgain(q, level), ![q].provided = provided]
        /\ proposals' = [proposals EXCEPT ![q].earliest_exec_time =
              TimeAfterUnapprove(q, provided)]
        /\ approved' = [approved EXCEPT ![q][level] = @ - 1]
        /\ UNCHANGED <<now, authority, invals, sent, valid>>

(* What was said about a proposal does not outlive it.                     *)
Forget(q) ==
    /\ approved' = [approved EXCEPT ![q] = [l \in Levels |-> 0]]
    /\ valid' = {s \in valid : s[1] # q}

(* The proposer may cancel at any time, others after the expiration.       *)
cancel(q, canceler) ==
    /\ proposals[q].exists
    /\ canceler # q[1] => Expiration[proposals[q].trx] < ToSeconds(now)
    /\ proposals' = [proposals EXCEPT ![q].exists = FALSE, ![q].earliest_exec_time = 0]
    /\ approvals' = [approvals EXCEPT ![q] = NoApprovals]
    /\ Forget(q)
    /\ UNCHANGED <<now, authority, invals, sent>>

(* Mutant: the approvals stay, as in the other uses of the helper.         *)
ApprovalsAfterExec_Kept(q) == approvals

(* table_op of exec: get_approvals_and_adjust_table erases the row.        *)
ApprovalsAfterExec(q) == [approvals EXCEPT ![q] = NoApprovals]

(* Anyone may execute; the inline actions run after the handler.           *)
exec(q) ==
    LET prop == proposals[q]
    IN  /\ prop.exists
        /\ Expiration[prop.trx] >= ToSeconds(now)
        /\ trx_is_authorized(q, approvals[q].provided)
        /\ IF prop.earliest_exec_time # 0
           THEN prop.earliest_exec_time <= now
           ELSE DelaySec[prop.trx] = 0
        /\ Len(sent) < MaxSent    \* bound
        /\ sent' = Append(sent, prop.trx)
        /\ proposals' = [proposals EXCEPT ![q].exists = FALSE,
                                          ![q].earliest_exec_time = 0]
        /\ approvals' = ApprovalsAfterExec(q)
        /\ Forget(q)
        /\ UNCHANGED <<now, authority, invals>>

invalidate(account) ==
    /\ invals' = [invals EXCEPT ![account] = now]
    /\ valid' = {s \in valid : ActorOf[s[2]] # account}
    /\ UNCHANGED <<now, authority, proposals, approvals, sent, approved>>

-----------------------------------------------------------------------------
(* The environment: accounts change their authorities, blocks come.        *)

changeauth ==
    /\ authority' \in Authorities \ {authority}
    /\ UNCHANGED <<now, proposals, approvals, invals, sent, approved, valid>>

Tick ==
    /\ now < MaxTime
    /\ now' = now + 1
    /\ UNCHANGED <<authority, proposals, approvals, invals, sent, approved, valid>>

Authorized(q) ==
    proposals[q].exists /\ trx_is_authorized(q, approvals[q].provided)

(* The history variables look at the tables after the step.                *)
History ==
    /\ since' = [q \in Keys |->
          IF ~Authorized(q)' THEN 0 ELSE IF since[q] = 0 THEN now' ELSE since[q]]
    /\ lost' = {q \in Keys :
          /\ proposals'[q].earliest_exec_time # 0
          /\ \/ q \in lost
             \/ ~Authorized(q)' /\ (invals' # invals \/ authority' # authority)}

Next ==
    \/ \E q \in Keys, r \in Requests, t \in Trxs : propose(q, r, t) /\ History
    \/ \E q \in Keys, l \in Levels, h \in Hashes : approve(q, l, h) /\ History
    \/ \E q \in Keys, l \in Levels : unapprove(q, l) /\ History
    \/ \E q \in Keys, c \in Proposers \cup Actors : cancel(q, c) /\ History
    \/ \E q \in Keys : exec(q) /\ History
    \/ \E a \in Actors : invalidate(a) /\ History
    \/ changeauth /\ History
    \/ Tick /\ History

Spec == Init /\ [][Next]_vars

-----------------------------------------------------------------------------
(* Properties.                                                             *)

TypeOK ==
    /\ now \in 1..MaxTime
    /\ authority \in Authorities
    /\ proposals \in [Keys -> Proposal]
    /\ \A q \in Keys :
          /\ approvals[q].exists \in BOOLEAN
          /\ approvals[q].requested \in [Levels -> 0..Copies]
          /\ Range(approvals[q].provided) \subseteq Approval
    /\ invals \in [Actors -> 0..MaxTime]
    /\ sent \in Seq(Trxs)

(* The tables are well typed, and both have a row of a proposal or none    *)
(* has: a name can be used again after every way a proposal ends, and      *)
(* nothing of the old proposal is left for the new one.                    *)
TablesInv ==
    /\ TypeOK
    /\ \A q \in Keys : /\ proposals[q].exists = approvals[q].exists
                       /\ ~approvals[q].exists => approvals[q] = NoApprovals

(* How often l is in the two lists of q.                                   *)
Places(q, l) ==
    approvals[q].requested[l]
      + Cardinality({i \in DOMAIN approvals[q].provided :
                        approvals[q].provided[i].level = l})

(* No level is lost between the two lists: while a proposal lives, each    *)
(* requested level can still either approve or unapprove, also after an    *)
(* invalidation made its approval worthless.                               *)
LevelsKept ==
    [][\A q \in Keys, l \in Levels :
          proposals[q].exists /\ proposals'[q].exists => Places(q, l)' = Places(q, l)]_vars

Executed(q) ==
    sent' # sent /\ proposals[q].exists /\ ~proposals'[q].exists

(* The levels that stand by q: they have approved it more often than they  *)
(* have revoked an approval, and not only before an invalidation.          *)
Standing(q) == {l \in Levels : approved[q][l] > 0 /\ <<q, l>> \in valid}

(* A transaction is executed only if the levels that stand by it are       *)
(* enough: no approval counts that its level has revoked, that its actor   *)
(* has invalidated, or that was given to an earlier proposal of the name.  *)
(* propose does not refuse a level requested twice; such a level approves  *)
(* twice and stands by the proposal until it has revoked both.             *)
ExecByStanding ==
    [][\A q \in Keys : Executed(q) =>
          check_transaction_authorization(proposals[q].trx, Standing(q))]_vars

(* A transaction is executed only after it has been authorized for its     *)
(* whole delay without a break, unless it lost the authorization by an     *)
(* invalidation or a change of authority: these do not reset the time.     *)
DelayKept ==
    [][\A q \in Keys : Executed(q) /\ q \notin lost =>
          /\ since[q] # 0
          /\ since[q] + 2 * DelaySec[proposals[q].trx] <= now]_vars

(* An approval given with a hash is on the transaction it was given for,   *)
(* although the proposer may cancel and propose another transaction under  *)
(* the same name at any moment.                                            *)
HashInv ==
    \A q \in Keys : \A a \in Range(approvals[q].provided) :
        a.hash \in {NoHash, proposals[q].trx}
=============================================================================
