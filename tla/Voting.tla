------------------------------- MODULE Voting -------------------------------
(***************************************************************************)
(* The voting part of flon.system (built with ENABLE_VOTING_PRODUCER):     *)
(* producers register, accounts stake core tokens for votes, vote for      *)
(* producers, withdraw votes, and get the stake back after a delay by a    *)
(* voterefund, which subvote sends as a deferred transaction and which     *)
(* anyone may also push by hand.                                           *)
(*                                                                         *)
(* The clock counts blocks, two per second; 0 is time_point().  This       *)
(* module has the tables of flon.system only; Election adds the token      *)
(* transfers and the calls to flon.reward that the same actions make.      *)
(* Keys, urls, locations, reward ratios and last_unvoted_time, which no    *)
(* check reads, are left out.                                              *)
(***************************************************************************)
EXTENDS Integers, FiniteSets, Functions

CONSTANTS
    Voters,
    Producers,
    MaxVoteProducers,   \* max_vote_producer_count, 30
    RefundDelaySec,     \* refund_delay_sec, 3 days
    ElectionTimes,      \* bound: the times cfgelection is called with
    MaxVotes,           \* bound: tokens of a voter, staked or waiting
    MaxTime             \* bound: the last block

ASSUME VotingAssumption ==
    /\ IsFiniteSet(Voters)
    /\ IsFiniteSet(Producers)
    /\ MaxVoteProducers \in Nat
    /\ RefundDelaySec \in Nat \ {0}
    /\ MaxVotes \in Nat
    /\ MaxTime \in Nat \ {0}
    /\ ElectionTimes \subseteq 1..MaxTime

VARIABLES
    now,                      \* current_time_point(), in blocks
    election_activated_time,  \* _gstate, 0 when not configured
    total_vote_stake,         \* _gstate
    producers,                \* _producers, by owner
    voters,                   \* _voters, by owner
    refunds,                  \* vote_refund_table of each voter
    deferred,                 \* when the deferred voterefund may run, 0: none
    due                       \* history: when the delay of a refund is over, 0: none

vars == <<now, election_activated_time, total_vote_stake, producers, voters,
          refunds, deferred, due>>

Times == 0..MaxTime

ProducerInfo ==
    [ exists : BOOLEAN, is_active : BOOLEAN, total_votes : Nat ]

VoterInfo ==
    [ exists : BOOLEAN, votes : 0..MaxVotes, producers : SUBSET Producers ]

(* request_time is a time_point_sec; no row has vote_staked 0.             *)
VoteRefund == [ vote_staked : 0..MaxVotes, request_time : Times ]

NoRefund == [ vote_staked |-> 0, request_time |-> 0 ]

Init ==
    /\ now = 1
    /\ election_activated_time = 0
    /\ total_vote_stake = 0
    /\ producers = [p \in Producers |->
          [ exists |-> FALSE, is_active |-> FALSE, total_votes |-> 0 ]]
    /\ voters = [v \in Voters |->
          [ exists |-> FALSE, votes |-> 0, producers |-> {} ]]
    /\ refunds = [v \in Voters |-> NoRefund]
    /\ deferred = [v \in Voters |-> 0]
    /\ due = [v \in Voters |-> 0]

-----------------------------------------------------------------------------
(* Producers.                                                              *)

(* regproducer and regproducer2 both end in register_producer, which       *)
(* leaves the votes of a returning producer as they are.                   *)
register_producer(p) ==
    /\ producers' = [producers EXCEPT ![p].exists = TRUE, ![p].is_active = TRUE]
    /\ UNCHANGED <<now, election_activated_time, total_vote_stake, voters,
                   refunds, deferred, due>>

deactivate(p) ==
    /\ producers[p].exists
    /\ producers' = [producers EXCEPT ![p].is_active = FALSE]
    /\ UNCHANGED <<now, election_activated_time, total_vote_stake, voters,
                   refunds, deferred, due>>

unregprod(p) == deactivate(p)

rmvproducer(p) == deactivate(p)

-----------------------------------------------------------------------------
(* Votes.                                                                  *)

(* Mutant: votes of an inactive producer cannot be withdrawn.              *)
UpdateChecks_AlwaysActive(p, total, votes_delta) ==
    producers[p].exists /\ producers[p].is_active /\ total + votes_delta >= 0

(* The checks update_producer_votes makes for producer p, whose votes are  *)
(* total at that moment.                                                   *)
UpdateChecks(p, total, votes_delta) ==
    /\ producers[p].exists
    /\ votes_delta > 0 => producers[p].is_active
    /\ total + votes_delta >= 0

update_producer_votes(P, votes_delta) ==
    /\ \A p \in P : UpdateChecks(p, producers[p].total_votes, votes_delta)
    /\ producers' = [p \in Producers |->
          IF p \in P THEN [producers[p] EXCEPT !.total_votes = @ + votes_delta]
                     ELSE producers[p]]

(* The merge loop compares the iterators of the two lists, which point     *)
(* into different vectors, and not the names: it never finds a producer    *)
(* that is in both.  Every old producer is removed, every new one added.   *)
removed_prods(old, new) == old

(* Mutant: kept producers are removed and not added again.                 *)
added_prods_NewOnly(old, new) == new \ old

added_prods(old, new) == new

voteproducer(v, prods) ==
    LET row == voters[v]
        removed == removed_prods(row.producers, prods)
        added == added_prods(row.producers, prods)
        Less(p) == producers[p].total_votes - (IF p \in removed THEN row.votes ELSE 0)
    IN  /\ Cardinality(prods) <= MaxVoteProducers
        /\ row.exists
        /\ prods # row.producers
        /\ \A p \in removed : UpdateChecks(p, producers[p].total_votes, -row.votes)
        /\ \A p \in added : UpdateChecks(p, Less(p), row.votes)
        /\ producers' = [p \in Producers |->
              [producers[p] EXCEPT !.total_votes =
                  Less(p) + (IF p \in added THEN row.votes ELSE 0)]]
        /\ voters' = [voters EXCEPT ![v].producers = prods]
        /\ UNCHANGED <<now, election_activated_time, total_vote_stake,
                       refunds, deferred, due>>

(* The first stake replaces the zero asset, later ones add to it.          *)
AddStake(vote_staked) ==
    IF total_vote_stake = 0 THEN vote_staked ELSE total_vote_stake + vote_staked

addvote(v, vote_staked) ==
    /\ vote_staked > 0
    /\ voters[v].votes + refunds[v].vote_staked + vote_staked <= MaxVotes    \* bound
    /\ total_vote_stake' = AddStake(vote_staked)
    /\ update_producer_votes(voters[v].producers, vote_staked)
    /\ voters' = [voters EXCEPT ![v].exists = TRUE, ![v].votes = @ + vote_staked]
    /\ UNCHANGED <<now, election_activated_time, refunds, deferred, due>>

(* Mutant: the half second is rounded up.                                  *)
ToSeconds_Up(t) == (t + 1) \div 2

(* A time_point as a time_point_sec: the half second is cut off.           *)
ToSeconds(t) == t \div 2

(* Mutant: the delay is not waited for.                                    *)
Mature_AtOnce(refund) == 2 * refund.request_time <= now

(* Mutant: a refund is not mature in the block it becomes due.             *)
Mature_Late(refund) == 2 * (refund.request_time + RefundDelaySec) < now

(* seconds(refund_delay_sec) after request_time has come.                  *)
Mature(refund) == 2 * (refund.request_time + RefundDelaySec) <= now

(* The checks of subvote.                                                  *)
SubvoteChecks(v, vote_staked) ==
    /\ election_activated_time # 0
    /\ election_activated_time <= now
    /\ vote_staked > 0
    /\ voters[v].exists
    /\ voters[v].votes >= vote_staked
    /\ total_vote_stake >= vote_staked
    /\ refunds[v] = NoRefund
    /\ \A p \in voters[v].producers :
          UpdateChecks(p, producers[p].total_votes, -vote_staked)

(* queued: the host keeps the deferred transaction.  It replaces the one   *)
(* with the same sender id.  A host that no longer takes deferred          *)
(* transactions ignores the call, and one sent before stays as it is.      *)
subvote(v, vote_staked, queued) ==
    /\ SubvoteChecks(v, vote_staked)
    /\ now + 2 * RefundDelaySec <= MaxTime    \* bound: it can mature in time
    /\ total_vote_stake' = total_vote_stake - vote_staked
    /\ update_producer_votes(voters[v].producers, -vote_staked)
    /\ voters' = [voters EXCEPT ![v].votes = @ - vote_staked]
    /\ refunds' = [refunds EXCEPT ![v] =
          [ vote_staked |-> vote_staked, request_time |-> ToSeconds(now) ]]
    /\ due' = [due EXCEPT ![v] = now + 2 * RefundDelaySec]
    /\ deferred' = IF queued THEN [deferred EXCEPT ![v] = now + 2 * RefundDelaySec]
                             ELSE deferred
    /\ UNCHANGED <<now, election_activated_time>>

RefundChecks(v) == refunds[v] # NoRefund /\ Mature(refunds[v])

PayRefund(v) ==
    /\ refunds' = [refunds EXCEPT ![v] = NoRefund]
    /\ due' = [due EXCEPT ![v] = 0]

(* Pushed by anyone: voterefund asks for no authority.                     *)
voterefund(v) ==
    /\ RefundChecks(v)
    /\ PayRefund(v)
    /\ UNCHANGED <<now, election_activated_time, total_vote_stake, producers,
                   voters, deferred>>

(* The host runs a deferred voterefund once, at or after its time; when    *)
(* its checks fail it is gone without an effect.                           *)
RunDeferred(v) ==
    /\ deferred[v] # 0
    /\ deferred[v] <= now
    /\ deferred' = [deferred EXCEPT ![v] = 0]
    /\ IF RefundChecks(v) THEN PayRefund(v) ELSE UNCHANGED <<refunds, due>>
    /\ UNCHANGED <<now, election_activated_time, total_vote_stake, producers,
                   voters>>

(* The host loses a deferred voterefund without running it: it expires, is *)
(* cancelled, cannot be billed, or the chain gives up deferred             *)
(* transactions altogether.                                                *)
DropDeferred(v) ==
    /\ deferred[v] # 0
    /\ deferred' = [deferred EXCEPT ![v] = 0]
    /\ UNCHANGED <<now, election_activated_time, total_vote_stake, producers,
                   voters, refunds, due>>

-----------------------------------------------------------------------------
(* The election time of cfgelection, which may be moved until it is past.  *)
cfgelection(activated_time) ==
    /\ IF election_activated_time = 0 \/ election_activated_time > now
       THEN activated_time > now
       ELSE activated_time = election_activated_time
    /\ election_activated_time' = activated_time
    /\ UNCHANGED <<now, total_vote_stake, producers, voters, refunds, deferred, due>>

(* The next block.                                                         *)
Tick ==
    /\ now < MaxTime
    /\ now' = now + 1
    /\ UNCHANGED <<election_activated_time, total_vote_stake, producers,
                   voters, refunds, deferred, due>>

Next ==
    \/ \E p \in Producers : register_producer(p)
    \/ \E p \in Producers : unregprod(p)
    \/ \E p \in Producers : rmvproducer(p)
    \/ \E v \in Voters, P \in SUBSET Producers : voteproducer(v, P)
    \/ \E v \in Voters, n \in 1..MaxVotes : addvote(v, n)
    \/ \E v \in Voters, n \in 1..MaxVotes, queued \in BOOLEAN : subvote(v, n, queued)
    \/ \E v \in Voters : voterefund(v)
    \/ \E v \in Voters : RunDeferred(v)
    \/ \E v \in Voters : DropDeferred(v)
    \/ \E t \in ElectionTimes : cfgelection(t)
    \/ Tick

Spec == Init /\ [][Next]_vars

(* Blocks keep coming.  Nothing is assumed of the deferred transactions,   *)
(* nor of any account.                                                     *)
FairSpec == Spec /\ WF_vars(Tick)

-----------------------------------------------------------------------------
(* Properties.                                                             *)

TypeOK ==
    /\ now \in 1..MaxTime
    /\ election_activated_time \in Times
    /\ total_vote_stake \in Nat
    /\ producers \in [Producers -> ProducerInfo]
    /\ voters \in [Voters -> VoterInfo]
    /\ refunds \in [Voters -> VoteRefund]
    /\ deferred \in [Voters -> Times]
    /\ due \in [Voters -> Times]

VotesOn(v, p) == IF p \in voters[v].producers THEN voters[v].votes ELSE 0

(* The tables are well typed and add up: producer_info::total_votes is     *)
(* exactly the votes of the voters that list the producer, whatever is     *)
(* unregistered, listed again or withdrawn in between, although            *)
(* voteproducer counts every kept producer twice, and total_vote_stake is  *)
(* the votes of all the voters.                                            *)
TallyInv ==
    /\ TypeOK
    /\ \A p \in Producers :
          producers[p].total_votes
            = SumFunctionOnSet([v \in Voters |-> VotesOn(v, p)], Voters)
    /\ total_vote_stake
         = SumFunctionOnSet([v \in Voters |-> voters[v].votes], Voters)

(* A voter is never locked in: once the election is active, a voter        *)
(* without a pending refund can withdraw any of its votes, whatever became *)
(* of the producers it votes for.                                          *)
ExitInv ==
    \A v \in Voters, n \in 1..MaxVotes :
        /\ election_activated_time # 0
        /\ election_activated_time <= now
        /\ n <= voters[v].votes
        /\ refunds[v] = NoRefund
        => SubvoteChecks(v, n)

(* Once the delay of subvote is over, a refund that is still pending is    *)
(* never refused, whoever asks for it: the deferred voterefund, if the     *)
(* host runs it at its time, finds it mature although request_time has     *)
(* lost the half second, and so does one pushed by hand after the host has *)
(* lost the deferred one, or has run one that was left from an earlier     *)
(* refund.                                                                 *)
RefundableInv ==
    \A v \in Voters :
        refunds[v] # NoRefund /\ now >= due[v] => RefundChecks(v)

(* A refund is paid whole and never much before its delay is over: the     *)
(* row goes, unchanged until then, at most half a second before the time   *)
(* counted from the block of its subvote, also when a deferred voterefund  *)
(* of an earlier refund comes late.                                        *)
RefundOnTime ==
    [][\A v \in Voters : refunds[v] # NoRefund /\ refunds'[v] # refunds[v] =>
          /\ refunds'[v] = NoRefund
          /\ now + 1 >= due[v]]_vars

(* A withdrawn stake never depends on the deferred transaction, which the  *)
(* host may lose: if somebody keeps pushing voterefund for v, as the tests *)
(* do by hand, the stake of v is paid back.                                *)
RefundPaid ==
    \A v \in Voters :
        WF_vars(voterefund(v)) => (refunds[v] # NoRefund ~> refunds[v] = NoRefund)
=============================================================================
