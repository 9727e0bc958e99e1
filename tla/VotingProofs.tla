---------------------------- MODULE VotingProofs ----------------------------
(***************************************************************************)
(* Theorems about Voting, for any finite sets of voters and producers, any *)
(* refund delay and any bounds.                                            *)
(***************************************************************************)
EXTENDS Voting, SumTheorems

VotesOf(p) == [v \in Voters |-> VotesOn(v, p)]

Stakes == [v \in Voters |-> voters[v].votes]

(* Only accounts that registered as producers are ever voted for, and only *)
(* accounts in the voters table have votes: the rows the checks of         *)
(* update_producer_votes and subvote look up are there.                    *)
RowsInv ==
    \A v \in Voters :
        /\ \A p \in voters[v].producers : producers[p].exists
        /\ voters[v].votes > 0 => voters[v].exists

(* The delay of a pending refund is over when the refund is mature or,     *)
(* since request_time lost the half second, one block later.  Nothing is   *)
(* said of the deferred transaction, which the host may have lost.         *)
DueInv ==
    \A v \in Voters : refunds[v] # NoRefund =>
        /\ 2 * (refunds[v].request_time + RefundDelaySec) <= due[v]
        /\ due[v] <= 2 * (refunds[v].request_time + RefundDelaySec) + 1

(* The inductive invariant.                                                *)
Ind ==
    /\ TypeOK
    /\ \A p \in Producers :
          producers[p].total_votes = SumFunctionOnSet(VotesOf(p), Voters)
    /\ total_vote_stake = SumFunctionOnSet(Stakes, Voters)
    /\ RowsInv
    /\ DueInv

-----------------------------------------------------------------------------
LEMMA RowFields ==
    ASSUME TypeOK, NEW v \in Voters
    PROVE  /\ voters[v].votes \in Nat /\ voters[v].votes <= MaxVotes
           /\ voters[v].producers \in SUBSET Producers
           /\ voters[v].exists \in BOOLEAN
           /\ refunds[v].request_time \in Nat
           /\ refunds[v].vote_staked \in Nat
           /\ deferred[v] \in Nat /\ due[v] \in Nat
           /\ \A p \in Producers :
                /\ producers[p].total_votes \in Nat
                /\ VotesOn(v, p) \in Nat
BY VotingAssumption
   DEF TypeOK, VoterInfo, ProducerInfo, VoteRefund, Times, VotesOn

(* A change of one voter's votes and of the totals by as much keeps the    *)
(* totals the sums they are.                                               *)
LEMMA TallyKept ==
    ASSUME Ind, TypeOK', NEW v \in Voters,
           \A u \in Voters \ {v} : voters'[u] = voters[u],
           \A p \in Producers :
              producers'[p].total_votes
                = producers[p].total_votes - VotesOn(v, p) + VotesOn(v, p)',
           total_vote_stake'
             = total_vote_stake - voters[v].votes + voters'[v].votes
    PROVE  /\ \A p \in Producers :
                producers'[p].total_votes = SumFunctionOnSet(VotesOf(p)', Voters)
           /\ total_vote_stake' = SumFunctionOnSet(Stakes', Voters)
<1>0. IsFiniteSet(Voters) /\ TypeOK
  BY VotingAssumption DEF Ind
<1>1. ASSUME NEW p \in Producers
      PROVE  producers'[p].total_votes = SumFunctionOnSet(VotesOf(p)', Voters)
  <2> DEFINE f == VotesOf(p)
             h == VotesOf(p)'
  <2>1. IntOn(f, Voters) /\ f[v] = VotesOn(v, p)
    BY <1>0, RowFields DEF VotesOf, IntOn
  <2>2. h[v] = VotesOn(v, p)' /\ h[v] \in Int
    <3>1. h[v] = VotesOn(v, p)'
      BY DEF VotesOf
    <3>2. voters'[v].votes \in Int
      BY VotingAssumption DEF TypeOK, VoterInfo
    <3> QED BY <3>1, <3>2 DEF VotesOn
  <2>3. \A u \in Voters \ {v} : h[u] = f[u]
    BY DEF VotesOf, VotesOn
  <2>4. producers[p].total_votes = SumFunctionOnSet(f, Voters)
    BY DEF Ind
  <2> HIDE DEF f, h
  <2>5. SumFunctionOnSet(h, Voters) = SumFunctionOnSet(f, Voters) - f[v] + h[v]
    BY <1>0, <2>1, <2>2, <2>3, SumUpdate
  <2> QED BY <2>1, <2>2, <2>4, <2>5 DEF h
<1>2. total_vote_stake' = SumFunctionOnSet(Stakes', Voters)
  <2> DEFINE f == Stakes
             h == Stakes'
  <2>1. IntOn(f, Voters) /\ f[v] = voters[v].votes
    BY <1>0, RowFields DEF Stakes, IntOn
  <2>2. h[v] = voters'[v].votes /\ h[v] \in Int
    BY VotingAssumption DEF Stakes, TypeOK, VoterInfo
  <2>3. \A u \in Voters \ {v} : h[u] = f[u]
    BY DEF Stakes
  <2>4. total_vote_stake = SumFunctionOnSet(f, Voters)
    BY DEF Ind
  <2> HIDE DEF f, h
  <2>5. SumFunctionOnSet(h, Voters) = SumFunctionOnSet(f, Voters) - f[v] + h[v]
    BY ONLY <1>0, <2>1, <2>2, <2>3, SumUpdate, v \in Voters
  <2> QED BY <2>1, <2>2, <2>4, <2>5 DEF h
<1> QED BY <1>1, <1>2

LEMMA InitInd == Init => Ind
<1> SUFFICES ASSUME Init PROVE Ind
  OBVIOUS
<1>1. TypeOK
  BY VotingAssumption
     DEF Init, TypeOK, Times, ProducerInfo, VoterInfo, VoteRefund, NoRefund
<1>2. ASSUME NEW p \in Producers
      PROVE  producers[p].total_votes = SumFunctionOnSet(VotesOf(p), Voters)
  <2>1. \A v \in Voters : VotesOf(p)[v] = 0
    BY DEF Init, VotesOf, VotesOn
  <2>2. SumFunctionOnSet(VotesOf(p), Voters) = 0
    BY <2>1, SumZero, VotingAssumption
  <2> QED BY <2>2 DEF Init
<1>3. total_vote_stake = SumFunctionOnSet(Stakes, Voters)
  <2>1. \A v \in Voters : Stakes[v] = 0
    BY DEF Init, Stakes
  <2>2. SumFunctionOnSet(Stakes, Voters) = 0
    BY <2>1, SumZero, VotingAssumption
  <2> QED BY <2>2 DEF Init
<1>4. RowsInv /\ DueInv
  BY DEF Init, RowsInv, DueInv
<1> QED BY <1>1, <1>2, <1>3, <1>4 DEF Ind

(* register_producer, unregprod and rmvproducer touch no vote.             *)
LEMMA ProducerInd ==
    ASSUME Ind, NEW p \in Producers, register_producer(p) \/ deactivate(p)
    PROVE  Ind'
<1>0. TypeOK /\ RowsInv /\ DueInv
  BY DEF Ind
<1>1. /\ producers' \in [Producers -> ProducerInfo]
      /\ \A q \in Producers :
            /\ producers'[q].total_votes = producers[q].total_votes
            /\ producers[q].exists => producers'[q].exists
  <2>1. CASE register_producer(p)
    <3> DEFINE r == [producers EXCEPT ![p].exists = TRUE]
    <3>1. /\ r \in [Producers -> ProducerInfo]
          /\ r[p].exists
          /\ \A q \in Producers : r[q].total_votes = producers[q].total_votes
          /\ \A q \in Producers \ {p} : r[q].exists = producers[q].exists
      BY <1>0 DEF TypeOK, ProducerInfo
    <3>2. producers' = [r EXCEPT ![p].is_active = TRUE]
      BY <2>1 DEF register_producer
    <3> HIDE DEF r
    <3> QED BY <3>1, <3>2 DEF ProducerInfo
  <2>2. CASE deactivate(p)
    BY <1>0, <2>2 DEF deactivate, TypeOK, ProducerInfo
  <2> QED BY <2>1, <2>2
<1>2. UNCHANGED <<now, election_activated_time, total_vote_stake, voters,
                  refunds, deferred, due>>
  BY DEF register_producer, deactivate
<1>3. TypeOK'
  BY <1>0, <1>1, <1>2 DEF TypeOK
<1>4. \A q \in Producers : VotesOf(q)' = VotesOf(q)
  BY <1>2 DEF VotesOf, VotesOn
<1>5. Stakes' = Stakes
  BY <1>2 DEF Stakes
<1>6. RowsInv'
  BY <1>0, <1>1, <1>2, RowFields DEF RowsInv
<1>7. DueInv'
  BY <1>0, <1>2 DEF DueInv
<1> QED BY <1>1, <1>2, <1>3, <1>4, <1>5, <1>6, <1>7 DEF Ind

LEMMA VoteproducerInd ==
    ASSUME Ind, NEW v \in Voters, NEW P \in SUBSET Producers, voteproducer(v, P)
    PROVE  Ind'
<1> DEFINE row == voters[v]
           Less(p) == producers[p].total_votes
                        - (IF p \in row.producers THEN row.votes ELSE 0)
           More(p) == Less(p) + (IF p \in P THEN row.votes ELSE 0)
<1>0. TypeOK /\ RowsInv /\ DueInv
  BY DEF Ind
<1>1. /\ row.votes \in Nat /\ row.producers \in SUBSET Producers
      /\ \A p \in Producers : producers[p] \in ProducerInfo
      /\ \A p \in Producers : producers[p].total_votes \in Nat
      /\ row \in VoterInfo
  BY <1>0, RowFields DEF TypeOK
<1>2. /\ \A p \in P : producers[p].exists /\ Less(p) + row.votes >= 0
      /\ \A p \in row.producers : producers[p].total_votes + (-row.votes) >= 0
      /\ producers' = [p \in Producers |-> [producers[p] EXCEPT !.total_votes = More(p)]]
      /\ voters' = [voters EXCEPT ![v].producers = P]
      /\ UNCHANGED <<now, election_activated_time, total_vote_stake, refunds, deferred, due>>
  BY DEF voteproducer, removed_prods, added_prods, UpdateChecks
<1>3. \A p \in Producers : More(p) \in Nat
  <2> SUFFICES ASSUME NEW p \in Producers PROVE More(p) \in Nat
    OBVIOUS
  <2>1. CASE p \in row.producers
    BY <1>1, <1>2, <2>1
  <2>2. CASE p \notin row.producers
    BY <1>1, <1>2, <2>2
  <2> QED BY <2>1, <2>2
<1> HIDE DEF More
<1>4. /\ producers' \in [Producers -> ProducerInfo]
      /\ \A p \in Producers : /\ producers'[p].total_votes = More(p)
                              /\ producers'[p].exists = producers[p].exists
  BY <1>1, <1>2, <1>3 DEF ProducerInfo
<1>5. /\ voters' \in [Voters -> VoterInfo]
      /\ voters'[v].producers = P /\ voters'[v].votes = row.votes
      /\ voters'[v].exists = row.exists
      /\ \A u \in Voters \ {v} : voters'[u] = voters[u]
  BY <1>0, <1>1, <1>2 DEF TypeOK, VoterInfo
<1>6. TypeOK'
  BY <1>0, <1>2, <1>4, <1>5 DEF TypeOK
<1>7. \A p \in Producers :
         producers'[p].total_votes
           = producers[p].total_votes - VotesOn(v, p) + VotesOn(v, p)'
  BY <1>1, <1>4, <1>5 DEF VotesOn, More
<1>8. total_vote_stake' = total_vote_stake - voters[v].votes + voters'[v].votes
  BY <1>0, <1>1, <1>2, <1>5 DEF TypeOK
<1>9. RowsInv'
  <2> SUFFICES ASSUME NEW u \in Voters
               PROVE  /\ \A p \in voters'[u].producers : producers'[p].exists
                      /\ voters'[u].votes > 0 => voters'[u].exists
    BY DEF RowsInv
  <2>1. CASE u = v
    BY <1>0, <1>2, <1>4, <1>5, <2>1 DEF RowsInv
  <2>2. CASE u # v
    <3>1. voters[u].producers \in SUBSET Producers
      BY <1>0, RowFields
    <3> QED BY <1>0, <1>4, <1>5, <2>2, <3>1 DEF RowsInv
  <2> QED BY <2>1, <2>2
<1>10. DueInv'
  BY <1>0, <1>2 DEF DueInv
<1> QED BY <1>5, <1>6, <1>7, <1>8, <1>9, <1>10, TallyKept DEF Ind

(* addvote and subvote: the voter's votes and the votes of all producers   *)
(* it lists move by the same amount.                                       *)
LEMMA ChangeVoteInd ==
    ASSUME Ind, NEW v \in Voters, NEW delta \in Int,
           update_producer_votes(voters[v].producers, delta),
           voters'[v].votes = voters[v].votes + delta,
           voters'[v].producers = voters[v].producers,
           voters[v].exists => voters'[v].exists,
           delta > 0 => voters'[v].exists,
           voters' \in [Voters -> VoterInfo],
           \A u \in Voters \ {v} : voters'[u] = voters[u],
           total_vote_stake' = total_vote_stake + delta,
           total_vote_stake' \in Nat,
           UNCHANGED <<now, election_activated_time>>,
           refunds' \in [Voters -> VoteRefund],
           deferred' \in [Voters -> Times],
           due' \in [Voters -> Times],
           DueInv'
    PROVE  Ind'
<1> DEFINE row == voters[v]
           Total(p) == producers[p].total_votes + delta
<1>0. TypeOK /\ RowsInv
  BY DEF Ind
<1>1. /\ row.votes \in Nat /\ row.producers \in SUBSET Producers
      /\ \A p \in Producers : producers[p] \in ProducerInfo
      /\ \A p \in Producers : producers[p].total_votes \in Nat
      /\ total_vote_stake \in Nat
  BY <1>0, RowFields DEF TypeOK
<1>2. /\ \A p \in row.producers : Total(p) >= 0
      /\ producers' = [p \in Producers |->
            IF p \in row.producers
            THEN [producers[p] EXCEPT !.total_votes = Total(p)]
            ELSE producers[p]]
  BY DEF update_producer_votes, UpdateChecks
<1>3. \A p \in row.producers : Total(p) \in Nat
  BY <1>1, <1>2
<1> HIDE DEF Total
<1>4. /\ producers' \in [Producers -> ProducerInfo]
      /\ \A p \in Producers :
            /\ producers'[p].total_votes
                 = IF p \in row.producers THEN Total(p) ELSE producers[p].total_votes
            /\ producers'[p].exists = producers[p].exists
  BY <1>1, <1>2, <1>3 DEF ProducerInfo
<1>5. TypeOK'
  BY <1>0, <1>4 DEF TypeOK
<1>6. \A p \in Producers :
         producers'[p].total_votes
           = producers[p].total_votes - VotesOn(v, p) + VotesOn(v, p)'
  BY <1>1, <1>4 DEF VotesOn, Total
<1>7. total_vote_stake' = total_vote_stake - voters[v].votes + voters'[v].votes
  BY <1>1
<1>8. RowsInv'
  <2> SUFFICES ASSUME NEW u \in Voters
               PROVE  /\ \A p \in voters'[u].producers : producers'[p].exists
                      /\ voters'[u].votes > 0 => voters'[u].exists
    BY DEF RowsInv
  <2>1. voters[u].producers \in SUBSET Producers
    BY <1>0, RowFields
  <2>2. CASE u = v
    <3>1. \A p \in voters'[u].producers : producers'[p].exists
      BY <1>0, <1>4, <2>1, <2>2 DEF RowsInv
    <3>2. voters'[u].votes > 0 => delta > 0 \/ voters[v].votes > 0
      BY <1>1, <2>2
    <3> QED BY <1>0, <2>2, <3>1, <3>2 DEF RowsInv
  <2>3. CASE u # v
    BY <1>0, <1>4, <2>1, <2>3 DEF RowsInv
  <2> QED BY <2>2, <2>3
<1> QED BY <1>5, <1>6, <1>7, <1>8, TallyKept DEF Ind

LEMMA AddvoteInd ==
    ASSUME Ind, NEW v \in Voters, NEW n \in 1..MaxVotes, addvote(v, n)
    PROVE  Ind'
<1>0. TypeOK /\ DueInv /\ MaxVotes \in Nat
  BY VotingAssumption DEF Ind
<1>1. /\ update_producer_votes(voters[v].producers, n)
      /\ voters[v].votes + refunds[v].vote_staked + n <= MaxVotes
      /\ voters' = [voters EXCEPT ![v].exists = TRUE, ![v].votes = @ + n]
      /\ total_vote_stake' = AddStake(n)
      /\ UNCHANGED <<now, election_activated_time, refunds, deferred, due>>
  BY DEF addvote
<1>2. voters[v].votes + n \in 0..MaxVotes
  BY <1>0, <1>1, RowFields
<1>3. /\ voters' \in [Voters -> VoterInfo]
      /\ voters'[v].votes = voters[v].votes + n
      /\ voters'[v].producers = voters[v].producers
      /\ voters'[v].exists
      /\ \A u \in Voters \ {v} : voters'[u] = voters[u]
  <2> DEFINE r == [voters EXCEPT ![v].exists = TRUE]
  <2>1. /\ r \in [Voters -> VoterInfo]
        /\ r[v].votes = voters[v].votes /\ r[v].exists
        /\ r[v].producers = voters[v].producers
        /\ \A u \in Voters \ {v} : r[u] = voters[u]
    BY <1>0 DEF TypeOK, VoterInfo
  <2>2. voters' = [r EXCEPT ![v].votes = @ + n]
    BY <1>1
  <2> HIDE DEF r
  <2> QED BY <1>2, <2>1, <2>2 DEF VoterInfo
<1>4. total_vote_stake' = total_vote_stake + n /\ total_vote_stake' \in Nat
  BY <1>0, <1>1 DEF AddStake, TypeOK
<1>5. /\ refunds' \in [Voters -> VoteRefund]
      /\ deferred' \in [Voters -> Times]
      /\ due' \in [Voters -> Times]
      /\ DueInv'
  BY <1>0, <1>1 DEF TypeOK, DueInv
<1> QED BY <1>1, <1>3, <1>4, <1>5, ChangeVoteInd

(* A time_point_sec loses at most half a second.                           *)
LEMMA SecondsBound ==
    ASSUME NEW t \in Nat
    PROVE  /\ ToSeconds(t) \in Nat
           /\ 2 * ToSeconds(t) <= t /\ t <= 2 * ToSeconds(t) + 1
BY DEF ToSeconds

LEMMA SubvoteInd ==
    ASSUME Ind, NEW v \in Voters, NEW n \in 1..MaxVotes, NEW queued \in BOOLEAN,
           subvote(v, n, queued)
    PROVE  Ind'
<1>0. /\ TypeOK /\ DueInv
      /\ MaxVotes \in Nat /\ RefundDelaySec \in Nat \ {0} /\ MaxTime \in Nat
      /\ now \in 1..MaxTime
  BY VotingAssumption DEF Ind, TypeOK
<1> DEFINE over == now + 2 * RefundDelaySec
           refund == [ vote_staked |-> n, request_time |-> ToSeconds(now) ]
<1>1. /\ update_producer_votes(voters[v].producers, -n)
      /\ voters[v].votes >= n
      /\ total_vote_stake >= n
      /\ over <= MaxTime
      /\ voters' = [voters EXCEPT ![v].votes = @ - n]
      /\ total_vote_stake' = total_vote_stake - n
      /\ refunds' = [refunds EXCEPT ![v] = refund]
      /\ due' = [due EXCEPT ![v] = over]
      /\ deferred' = IF queued THEN [deferred EXCEPT ![v] = over] ELSE deferred
      /\ UNCHANGED <<now, election_activated_time>>
  BY DEF subvote, SubvoteChecks
<1>2. voters[v].votes - n \in 0..MaxVotes
  BY <1>0, <1>1, RowFields
<1>3. /\ voters' \in [Voters -> VoterInfo]
      /\ voters'[v].votes = voters[v].votes - n
      /\ voters'[v].producers = voters[v].producers
      /\ voters'[v].exists = voters[v].exists
      /\ \A u \in Voters \ {v} : voters'[u] = voters[u]
  BY <1>0, <1>1, <1>2 DEF TypeOK, VoterInfo
<1>4. voters'[v].votes = voters[v].votes + (-n)
  BY <1>0, <1>3, RowFields
<1>5. total_vote_stake' = total_vote_stake + (-n) /\ total_vote_stake' \in Nat
  BY <1>0, <1>1 DEF TypeOK
<1>6. /\ ToSeconds(now) \in 0..MaxTime
      /\ 2 * (ToSeconds(now) + RefundDelaySec) <= over
      /\ over <= 2 * (ToSeconds(now) + RefundDelaySec) + 1
      /\ over \in 0..MaxTime
  BY <1>0, <1>1, SecondsBound
<1>7. /\ refunds' \in [Voters -> VoteRefund]
      /\ deferred' \in [Voters -> Times] /\ due' \in [Voters -> Times]
  BY <1>0, <1>1, <1>6 DEF TypeOK, VoteRefund, Times
<1>8. DueInv'
  <2> SUFFICES ASSUME NEW u \in Voters, refunds'[u] # NoRefund
               PROVE  /\ 2 * (refunds'[u].request_time + RefundDelaySec) <= due'[u]
                      /\ due'[u] <= 2 * (refunds'[u].request_time + RefundDelaySec) + 1
    BY DEF DueInv
  <2>1. CASE u = v
    <3>1. refunds'[u].request_time = ToSeconds(now) /\ due'[u] = over
      BY <1>0, <1>1, <2>1 DEF TypeOK
    <3> QED BY <1>6, <3>1
  <2>2. CASE u # v
    <3>1. refunds'[u] = refunds[u] /\ due'[u] = due[u]
      BY <1>0, <1>1, <2>2 DEF TypeOK
    <3> QED BY <1>0, <3>1 DEF DueInv
  <2> QED BY <2>1, <2>2
<1>9. -n \in Int /\ ~(-n > 0)
  BY <1>0
<1> QED BY <1>1, <1>3, <1>4, <1>5, <1>7, <1>8, <1>9, ChangeVoteInd

(* Steps that move no votes and drop at most refunds.                      *)
LEMMA RefundInd ==
    ASSUME Ind, now' \in 1..MaxTime, election_activated_time' \in Times,
           UNCHANGED <<total_vote_stake, producers, voters>>,
           refunds' \in [Voters -> VoteRefund],
           deferred' \in [Voters -> Times],
           due' \in [Voters -> Times],
           \A v \in Voters :
              \/ refunds'[v] = refunds[v] /\ due'[v] = due[v]
              \/ refunds'[v] = NoRefund
    PROVE  Ind'
<1>0. TypeOK /\ RowsInv /\ DueInv
  BY DEF Ind
<1>1. TypeOK'
  BY <1>0 DEF TypeOK
<1>2. RowsInv' /\ DueInv'
  BY <1>0 DEF RowsInv, DueInv
<1>3. \A p \in Producers : VotesOf(p)' = VotesOf(p)
  BY DEF VotesOf, VotesOn
<1>4. Stakes' = Stakes
  BY DEF Stakes
<1> QED BY <1>1, <1>2, <1>3, <1>4 DEF Ind

(* When the delay of a pending refund is over, the refund is mature.       *)
LEMMA DueMature ==
    ASSUME TypeOK, DueInv, NEW v \in Voters, refunds[v] # NoRefund
    PROVE  /\ now >= due[v] => Mature(refunds[v])
           /\ Mature(refunds[v]) => now + 1 >= due[v]
<1>1. /\ refunds[v].request_time \in Nat /\ due[v] \in Nat
      /\ now \in Nat /\ RefundDelaySec \in Nat \ {0}
  BY RowFields, VotingAssumption DEF TypeOK
<1>2. /\ 2 * (refunds[v].request_time + RefundDelaySec) <= due[v]
      /\ due[v] <= 2 * (refunds[v].request_time + RefundDelaySec) + 1
  BY DEF DueInv
<1> QED BY <1>1, <1>2 DEF Mature

(* Every action preserves the inductive invariant.                         *)
LEMMA NextInd ==
    ASSUME Ind, [Next]_vars
    PROVE  Ind'
<1>0. TypeOK /\ DueInv
  BY DEF Ind
<1>1. CASE UNCHANGED vars
  BY <1>0, <1>1, RefundInd DEF vars, TypeOK
<1>2. ASSUME NEW p \in Producers,
             register_producer(p) \/ unregprod(p) \/ rmvproducer(p)
      PROVE  Ind'
  BY <1>2, ProducerInd DEF unregprod, rmvproducer
<1>3. ASSUME NEW v \in Voters, NEW P \in SUBSET Producers, voteproducer(v, P)
      PROVE  Ind'
  BY <1>3, VoteproducerInd
<1>4. ASSUME NEW v \in Voters, NEW n \in 1..MaxVotes, addvote(v, n)
      PROVE  Ind'
  BY <1>4, AddvoteInd
<1>5. ASSUME NEW v \in Voters, NEW n \in 1..MaxVotes, NEW queued \in BOOLEAN,
             subvote(v, n, queued)
      PROVE  Ind'
  BY <1>5, SubvoteInd
<1>6. NoRefund \in VoteRefund /\ 0 \in Times
  BY VotingAssumption DEF NoRefund, VoteRefund, Times
<1>7. ASSUME NEW v \in Voters, voterefund(v)
      PROVE  Ind'
  BY <1>0, <1>6, <1>7, RefundInd DEF voterefund, PayRefund, TypeOK
<1>8. ASSUME NEW v \in Voters, RunDeferred(v) \/ DropDeferred(v)
      PROVE  Ind'
  <2>1. /\ deferred' = [deferred EXCEPT ![v] = 0]
        /\ UNCHANGED <<now, election_activated_time, total_vote_stake, producers,
                       voters>>
        /\ PayRefund(v) \/ UNCHANGED <<refunds, due>>
    BY <1>8 DEF RunDeferred, DropDeferred
  <2>2. deferred' \in [Voters -> Times]
    BY <1>0, <1>6, <2>1 DEF TypeOK
  <2>3. /\ refunds' \in [Voters -> VoteRefund] /\ due' \in [Voters -> Times]
        /\ \A u \in Voters : \/ refunds'[u] = refunds[u] /\ due'[u] = due[u]
                            \/ refunds'[u] = NoRefund
    BY <1>0, <1>6, <2>1 DEF PayRefund, TypeOK
  <2> QED BY <1>0, <2>1, <2>2, <2>3, RefundInd DEF TypeOK
<1>9. ASSUME NEW t \in ElectionTimes, cfgelection(t)
      PROVE  Ind'
  <2>1. t \in Times
    BY VotingAssumption DEF Times
  <2> QED BY <1>0, <1>9, <2>1, RefundInd DEF cfgelection, TypeOK
<1>10. CASE Tick
  <2>1. now' \in 1..MaxTime
    BY <1>0, <1>10, VotingAssumption DEF Tick, TypeOK
  <2> QED BY <1>0, <1>10, <2>1, RefundInd DEF Tick, TypeOK
<1> QED
  BY <1>1, <1>2, <1>3, <1>4, <1>5, <1>7, <1>8, <1>9, <1>10 DEF Next

(* The inductive invariant holds in every reachable state.                 *)
THEOREM Invariance == Spec => []Ind
<1>1. Init => Ind
  BY InitInd
<1>2. Ind /\ [Next]_vars => Ind'
  BY NextInd
<1> QED BY <1>1, <1>2, PTL DEF Spec

-----------------------------------------------------------------------------
(* However registrations, votes and withdrawals follow each other,         *)
(* producer_info::total_votes is what the voters that list the producer    *)
(* have, and total_vote_stake what all of them have.                       *)
THEOREM TallyCorrect == Spec => []TallyInv
<1>1. Ind => TallyInv
  BY DEF Ind, TallyInv, VotesOf, Stakes
<1> QED BY <1>1, Invariance, PTL

(* The checks of subvote hold for every voter without a pending refund     *)
(* that asks for no more than it has.                                      *)
LEMMA IndExit ==
    ASSUME Ind
    PROVE  ExitInv
<1> SUFFICES ASSUME NEW v \in Voters, NEW n \in 1..MaxVotes,
                    election_activated_time # 0, election_activated_time <= now,
                    n <= voters[v].votes, refunds[v] = NoRefund
             PROVE  SubvoteChecks(v, n)
  BY DEF ExitInv
<1>0. TypeOK /\ RowsInv /\ IsFiniteSet(Voters)
  BY VotingAssumption DEF Ind
<1>1. n \in Nat /\ n > 0 /\ voters[v].votes \in Nat /\ total_vote_stake \in Nat
  BY <1>0, RowFields, VotingAssumption DEF TypeOK
<1>2. voters[v].exists
  BY <1>0, <1>1 DEF RowsInv
<1>3. voters[v].votes <= total_vote_stake
  <2>1. \A u \in Voters : Stakes[u] \in Nat
    BY <1>0, RowFields DEF Stakes
  <2>2. Stakes[v] = voters[v].votes
    BY DEF Stakes
  <2> QED BY <1>0, <2>1, <2>2, SumBound DEF Ind
<1>4. ASSUME NEW p \in voters[v].producers
      PROVE  UpdateChecks(p, producers[p].total_votes, -n)
  <2>1. p \in Producers /\ producers[p].exists /\ producers[p].total_votes \in Nat
    BY <1>0, RowFields DEF RowsInv
  <2>2. \A u \in Voters : VotesOf(p)[u] \in Nat
    BY <1>0, <2>1, RowFields DEF VotesOf
  <2>3. VotesOf(p)[v] = voters[v].votes
    BY DEF VotesOf, VotesOn
  <2>4. voters[v].votes <= producers[p].total_votes
    BY <1>0, <2>1, <2>2, <2>3, SumBound DEF Ind
  <2> QED BY <1>1, <2>1, <2>4 DEF UpdateChecks
<1>5. voters[v].votes >= n /\ total_vote_stake >= n
  BY <1>1, <1>3
<1> QED BY <1>1, <1>2, <1>4, <1>5 DEF SubvoteChecks

(* A voter is never locked in, whatever became of its producers.           *)
THEOREM AlwaysExits == Spec => []ExitInv
<1>1. Ind => ExitInv
  BY IndExit
<1> QED BY <1>1, Invariance, PTL

(* A refund that is still pending when its delay is over is mature: the    *)
(* voterefund of the host, if it runs the deferred transaction in time,    *)
(* and one pushed by hand, if the host has lost it, pass its checks.       *)
THEOREM RefundNeverRefused == Spec => []RefundableInv
<1>1. Ind => RefundableInv
  BY DueMature DEF Ind, RefundableInv, RefundChecks
<1> QED BY <1>1, Invariance, PTL

(* A refund is paid whole, and at most half a second before its delay is   *)
(* over, whichever of the two voterefund transactions pays it.             *)
THEOREM RefundsOnTime == Spec => RefundOnTime
<1> DEFINE A == \A v \in Voters : refunds[v] # NoRefund /\ refunds'[v] # refunds[v] =>
                   /\ refunds'[v] = NoRefund
                   /\ now + 1 >= due[v]
<1>1. ASSUME Ind, [Next]_vars PROVE [A]_vars
  <2>0. TypeOK /\ DueInv
    BY <1>1 DEF Ind
  <2>1. CASE UNCHANGED vars
    BY <2>1
  <2>2. ASSUME NEW u \in Voters, voterefund(u) \/ RunDeferred(u)
        PROVE  A
    <3>1. /\ \A v \in Voters \ {u} : refunds'[v] = refunds[v]
          /\ refunds'[u] = refunds[u] \/ (RefundChecks(u) /\ refunds'[u] = NoRefund)
      BY <2>0, <2>2 DEF voterefund, RunDeferred, PayRefund, TypeOK
    <3> QED BY <2>0, <3>1, DueMature DEF RefundChecks
  <2>3. ASSUME NEW u \in Voters, NEW n \in 1..MaxVotes, NEW queued \in BOOLEAN,
               subvote(u, n, queued)
        PROVE  A
    <3>1. refunds[u] = NoRefund /\ \A v \in Voters \ {u} : refunds'[v] = refunds[v]
      BY <2>0, <2>3 DEF subvote, SubvoteChecks, TypeOK
    <3> QED BY <3>1
  <2>4. CASE refunds' = refunds
    BY <2>4
  <2> QED
    BY <1>1, <2>1, <2>2, <2>3, <2>4
       DEF Next, register_producer, unregprod, rmvproducer, deactivate,
           voteproducer, addvote, cfgelection, Tick, DropDeferred
<1>2. Ind /\ [Next]_vars => [A]_vars
  BY <1>1
<1> QED BY <1>2, Invariance, PTL DEF Spec, RefundOnTime
=============================================================================
