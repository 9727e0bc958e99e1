--------------------------- MODULE OnBlockProofs ----------------------------
(***************************************************************************)
(* Theorems about Schedule, for any finite sets of producers and keys, any *)
(* size of the schedule and any bounds, and about OnBlock, which extends   *)
(* it: every step of onblock as a whole, and every action between blocks,  *)
(* is a step of each part or leaves it alone, so that what is proved about *)
(* a part alone holds in the whole, and no block is missed.                *)
(***************************************************************************)
EXTENDS OnBlock, SumTheorems


(* Whatever ids a policy has, no two entries have the same.                *)
DistinctIds(E) == \A e, f \in E : e.key_id = f.key_id => e = f

DistinctNames(E) == \A e, f \in E : e.description = f.description => e = f

(* An entry of the last proposal whose key is still registered belongs to  *)
(* the finalizer that registered it.  Deleted keys may still be proposed,  *)
(* and another finalizer may have registered them again, with another id.  *)
OwnersInv ==
    \A e \in last_proposed_finalizers, k \in finkeys :
        e.key_id = k.id => e.description = k.finalizer_name

(* The inductive invariant.                                                *)
Ind ==
    /\ KeyTablesInv
    /\ IsFiniteSet(finkeys)
    /\ IsFiniteSet(last_proposed_finalizers)
    /\ PolicyInv
    /\ OwnersInv

-----------------------------------------------------------------------------
(* The order of the index, and how many producers the loops take from it.  *)

LEMMA RanksTotal ==
    ASSUME TypeOK, NEW p \in Producers, NEW q \in Producers, NEW r \in Producers
    PROVE  /\ p # q => RanksBefore(p, q) \/ RanksBefore(q, p)
           /\ RanksBefore(p, q) /\ RanksBefore(q, r) => RanksBefore(p, r)
<1>1. /\ p \in Nat /\ q \in Nat /\ r \in Nat
      /\ producers[p].total_votes \in Nat
      /\ producers[q].total_votes \in Nat
      /\ producers[r].total_votes \in Nat
  BY ScheduleAssumption DEF TypeOK, ProducerInfo
<1> QED BY <1>1 DEF RanksBefore

(* Some producer of a set comes last.                                      *)
LEMMA LastRanked ==
    ASSUME TypeOK, NEW P \in SUBSET Producers, P # {}
    PROVE  \E m \in P : \A q \in P \ {m} : RanksBefore(q, m)
<1> DEFINE HasLast(S) == \E m \in S : \A q \in S \ {m} : RanksBefore(q, m)
           Q == {S \in SUBSET Producers : S # {} => HasLast(S)}
<1>1. ASSUME NEW S \in SUBSET Producers,
             \A U \in SUBSET S : U # S => U \in Q
      PROVE  S \in Q
  <2>1. SUFFICES ASSUME S # {} PROVE HasLast(S)
    OBVIOUS
  <2>2. PICK x \in S : TRUE
    BY <2>1
  <2>3. CASE S = {x}
    BY <2>3
  <2>4. CASE S # {x}
    <3>1. HasLast(S \ {x})
      <4>1. S \ {x} \in SUBSET S /\ S \ {x} # S /\ S \ {x} # {}
        BY <2>2, <2>4
      <4> QED BY <1>1, <4>1
    <3>2. PICK m \in S \ {x} : \A q \in (S \ {x}) \ {m} : RanksBefore(q, m)
      BY <3>1
    <3>3. m \in Producers /\ x \in Producers /\ m # x
      BY <3>2
    <3>4. CASE RanksBefore(x, m)
      <4>1. \A q \in S \ {m} : RanksBefore(q, m)
        BY <3>2, <3>4
      <4> QED BY <3>2, <4>1
    <3>5. CASE RanksBefore(m, x)
      <4>1. ASSUME NEW q \in S \ {x} PROVE RanksBefore(q, x)
        <5>1. CASE q = m
          BY <3>5, <5>1
        <5>2. CASE q # m
          BY <3>2, <3>3, <3>5, <4>1, <5>2, RanksTotal
        <5> QED BY <5>1, <5>2
      <4> QED BY <2>2, <4>1
    <3> QED BY <3>3, <3>4, <3>5, RanksTotal
  <2> QED BY <2>3, <2>4
<1>2. Q \subseteq SUBSET Producers
  OBVIOUS
<1>3. Q = SUBSET Producers
  <2> HIDE DEF Q
  <2> QED BY <1>1, <1>2, SubsetInduction, ScheduleAssumption
<1> QED BY <1>3

(* No more than n producers have fewer than n before them.                 *)
LEMMA TopBound ==
    ASSUME TypeOK, NEW P \in SUBSET Producers, NEW n \in Nat
    PROVE  /\ TopOf(P, n) \in SUBSET P
           /\ IsFiniteSet(TopOf(P, n))
           /\ Cardinality(TopOf(P, n)) \in 0..n
<1> DEFINE T == TopOf(P, n)
           Before(m) == {q \in P : RanksBefore(q, m)}
<1>1. T \in SUBSET P /\ \A m \in T : Cardinality(Before(m)) < n
  BY DEF TopOf
<1>2. IsFiniteSet(P) /\ IsFiniteSet(T) /\ Cardinality(T) \in Nat
  BY <1>1, ScheduleAssumption, FS_Subset, FS_CardinalityType
<1>3. Cardinality(T) <= n
  <2>1. CASE T = {}
    BY <2>1, FS_EmptySet
  <2>2. CASE T # {}
    <3>1. PICK m \in T : \A q \in T \ {m} : RanksBefore(q, m)
      <4>1. T \in SUBSET Producers
        BY <1>1
      <4> HIDE DEF T
      <4> QED BY <2>2, <4>1, LastRanked
    <3>2. T \ {m} \in SUBSET Before(m) /\ Before(m) \in SUBSET P
      BY <1>1, <3>1
    <3>3. IsFiniteSet(Before(m)) /\ Cardinality(Before(m)) \in Nat
      BY <1>2, <3>2, FS_Subset, FS_CardinalityType
    <3>4. Cardinality(T \ {m}) <= Cardinality(Before(m))
      <4> HIDE DEF T, Before
      <4> QED BY <3>2, <3>3, FS_Subset
    <3>5. Cardinality(T \ {m}) = Cardinality(T) - 1
      <4> HIDE DEF T
      <4> QED BY <1>2, <3>1, FS_RemoveElement
    <3>6. Cardinality(Before(m)) < n
      BY <1>1, <3>1
    <3> HIDE DEF T, Before
    <3> QED BY <1>2, <3>3, <3>4, <3>5, <3>6
  <2> QED BY <2>1, <2>2
<1> QED BY <1>1, <1>2, <1>3

-----------------------------------------------------------------------------
(* Policies.                                                               *)

(* A one-to-one image has as many elements.                                *)
LEMMA ImageCardinality ==
    ASSUME NEW S, IsFiniteSet(S), NEW f, NEW T, T = {f[x] : x \in S},
           \A x, y \in S : f[x] = f[y] => x = y
    PROVE  IsFiniteSet(T) /\ Cardinality(T) = Cardinality(S)
<1> DEFINE g == [x \in S |-> f[x]]
<1>1. g \in Surjection(S, T)
  BY DEF Surjection
<1>2. g \in Injection(S, T)
  BY <1>1 DEF Injection, Surjection, IsInjective
<1> HIDE DEF g
<1> QED BY <1>1, <1>2, FS_Surjection

LEMMA AuthCardinality ==
    ASSUME NEW P, IsFiniteSet(P)
    PROVE  /\ IsFiniteSet({AuthInfo(p) : p \in P})
           /\ Cardinality({AuthInfo(p) : p \in P}) = Cardinality(P)
<1> DEFINE f == [p \in P |-> AuthInfo(p)]
           E == {AuthInfo(p) : p \in P}
<1>1. E = {f[p] : p \in P}
  OBVIOUS
<1>2. \A p, q \in P : f[p] = f[q] => p = q
  BY DEF AuthInfo
<1> HIDE DEF f, E
<1>3. IsFiniteSet(E) /\ Cardinality(E) = Cardinality(P)
  BY <1>1, <1>2, ImageCardinality
<1> QED BY <1>3 DEF E

(* operator== of the policies sees how many entries they have.             *)
LEMMA SameCardinality ==
    ASSUME NEW E, NEW F, IsFiniteSet(E), IsFiniteSet(F),
           DistinctIds(E), DistinctIds(F), SameFinalizers(E, F)
    PROVE  Cardinality(E) = Cardinality(F)
<1> DEFINE f == [e \in E |-> <<e.key_id, e.public_key>>]
           g == [e \in F |-> <<e.key_id, e.public_key>>]
           T == {f[e] : e \in E}
<1>1. T = {g[e] : e \in F}
  BY DEF SameFinalizers
<1>2. \A x, y \in E : f[x] = f[y] => x = y
  BY DEF DistinctIds
<1>3. \A x, y \in F : g[x] = g[y] => x = y
  BY DEF DistinctIds
<1>4. T = {f[e] : e \in E}
  OBVIOUS
<1> HIDE DEF f, g, T
<1>5. Cardinality(T) = Cardinality(E)
  BY <1>2, <1>4, ImageCardinality
<1>6. Cardinality(T) = Cardinality(F)
  BY <1>1, <1>3, ImageCardinality
<1> QED BY <1>5, <1>6

(* The active key of a finalizer is in the key table.                      *)
LEMMA ActiveKey ==
    ASSUME KeyTablesInv, NEW p \in DOMAIN finalizers
    PROVE  \E k \in finkeys : /\ k.finalizer_name = p
                              /\ k.id = finalizers[p].active_key_id
                              /\ k.finalizer_key = finalizers[p].active_key
BY DEF KeyTablesInv, KeysOf

(* A policy made from the finalizer table has no key and no id twice.      *)
LEMMA AuthDistinct ==
    ASSUME KeyTablesInv, NEW P \in SUBSET DOMAIN finalizers, NEW E,
           E = {AuthInfo(p) : p \in P}
    PROVE  /\ E \subseteq FinalizerAuthInfo
           /\ DistinctKeys(E) /\ DistinctIds(E) /\ DistinctNames(E)
           /\ \A e \in E : e.key_id < next_key_id
           /\ \A e \in E, k \in finkeys :
                 e.key_id = k.id => e.description = k.finalizer_name
<1>1. \A e \in E : /\ e.description \in P
                   /\ e = AuthInfo(e.description)
                   /\ e.key_id = finalizers[e.description].active_key_id
                   /\ e.public_key = finalizers[e.description].active_key
  BY DEF AuthInfo
<1>2. E \subseteq FinalizerAuthInfo
  BY DEF AuthInfo, KeyTablesInv, TypeOK, FinalizerInfo, FinalizerAuthInfo
<1>3. \A e \in E : \E k \in finkeys : /\ k.finalizer_name = e.description
                                      /\ k.id = e.key_id
                                      /\ k.finalizer_key = e.public_key
  BY <1>1, ActiveKey
<1>4. \A j, k \in finkeys :
         j.id = k.id \/ j.finalizer_key = k.finalizer_key => j = k
  BY DEF KeyTablesInv
<1>5. ASSUME NEW e \in E, NEW f \in E,
             e.key_id = f.key_id \/ e.public_key = f.public_key
      PROVE  e = f
  <2>1. PICK j \in finkeys : /\ j.finalizer_name = e.description
                             /\ j.id = e.key_id /\ j.finalizer_key = e.public_key
    BY <1>3
  <2>2. PICK k \in finkeys : /\ k.finalizer_name = f.description
                             /\ k.id = f.key_id /\ k.finalizer_key = f.public_key
    BY <1>3
  <2>3. j = k
    BY <1>4, <1>5, <2>1, <2>2
  <2> QED BY <1>1, <2>1, <2>2, <2>3
<1>6. DistinctKeys(E) /\ DistinctIds(E)
  BY <1>5 DEF DistinctKeys, DistinctIds
<1>7. DistinctNames(E)
  BY <1>1 DEF DistinctNames
<1>8. \A e \in E : e.key_id < next_key_id
  BY <1>3 DEF KeyTablesInv
<1>9. \A e \in E, k \in finkeys : e.key_id = k.id => e.description = k.finalizer_name
  BY <1>3, <1>4
<1> QED BY <1>2, <1>6, <1>7, <1>8, <1>9

LEMMA TopProducers ==
    ASSUME TypeOK
    PROVE  /\ top_producers \in SUBSET Producers
           /\ IsFiniteSet(top_producers)
           /\ Cardinality(top_producers) \in 0..MaxScheduled
           /\ is_savanna_consensus => HasFinalizer(top_producers) = top_producers
<1> DEFINE P == IF is_savanna_consensus THEN HasFinalizer(Electable) ELSE Electable
<1>1. P \in SUBSET Producers /\ MaxScheduled \in Nat
  BY ScheduleAssumption DEF Electable, HasFinalizer
<1>2. top_producers = TopOf(P, MaxScheduled)
  BY DEF top_producers
<1>3. is_savanna_consensus => P \subseteq DOMAIN finalizers
  BY DEF HasFinalizer
<1> HIDE DEF P
<1>4. /\ TopOf(P, MaxScheduled) \in SUBSET P
      /\ IsFiniteSet(TopOf(P, MaxScheduled))
      /\ Cardinality(TopOf(P, MaxScheduled)) \in 0..MaxScheduled
  BY <1>1, TopBound
<1> QED BY <1>1, <1>2, <1>3, <1>4 DEF HasFinalizer

LEMMA IndProposal ==
    ASSUME KeyTablesInv
    PROVE  ProposalNeverFails
<1>1. HasFinalizer(top_producers) \in SUBSET DOMAIN finalizers
  BY DEF HasFinalizer
<1> QED BY <1>1, AuthDistinct DEF ProposalNeverFails, ProposedFinalizers

-----------------------------------------------------------------------------
(* The steps.                                                              *)

LEMMA InitInd == Init => Ind
<1> SUFFICES ASSUME Init PROVE Ind
  OBVIOUS
<1>1. TypeOK
  BY ScheduleAssumption DEF Init, TypeOK, ProducerInfo
<1>2. KeyTablesInv
  BY <1>1 DEF KeyTablesInv, Init, KeysOf
<1>3. ~is_savanna_consensus
  BY DEF Init, is_savanna_consensus
<1> QED BY <1>2, <1>3, FS_EmptySet DEF Ind, Init, PolicyInv, OwnersInv

(* A step that leaves the key tables alone, and a policy that is as it was *)
(* or has the properties of one that flon.system proposes.                 *)
LEMMA PolicyStep ==
    ASSUME Ind, TypeOK', UNCHANGED keyvars,
           NEW E, last_proposed_finalizers' = E,
           IsFiniteSet(E), E # {} => Cardinality(E) >= last_producer_schedule_size',
           DistinctKeys(E), DistinctIds(E), DistinctNames(E),
           \A e \in E : e.key_id < next_key_id,
           \A e \in E, k \in finkeys : e.key_id = k.id => e.description = k.finalizer_name
    PROVE  Ind'
<1>1. UNCHANGED <<finkeys, finalizers, next_key_id>>
  BY DEF keyvars
<1>2. KeyTablesInv'
  BY <1>1 DEF KeyTablesInv, KeysOf, Ind
<1>3. PolicyInv'
  BY DEF PolicyInv, is_savanna_consensus, DistinctKeys, DistinctIds, DistinctNames
<1>4. OwnersInv'
  BY <1>1 DEF OwnersInv
<1> QED BY <1>1, <1>2, <1>3, <1>4 DEF Ind

(* What the invariant says of the last proposal.                           *)
LEMMA LastPolicy ==
    ASSUME Ind
    PROVE  LET E == last_proposed_finalizers IN
           /\ IsFiniteSet(E)
           /\ E # {} => Cardinality(E) >= last_producer_schedule_size
           /\ DistinctKeys(E) /\ DistinctIds(E) /\ DistinctNames(E)
           /\ \A e \in E : e.key_id < next_key_id
           /\ \A e \in E, k \in finkeys :
                 e.key_id = k.id => e.description = k.finalizer_name
BY DEF Ind, KeyTablesInv, PolicyInv, OwnersInv, is_savanna_consensus,
       DistinctKeys, DistinctIds, DistinctNames

(* A step that changes neither the keys nor the policy nor the schedule.   *)
LEMMA OtherStep ==
    ASSUME Ind, TypeOK',
           UNCHANGED <<keyvars, last_proposed_finalizers, last_producer_schedule_size>>
    PROVE  Ind'
<1> DEFINE E == last_proposed_finalizers
<1>1. /\ UNCHANGED keyvars /\ last_proposed_finalizers' = E
      /\ last_producer_schedule_size' = last_producer_schedule_size
  OBVIOUS
<1>2. /\ IsFiniteSet(E)
      /\ E # {} => Cardinality(E) >= last_producer_schedule_size
      /\ DistinctKeys(E) /\ DistinctIds(E) /\ DistinctNames(E)
      /\ \A e \in E : e.key_id < next_key_id
      /\ \A e \in E, k \in finkeys : e.key_id = k.id => e.description = k.finalizer_name
  BY LastPolicy
<1> HIDE DEF E
<1> QED BY <1>1, <1>2, PolicyStep

(* The election of onblock.                                                *)
LEMMA ElectInd ==
    ASSUME Ind, NEW accepted \in BOOLEAN, update_elected_producers(accepted),
           since_update' \in 0..UpdateInterval, UNCHANGED <<producers, keyvars>>
    PROVE  Ind'
<1> DEFINE top == top_producers
           E == ProposedFinalizers
           L == last_proposed_finalizers
<1>0. TypeOK /\ KeyTablesInv
  BY DEF Ind, KeyTablesInv
<1>1. /\ top \in SUBSET Producers /\ IsFiniteSet(top)
      /\ Cardinality(top) \in 0..MaxScheduled
      /\ is_savanna_consensus => HasFinalizer(top) = top
  BY <1>0, TopProducers
<1>2. /\ HasFinalizer(top) \in SUBSET DOMAIN finalizers
      /\ E = {AuthInfo(p) : p \in HasFinalizer(top)}
  BY DEF HasFinalizer, ProposedFinalizers
<1>3. /\ E \subseteq FinalizerAuthInfo
      /\ DistinctKeys(E) /\ DistinctIds(E) /\ DistinctNames(E)
      /\ \A e \in E : e.key_id < next_key_id
      /\ \A e \in E, k \in finkeys : e.key_id = k.id => e.description = k.finalizer_name
  <2> HIDE DEF E, top
  <2> QED BY <1>0, <1>2, AuthDistinct
<1>4. is_savanna_consensus => IsFiniteSet(E) /\ Cardinality(E) = Cardinality(top)
  BY <1>1, <1>2, AuthCardinality
<1>5. /\ L \subseteq FinalizerAuthInfo
      /\ last_producer_schedule_size \in 0..MaxScheduled
      /\ schedule \subseteq Producers
  BY <1>0 DEF TypeOK
<1>6. /\ IsFiniteSet(L)
      /\ L # {} => Cardinality(L) >= last_producer_schedule_size
      /\ DistinctKeys(L) /\ DistinctIds(L) /\ DistinctNames(L)
      /\ \A e \in L : e.key_id < next_key_id
      /\ \A e \in L, k \in finkeys : e.key_id = k.id => e.description = k.finalizer_name
  BY LastPolicy
<1>7. /\ last_producer_schedule_size' \in 0..MaxScheduled
      /\ schedule' \subseteq Producers
      /\ \/ last_producer_schedule_size' = last_producer_schedule_size
         \/ EnoughElected /\ last_producer_schedule_size' = Cardinality(top)
  BY <1>1, <1>5 DEF update_elected_producers
<1>8. ASSUME EnoughElected, is_savanna_consensus
      PROVE  Cardinality(E) >= last_producer_schedule_size'
  <2>1. Cardinality(top) >= last_producer_schedule_size
    BY <1>8 DEF EnoughElected
  <2> QED BY <1>1, <1>4, <1>5, <1>7, <1>8, <2>1
<1>9. \/ L' = L
      \/ EnoughElected /\ is_savanna_consensus /\ L' = E
  BY DEF update_elected_producers, set_proposed_finalizers
<1>10. TypeOK'
  BY <1>0, <1>3, <1>5, <1>7, <1>9 DEF TypeOK, keyvars
<1>11. CASE EnoughElected /\ is_savanna_consensus /\ L' = E
  <2> HIDE DEF E
  <2> QED BY <1>3, <1>4, <1>8, <1>10, <1>11, PolicyStep
<1>12. CASE L' = L
  <2>1. L # {} => Cardinality(L) >= last_producer_schedule_size'
    <3>1. CASE last_producer_schedule_size' = last_producer_schedule_size
      BY <1>6, <3>1
    <3>2. CASE EnoughElected /\ is_savanna_consensus /\ SameFinalizers(E, L)
      <4>1. Cardinality(E) = Cardinality(L)
        <5> HIDE DEF E, L
        <5> QED BY <1>3, <1>4, <1>6, <3>2, SameCardinality
      <4> QED BY <1>8, <3>2, <4>1
    <3>3. CASE EnoughElected /\ is_savanna_consensus /\ ~SameFinalizers(E, L)
      <4>1. L = E
        BY <1>12, <3>3 DEF update_elected_producers, set_proposed_finalizers
      <4> QED BY <1>8, <3>3, <4>1
    <3>4. CASE ~is_savanna_consensus
      BY <3>4 DEF is_savanna_consensus
    <3> QED BY <1>7, <3>1, <3>2, <3>3, <3>4
  <2> HIDE DEF L
  <2>2. last_proposed_finalizers' = L
    BY <1>12 DEF L
  <2> QED BY <1>6, <1>10, <2>1, <2>2, PolicyStep
<1> QED BY <1>9, <1>11, <1>12

LEMMA OnblockInd ==
    ASSUME Ind, NEW accepted \in BOOLEAN, onblock(accepted)
    PROVE  Ind'
<1>0. TypeOK /\ UpdateInterval \in Nat
  BY ScheduleAssumption DEF Ind, KeyTablesInv
<1>1. CASE ElectionDue
  <2>1. since_update' \in 0..UpdateInterval
    BY <1>0, <1>1 DEF onblock
  <2> QED BY <1>1, <2>1, ElectInd DEF onblock
<1>2. CASE ~ElectionDue
  <2>1. since_update' \in 0..UpdateInterval
    BY <1>0, <1>2 DEF onblock, ElectionDue, TypeOK
  <2>2. TypeOK'
    BY <1>0, <1>2, <2>1 DEF onblock, TypeOK, keyvars
  <2> QED BY <1>2, <2>2, OtherStep DEF onblock
<1> QED BY <1>1, <1>2

LEMMA SwitchInd ==
    ASSUME Ind, switchtosvnn
    PROVE  Ind'
<1> DEFINE P == TopOf(HasFinalizer(Electable), last_producer_schedule_size)
           E == {AuthInfo(p) : p \in P}
<1>0. TypeOK /\ KeyTablesInv /\ last_producer_schedule_size \in Nat
  BY ScheduleAssumption DEF Ind, KeyTablesInv, TypeOK
<1>1. P \in SUBSET DOMAIN finalizers /\ IsFiniteSet(P)
  <2>1. /\ HasFinalizer(Electable) \in SUBSET Producers
        /\ HasFinalizer(Electable) \in SUBSET DOMAIN finalizers
    BY DEF HasFinalizer, Electable
  <2> QED BY <1>0, <2>1, TopBound
<1>2. IsFiniteSet(E)
  <2> HIDE DEF P
  <2> QED BY <1>1, AuthCardinality
<1>3. /\ E \subseteq FinalizerAuthInfo
      /\ DistinctKeys(E) /\ DistinctIds(E) /\ DistinctNames(E)
      /\ \A e \in E : e.key_id < next_key_id
      /\ \A e \in E, k \in finkeys : e.key_id = k.id => e.description = k.finalizer_name
  <2> HIDE DEF P
  <2> QED BY <1>0, <1>1, AuthDistinct
<1>4. /\ Cardinality(E) = last_producer_schedule_size
      /\ UNCHANGED <<producers, keyvars, last_producer_schedule_size, since_update,
                     schedule>>
      /\ last_proposed_finalizers' = E
  <2> HIDE DEF P, E
  <2>1. /\ Cardinality(E) = last_producer_schedule_size
        /\ set_proposed_finalizers(E)
        /\ last_proposed_finalizers = {} /\ last_proposed_finalizers' # {}
        /\ UNCHANGED <<producers, keyvars, last_producer_schedule_size, since_update,
                       schedule>>
    BY DEF switchtosvnn, EnoughFinalizers, is_savanna_consensus, P, E
  <2> QED BY <2>1 DEF set_proposed_finalizers
<1>5. Cardinality(E) >= last_producer_schedule_size'
  BY <1>0, <1>4
<1> HIDE DEF E, P
<1>6. TypeOK'
  BY <1>0, <1>3, <1>4 DEF TypeOK, keyvars
<1> QED BY <1>2, <1>3, <1>4, <1>5, <1>6, PolicyStep

LEMMA RegfinkeyInd ==
    ASSUME Ind, NEW p \in Producers, NEW key \in Keys, regfinkey(p, key)
    PROVE  Ind'
<1> DEFINE id == next_key_id
           new == [ id |-> id, finalizer_name |-> p, finalizer_key |-> key ]
           D == DOMAIN finalizers
<1>0. TypeOK /\ KeyTablesInv /\ IsFiniteSet(finkeys) /\ MaxKeyIds \in Nat
  BY ScheduleAssumption DEF Ind, KeyTablesInv
<1>1. /\ id \in 0..(MaxKeyIds - 1)
      /\ \A k \in finkeys : k.finalizer_key # key
      /\ next_key_id' = id + 1
      /\ finkeys' = finkeys \cup {new}
      /\ finalizers' = IF p \in D
                       THEN [finalizers EXCEPT ![p].finalizer_key_count = @ + 1]
                       ELSE [q \in D \cup {p} |->
                               IF q = p
                               THEN [ active_key_id |-> id, active_key |-> key,
                                      finalizer_key_count |-> 1 ]
                               ELSE finalizers[q]]
      /\ UNCHANGED <<producers, last_proposed_finalizers, last_producer_schedule_size,
                     since_update, schedule>>
  BY DEF regfinkey, get_next_finalizer_key_id, KeyUnused, KeyIds
<1>2. /\ new \in FinalizerKeyInfo /\ new.id = id
      /\ new.finalizer_name = p /\ new.finalizer_key = key
  BY <1>1 DEF FinalizerKeyInfo, KeyIds
<1> HIDE DEF new
<1>3. \A k \in finkeys : k.id \in Int /\ k.id < id
  BY <1>0 DEF KeyTablesInv, TypeOK, FinalizerKeyInfo, KeyIds
<1>4. id \in Int /\ new \notin finkeys
  BY <1>1, <1>2, <1>3
<1>5. /\ KeysOf(p)' = KeysOf(p) \cup {new} /\ new \notin KeysOf(p)
      /\ \A q \in Producers \ {p} : KeysOf(q)' = KeysOf(q)
  BY <1>1, <1>2, <1>4 DEF KeysOf
<1>6. /\ IsFiniteSet(KeysOf(p)) /\ Cardinality(KeysOf(p)) \in Nat
      /\ Cardinality(KeysOf(p)') = Cardinality(KeysOf(p)) + 1
  <2>1. KeysOf(p) \in SUBSET finkeys
    BY DEF KeysOf
  <2>2. IsFiniteSet(KeysOf(p))
    BY <1>0, <2>1, FS_Subset
  <2> QED BY <1>5, <2>2, FS_AddElement, FS_CardinalityType
<1>7. /\ \A q \in D : finalizers[q] \in FinalizerInfo
      /\ D \subseteq Producers
  BY <1>0 DEF TypeOK
<1>8. /\ DOMAIN finalizers' = D \cup {p}
      /\ \A q \in D \ {p} : finalizers'[q] = finalizers[q]
  BY <1>1
<1>9. /\ finalizers'[p] \in FinalizerInfo
      /\ finalizers'[p].finalizer_key_count = Cardinality(KeysOf(p)')
      /\ \E k \in KeysOf(p)' : /\ k.id = finalizers'[p].active_key_id
                               /\ k.finalizer_key = finalizers'[p].active_key
  <2>1. CASE p \in D
    <3>1. finalizers'[p] = [finalizers[p] EXCEPT !.finalizer_key_count = @ + 1]
      BY <1>1, <2>1
    <3>2. /\ finalizers'[p] \in FinalizerInfo
          /\ finalizers'[p].active_key_id = finalizers[p].active_key_id
          /\ finalizers'[p].active_key = finalizers[p].active_key
          /\ finalizers'[p].finalizer_key_count = finalizers[p].finalizer_key_count + 1
      BY <1>7, <2>1, <3>1 DEF FinalizerInfo
    <3>3. /\ finalizers[p].finalizer_key_count = Cardinality(KeysOf(p))
          /\ \E k \in KeysOf(p) : /\ k.id = finalizers[p].active_key_id
                                  /\ k.finalizer_key = finalizers[p].active_key
      BY <1>0, <2>1 DEF KeyTablesInv
    <3> QED BY <1>5, <1>6, <3>2, <3>3
  <2>2. CASE p \notin D
    <3>1. finalizers'[p] = [ active_key_id |-> id, active_key |-> key,
                             finalizer_key_count |-> 1 ]
      BY <1>1, <2>2
    <3>2. finalizers'[p] \in FinalizerInfo
      BY <1>1, <3>1 DEF FinalizerInfo, KeyIds
    <3>3. Cardinality(KeysOf(p)) = 0
      BY <1>0, <2>2, FS_EmptySet DEF KeyTablesInv
    <3> QED BY <1>2, <1>5, <1>6, <3>1, <3>2, <3>3
  <2> QED BY <2>1, <2>2
<1>10. TypeOK'
  <2>1. next_key_id' \in 0..MaxKeyIds
    BY <1>0, <1>1
  <2>2. finkeys' \subseteq FinalizerKeyInfo
    BY <1>0, <1>1, <1>2 DEF TypeOK
  <2>3. \A q \in DOMAIN finalizers' : finalizers'[q] \in FinalizerInfo
    BY <1>7, <1>8, <1>9
  <2>4. DOMAIN finalizers' \subseteq Producers
    BY <1>7, <1>8
  <2> QED BY <1>0, <1>1, <2>1, <2>2, <2>3, <2>4 DEF TypeOK
<1>11. \A q \in Producers : q \in DOMAIN finalizers' <=> KeysOf(q)' # {}
  BY <1>0, <1>5, <1>8 DEF KeyTablesInv
<1>12. ASSUME NEW q \in DOMAIN finalizers'
       PROVE  /\ finalizers'[q].finalizer_key_count = Cardinality(KeysOf(q)')
              /\ \E k \in KeysOf(q)' : /\ k.id = finalizers'[q].active_key_id
                                       /\ k.finalizer_key = finalizers'[q].active_key
  <2>1. CASE q = p
    BY <1>9, <2>1
  <2>2. CASE q # p
    <3>1. q \in D /\ finalizers'[q] = finalizers[q] /\ KeysOf(q)' = KeysOf(q)
      BY <1>5, <1>7, <1>8, <2>2
    <3> QED BY <1>0, <3>1 DEF KeyTablesInv
  <2> QED BY <2>1, <2>2
<1>13. \A j, k \in finkeys' :
          j.id = k.id \/ j.finalizer_key = k.finalizer_key => j = k
  BY <1>0, <1>1, <1>2, <1>3, <1>4 DEF KeyTablesInv
<1>14. \A k \in finkeys' : k.id < next_key_id'
  BY <1>1, <1>2, <1>3, <1>4
<1>15. \A e \in last_proposed_finalizers : e.key_id \in Int /\ e.key_id < id
  BY <1>0 DEF KeyTablesInv, TypeOK, FinalizerAuthInfo, KeyIds
<1>16. KeyTablesInv'
  <2>1. \A e \in last_proposed_finalizers' : e.key_id < next_key_id'
    BY <1>1, <1>4, <1>15
  <2> QED BY <1>10, <1>11, <1>12, <1>13, <1>14, <2>1 DEF KeyTablesInv
<1>17. IsFiniteSet(finkeys')
  BY <1>0, <1>1, FS_AddElement
<1>18. PolicyInv'
  BY <1>1 DEF Ind, PolicyInv, is_savanna_consensus, DistinctKeys
<1>19. OwnersInv'
  BY <1>1, <1>2, <1>15 DEF Ind, OwnersInv
<1> QED BY <1>1, <1>16, <1>17, <1>18, <1>19 DEF Ind

LEMMA DelfinkeyInd ==
    ASSUME Ind, NEW p \in Producers, NEW key \in Keys, delfinkey(p, key)
    PROVE  Ind'
<1> DEFINE D == DOMAIN finalizers
<1>0. TypeOK /\ KeyTablesInv /\ IsFiniteSet(finkeys)
  BY DEF Ind, KeyTablesInv
<1>1. /\ p \in D
      /\ UNCHANGED <<producers, next_key_id, last_proposed_finalizers,
                     last_producer_schedule_size, since_update, schedule>>
  BY DEF delfinkey, get_finalizer_itr
<1>2. PICK k \in finkeys :
         /\ k.finalizer_name = p
         /\ k.id = finalizers[p].active_key_id => finalizers[p].finalizer_key_count = 1
         /\ finalizers' = IF finalizers[p].finalizer_key_count = 1
                          THEN [q \in D \ {p} |-> finalizers[q]]
                          ELSE [finalizers EXCEPT ![p].finalizer_key_count = @ - 1]
         /\ finkeys' = finkeys \ {k}
  BY DEF delfinkey, RegisteredKeys, MayDelete
<1>3. /\ finalizers[p].finalizer_key_count = Cardinality(KeysOf(p))
      /\ k \in KeysOf(p)
      /\ KeysOf(p)' = KeysOf(p) \ {k}
      /\ \A q \in Producers \ {p} : KeysOf(q)' = KeysOf(q)
  BY <1>0, <1>1, <1>2 DEF KeyTablesInv, KeysOf
<1>4. /\ IsFiniteSet(KeysOf(p)) /\ Cardinality(KeysOf(p)) \in Nat
      /\ IsFiniteSet(KeysOf(p)')
      /\ Cardinality(KeysOf(p)') = Cardinality(KeysOf(p)) - 1
  <2>1. KeysOf(p) \in SUBSET finkeys
    BY DEF KeysOf
  <2>2. IsFiniteSet(KeysOf(p))
    BY <1>0, <2>1, FS_Subset
  <2> QED BY <1>3, <2>2, FS_RemoveElement, FS_CardinalityType
<1>5. /\ \A q \in D : finalizers[q] \in FinalizerInfo
      /\ D \subseteq Producers
  BY <1>0 DEF TypeOK
<1>6. /\ \A i, j \in finkeys' : i.id = j.id \/ i.finalizer_key = j.finalizer_key => i = j
      /\ \A j \in finkeys' : j.id < next_key_id'
      /\ \A e \in last_proposed_finalizers' : e.key_id < next_key_id'
      /\ IsFiniteSet(finkeys') /\ IsFiniteSet(last_proposed_finalizers')
      /\ PolicyInv' /\ OwnersInv'
  <2>1. /\ finkeys' \subseteq finkeys /\ next_key_id' = next_key_id
        /\ last_proposed_finalizers' = last_proposed_finalizers
        /\ last_producer_schedule_size' = last_producer_schedule_size
    BY <1>1, <1>2
  <2>2. IsFiniteSet(finkeys')
    BY <1>0, <1>2, FS_RemoveElement
  <2>3. /\ \A i, j \in finkeys' : i.id = j.id \/ i.finalizer_key = j.finalizer_key => i = j
        /\ \A j \in finkeys' : j.id < next_key_id'
        /\ \A e \in last_proposed_finalizers' : e.key_id < next_key_id'
    BY <1>0, <2>1 DEF KeyTablesInv
  <2>4. OwnersInv'
    BY <2>1 DEF Ind, OwnersInv
  <2>5. PolicyInv' /\ IsFiniteSet(last_proposed_finalizers')
    BY <2>1 DEF Ind, PolicyInv, is_savanna_consensus, DistinctKeys
  <2> QED BY <2>2, <2>3, <2>4, <2>5
<1>7. CASE finalizers[p].finalizer_key_count = 1
  <2>1. /\ DOMAIN finalizers' = D \ {p}
        /\ \A q \in D \ {p} : finalizers'[q] = finalizers[q]
    BY <1>2, <1>7
  <2>2. KeysOf(p)' = {}
    BY <1>3, <1>4, <1>7, FS_EmptySet
  <2>3. TypeOK'
    BY <1>0, <1>1, <1>2, <1>5, <2>1 DEF TypeOK
  <2>4. /\ \A q \in Producers : q \in DOMAIN finalizers' <=> KeysOf(q)' # {}
        /\ \A q \in DOMAIN finalizers' :
              /\ finalizers'[q] = finalizers[q] /\ KeysOf(q)' = KeysOf(q)
              /\ q \in D
    BY <1>0, <1>3, <1>5, <2>1, <2>2 DEF KeyTablesInv
  <2>5. \A q \in DOMAIN finalizers' :
           /\ finalizers'[q].finalizer_key_count = Cardinality(KeysOf(q)')
           /\ \E j \in KeysOf(q)' : /\ j.id = finalizers'[q].active_key_id
                                    /\ j.finalizer_key = finalizers'[q].active_key
    BY <1>0, <2>4 DEF KeyTablesInv
  <2> QED BY <1>6, <2>3, <2>4, <2>5 DEF KeyTablesInv, Ind
<1>8. CASE finalizers[p].finalizer_key_count # 1
  <2>1. /\ DOMAIN finalizers' = D
        /\ \A q \in D \ {p} : finalizers'[q] = finalizers[q]
        /\ finalizers'[p] = [finalizers[p] EXCEPT !.finalizer_key_count = @ - 1]
    BY <1>1, <1>2, <1>8
  <2>2. Cardinality(KeysOf(p)) # 0
    BY <1>3, <1>4, FS_EmptySet
  <2>3. /\ finalizers'[p] \in FinalizerInfo
        /\ finalizers'[p].active_key_id = finalizers[p].active_key_id
        /\ finalizers'[p].active_key = finalizers[p].active_key
        /\ finalizers'[p].finalizer_key_count = Cardinality(KeysOf(p)')
    BY <1>1, <1>3, <1>4, <1>5, <2>1, <2>2 DEF FinalizerInfo
  <2>4. \E j \in KeysOf(p)' : /\ j.id = finalizers'[p].active_key_id
                              /\ j.finalizer_key = finalizers'[p].active_key
    <3>1. PICK j \in KeysOf(p) : /\ j.id = finalizers[p].active_key_id
                                 /\ j.finalizer_key = finalizers[p].active_key
      BY <1>0, <1>1 DEF KeyTablesInv
    <3>2. j # k
      BY <1>2, <1>8, <3>1
    <3> QED BY <1>3, <2>3, <3>1, <3>2
  <2>5. TypeOK'
    <3>1. \A q \in DOMAIN finalizers' : finalizers'[q] \in FinalizerInfo
      BY <1>5, <2>1, <2>3
    <3> QED BY <1>0, <1>1, <1>2, <1>5, <2>1, <3>1 DEF TypeOK
  <2>6. \A q \in Producers : q \in DOMAIN finalizers' <=> KeysOf(q)' # {}
    BY <1>0, <1>1, <1>3, <2>1, <2>4 DEF KeyTablesInv
  <2>7. \A q \in DOMAIN finalizers' :
           /\ finalizers'[q].finalizer_key_count = Cardinality(KeysOf(q)')
           /\ \E j \in KeysOf(q)' : /\ j.id = finalizers'[q].active_key_id
                                    /\ j.finalizer_key = finalizers'[q].active_key
    <3> SUFFICES ASSUME NEW q \in DOMAIN finalizers'
                 PROVE  /\ finalizers'[q].finalizer_key_count = Cardinality(KeysOf(q)')
                        /\ \E j \in KeysOf(q)' :
                              /\ j.id = finalizers'[q].active_key_id
                              /\ j.finalizer_key = finalizers'[q].active_key
      OBVIOUS
    <3>1. CASE q = p
      BY <2>3, <2>4, <3>1
    <3>2. CASE q # p
      <4>1. q \in D /\ finalizers'[q] = finalizers[q] /\ KeysOf(q)' = KeysOf(q)
        BY <1>3, <1>5, <2>1, <3>2
      <4> QED BY <1>0, <4>1 DEF KeyTablesInv
    <3> QED BY <3>1, <3>2
  <2> QED BY <1>6, <2>5, <2>6, <2>7 DEF KeyTablesInv, Ind
<1> QED BY <1>7, <1>8

(* The policy in which actfinkey replaced a key.                           *)
LEMMA ReplacedPolicy ==
    ASSUME Ind, NEW p \in DOMAIN finalizers, NEW k \in finkeys,
           k.finalizer_name = p, k.id # finalizers[p].active_key_id,
           NEW R, R = ReplaceKey(finalizers[p].active_key_id, k),
           \E e \in last_proposed_finalizers : e.key_id = finalizers[p].active_key_id
    PROVE  /\ R \subseteq FinalizerAuthInfo /\ R # {}
           /\ IsFiniteSet(R) /\ Cardinality(R) >= last_producer_schedule_size
           /\ DistinctIds(R) /\ DistinctNames(R)
           /\ \A e \in R : e.key_id < next_key_id
           /\ \A e \in R, j \in finkeys : e.key_id = j.id => e.description = j.finalizer_name
<1> DEFINE L == last_proposed_finalizers
           old == finalizers[p].active_key_id
           rep(e) == IF e.key_id = old
                     THEN [e EXCEPT !.key_id = k.id, !.public_key = k.finalizer_key]
                     ELSE e
<1>0. TypeOK /\ KeyTablesInv
  BY DEF Ind, KeyTablesInv
<1>1. R = {rep(e) : e \in L}
  BY DEF ReplaceKey
<1>2. L \subseteq FinalizerAuthInfo /\ k \in FinalizerKeyInfo
  BY <1>0 DEF TypeOK
<1>3. \A e \in L : /\ rep(e) \in FinalizerAuthInfo
                   /\ rep(e).description = e.description
                   /\ e.key_id = old => rep(e).key_id = k.id
                   /\ e.key_id # old => rep(e) = e
  <2> SUFFICES ASSUME NEW e \in L
               PROVE  /\ rep(e) \in FinalizerAuthInfo
                      /\ rep(e).description = e.description
                      /\ e.key_id = old => rep(e).key_id = k.id
                      /\ e.key_id # old => rep(e) = e
    OBVIOUS
  <2>1. e \in FinalizerAuthInfo /\ k.id \in KeyIds /\ k.finalizer_key \in Keys
    BY <1>2 DEF FinalizerKeyInfo
  <2>2. [e EXCEPT !.key_id = k.id, !.public_key = k.finalizer_key]
          = [ key_id |-> k.id, description |-> e.description,
              public_key |-> k.finalizer_key ]
    <3> DEFINE r1 == [e EXCEPT !.key_id = k.id]
               r2 == [r1 EXCEPT !.public_key = k.finalizer_key]
    <3>1. r1 = [ key_id |-> k.id, description |-> e.description,
                 public_key |-> e.public_key ]
      BY <2>1 DEF FinalizerAuthInfo
    <3> HIDE DEF r1
    <3>2. r2 = [ key_id |-> k.id, description |-> e.description,
                 public_key |-> k.finalizer_key ]
      BY <3>1
    <3>3. r2 = [e EXCEPT !.key_id = k.id, !.public_key = k.finalizer_key]
      BY Zenon DEF r1, r2
    <3> QED BY <3>2, <3>3
  <2>3. e.description \in Producers
    BY <2>1 DEF FinalizerAuthInfo
  <2> QED BY <2>1, <2>2, <2>3 DEF FinalizerAuthInfo
<1>4. /\ IsFiniteSet(L) /\ Cardinality(L) >= last_producer_schedule_size
      /\ DistinctIds(L) /\ DistinctNames(L)
      /\ \A e \in L : e.key_id < next_key_id
      /\ \A e \in L, j \in finkeys : e.key_id = j.id => e.description = j.finalizer_name
  BY LastPolicy
<1>5. PICK a \in L : a.key_id = old
  OBVIOUS
<1> HIDE DEF rep, L
<1>6. a.description = p
  <2>1. PICK j \in finkeys : j.finalizer_name = p /\ j.id = old
    BY <1>0, ActiveKey
  <2> QED BY <1>4, <1>5, <2>1
<1>7. \A e \in L : e.key_id = old <=> e = a
  BY <1>4, <1>5 DEF DistinctIds
<1>8. \A e \in L : e.key_id # k.id
  <2> SUFFICES ASSUME NEW e \in L, e.key_id = k.id PROVE FALSE
    OBVIOUS
  <2>1. e.description = p
    BY <1>4
  <2>2. e = a
    BY <1>4, <1>6, <2>1 DEF DistinctNames
  <2> QED BY <1>5, <2>2
<1>9. R \subseteq FinalizerAuthInfo /\ R # {}
  BY <1>1, <1>3, <1>5
<1>10. \A e, f \in L : rep(e).description = rep(f).description => e = f
  BY <1>3, <1>4 DEF DistinctNames
<1>11. DistinctNames(R)
  BY <1>1, <1>10 DEF DistinctNames
<1>12. \A e, f \in L : rep(e).key_id = rep(f).key_id => e = f
  BY <1>3, <1>4, <1>7, <1>8 DEF DistinctIds
<1>13. DistinctIds(R)
  BY <1>1, <1>12 DEF DistinctIds
<1>14. IsFiniteSet(R) /\ Cardinality(R) = Cardinality(L)
  <2> DEFINE g == [e \in L |-> rep(e)]
  <2>1. R = {g[e] : e \in L}
    BY <1>1
  <2>2. \A e, f \in L : g[e] = g[f] => e = f
    BY <1>12
  <2> HIDE DEF g
  <2> QED BY <1>4, <2>1, <2>2, ImageCardinality
<1>15. k.id < next_key_id
  BY <1>0 DEF KeyTablesInv
<1>16. \A e \in R : e.key_id < next_key_id
  BY <1>1, <1>3, <1>4, <1>15
<1>17. ASSUME NEW e \in L, NEW j \in finkeys, rep(e).key_id = j.id
       PROVE  rep(e).description = j.finalizer_name
  <2>1. CASE e.key_id = old
    <3>1. j = k
      BY <1>0, <1>3, <1>17, <2>1 DEF KeyTablesInv
    <3>2. e = a
      BY <1>7, <2>1
    <3> QED BY <1>3, <1>6, <3>1, <3>2
  <2>2. CASE e.key_id # old
    BY <1>3, <1>4, <1>17, <2>2
  <2> QED BY <2>1, <2>2
<1>18. \A e \in R, j \in finkeys : e.key_id = j.id => e.description = j.finalizer_name
  BY <1>1, <1>17
<1> QED BY <1>4, <1>9, <1>11, <1>13, <1>14, <1>16, <1>18

LEMMA ActfinkeyInd ==
    ASSUME Ind, NEW p \in Producers, NEW key \in Keys, actfinkey(p, key)
    PROVE  Ind'
<1> DEFINE old == finalizers[p].active_key_id
           L == last_proposed_finalizers
<1>0. TypeOK /\ KeyTablesInv
  BY DEF Ind, KeyTablesInv
<1>1. /\ p \in DOMAIN finalizers
      /\ UNCHANGED <<producers, finkeys, next_key_id,
                     last_producer_schedule_size, since_update, schedule>>
  BY DEF actfinkey, get_finalizer_itr
<1>2. PICK k \in finkeys :
         /\ k.finalizer_name = p /\ k.id # old
         /\ finalizers' = [finalizers EXCEPT ![p].active_key_id = k.id,
                                             ![p].active_key = k.finalizer_key]
         /\ IF \E e \in L : e.key_id = old
            THEN set_proposed_finalizers(ReplaceKey(old, k))
            ELSE UNCHANGED last_proposed_finalizers
  BY DEF actfinkey, RegisteredKeys
<1>3. k \in FinalizerKeyInfo /\ finalizers[p] \in FinalizerInfo
  BY <1>0, <1>1 DEF TypeOK
<1>4. /\ DOMAIN finalizers' = DOMAIN finalizers
      /\ \A q \in DOMAIN finalizers \ {p} : finalizers'[q] = finalizers[q]
      /\ finalizers'[p] = [finalizers[p] EXCEPT !.active_key_id = k.id,
                                                !.active_key = k.finalizer_key]
  BY <1>1, <1>2
<1>5. finalizers'[p] =
         [ active_key_id |-> k.id, active_key |-> k.finalizer_key,
           finalizer_key_count |-> finalizers[p].finalizer_key_count ]
  BY <1>3, <1>4 DEF FinalizerInfo
<1>6. finalizers'[p] \in FinalizerInfo
  BY <1>3, <1>5 DEF FinalizerInfo, FinalizerKeyInfo
<1>7. \A q \in Producers : KeysOf(q)' = KeysOf(q)
  BY <1>1 DEF KeysOf
<1>8. k \in KeysOf(p)
  BY <1>2 DEF KeysOf
<1>9. \A q \in DOMAIN finalizers' :
         /\ finalizers'[q] \in FinalizerInfo
         /\ finalizers'[q].finalizer_key_count = Cardinality(KeysOf(q)')
         /\ \E j \in KeysOf(q)' : /\ j.id = finalizers'[q].active_key_id
                                  /\ j.finalizer_key = finalizers'[q].active_key
  <2> SUFFICES ASSUME NEW q \in DOMAIN finalizers
               PROVE  /\ finalizers'[q] \in FinalizerInfo
                      /\ finalizers'[q].finalizer_key_count = Cardinality(KeysOf(q))
                      /\ \E j \in KeysOf(q) :
                            /\ j.id = finalizers'[q].active_key_id
                            /\ j.finalizer_key = finalizers'[q].active_key
    BY <1>0, <1>4, <1>7 DEF TypeOK
  <2>1. CASE q = p
    BY <1>0, <1>5, <1>6, <1>8, <2>1 DEF KeyTablesInv
  <2>2. CASE q # p
    BY <1>0, <1>4, <2>2 DEF KeyTablesInv, TypeOK
  <2> QED BY <2>1, <2>2
<1>10. PICK E : /\ last_proposed_finalizers' = E
                /\ E \subseteq FinalizerAuthInfo
                /\ IsFiniteSet(E)
                /\ E # {} => Cardinality(E) >= last_producer_schedule_size
                /\ DistinctKeys(E) /\ DistinctIds(E) /\ DistinctNames(E)
                /\ \A e \in E : e.key_id < next_key_id
                /\ \A e \in E, j \in finkeys :
                      e.key_id = j.id => e.description = j.finalizer_name
  <2>1. CASE last_proposed_finalizers' = L
    <3>1. /\ L \subseteq FinalizerAuthInfo
          /\ IsFiniteSet(L)
          /\ L # {} => Cardinality(L) >= last_producer_schedule_size
          /\ DistinctKeys(L) /\ DistinctIds(L) /\ DistinctNames(L)
          /\ \A e \in L : e.key_id < next_key_id
          /\ \A e \in L, j \in finkeys :
                e.key_id = j.id => e.description = j.finalizer_name
      BY <1>0, LastPolicy DEF TypeOK
    <3> HIDE DEF L
    <3> QED BY <2>1, <3>1
  <2>2. CASE last_proposed_finalizers' # L
    <3> DEFINE R == ReplaceKey(old, k)
    <3>1. /\ \E e \in L : e.key_id = old
          /\ DistinctKeys(R) /\ last_proposed_finalizers' = R
      BY <1>2, <2>2 DEF set_proposed_finalizers
    <3>2. /\ R \subseteq FinalizerAuthInfo /\ R # {}
          /\ IsFiniteSet(R) /\ Cardinality(R) >= last_producer_schedule_size
          /\ DistinctIds(R) /\ DistinctNames(R)
          /\ \A e \in R : e.key_id < next_key_id
          /\ \A e \in R, j \in finkeys : e.key_id = j.id => e.description = j.finalizer_name
      BY <1>1, <1>2, <3>1, ReplacedPolicy
    <3> HIDE DEF R
    <3> QED BY <3>1, <3>2
  <2> QED BY <2>1, <2>2
<1>11. TypeOK'
  <2>1. DOMAIN finalizers' \subseteq Producers
    BY <1>0, <1>4 DEF TypeOK
  <2> QED BY <1>0, <1>1, <1>9, <1>10, <2>1 DEF TypeOK
<1>12. KeyTablesInv'
  <2>1. \A q \in Producers : q \in DOMAIN finalizers' <=> KeysOf(q)' # {}
    BY <1>0, <1>4, <1>7 DEF KeyTablesInv
  <2> QED BY <1>0, <1>1, <1>9, <1>10, <1>11, <2>1 DEF KeyTablesInv
<1>13. PolicyInv'
  BY <1>1, <1>10
     DEF PolicyInv, is_savanna_consensus, DistinctKeys, DistinctIds, DistinctNames
<1>14. OwnersInv'
  BY <1>1, <1>10 DEF OwnersInv
<1> QED BY <1>1, <1>10, <1>12, <1>13, <1>14 DEF Ind

(* Every action preserves the inductive invariant.                         *)
LEMMA NextInd ==
    ASSUME Ind, [Next]_vars
    PROVE  Ind'
<1>0. TypeOK /\ UpdateInterval \in Nat
  BY ScheduleAssumption DEF Ind, KeyTablesInv
<1>1. CASE UNCHANGED vars
  <2>1. TypeOK'
    BY <1>0, <1>1 DEF vars, TypeOK
  <2> QED BY <1>1, <2>1, OtherStep DEF vars, keyvars
<1>2. ASSUME NEW p \in Producers, RegisterOrLeave(p) PROVE Ind'
  <2>1. producers' \in [Producers -> ProducerInfo]
    <3> DEFINE r == [producers EXCEPT ![p].exists = TRUE]
    <3>1. r \in [Producers -> ProducerInfo]
      BY <1>0 DEF TypeOK, ProducerInfo
    <3>2. producers' = [r EXCEPT ![p].is_active = ~@]
      BY <1>2 DEF RegisterOrLeave
    <3> HIDE DEF r
    <3> QED BY <3>1, <3>2 DEF ProducerInfo
  <2>2. TypeOK'
    BY <1>0, <1>2, <2>1 DEF RegisterOrLeave, TypeOK, keyvars
  <2> QED BY <1>2, <2>2, OtherStep DEF RegisterOrLeave
<1>3. ASSUME NEW p \in Producers, NEW n \in 0..MaxVotes, MoveVotes(p, n) PROVE Ind'
  <2>1. producers' \in [Producers -> ProducerInfo]
    BY <1>0, <1>3 DEF MoveVotes, TypeOK, ProducerInfo
  <2>2. TypeOK'
    BY <1>0, <1>3, <2>1 DEF MoveVotes, TypeOK, keyvars
  <2> QED BY <1>3, <2>2, OtherStep DEF MoveVotes
<1>4. CASE BlockPasses
  <2>1. since_update' \in 0..UpdateInterval
    BY <1>0, <1>4 DEF BlockPasses, ElectionDue, TypeOK
  <2>2. TypeOK'
    BY <1>0, <1>4, <2>1 DEF BlockPasses, TypeOK, keyvars
  <2> QED BY <1>4, <2>2, OtherStep DEF BlockPasses
<1>5. ASSUME NEW accepted \in BOOLEAN, onblock(accepted) PROVE Ind'
  BY <1>5, OnblockInd
<1>6. CASE switchtosvnn
  BY <1>6, SwitchInd
<1>7. ASSUME NEW p \in Producers, NEW k \in Keys,
             regfinkey(p, k) \/ actfinkey(p, k) \/ delfinkey(p, k)
      PROVE  Ind'
  BY <1>7, RegfinkeyInd, ActfinkeyInd, DelfinkeyInd
<1> QED BY <1>1, <1>2, <1>3, <1>4, <1>5, <1>6, <1>7 DEF Next

(* The inductive invariant holds in every reachable state.                 *)
THEOREM Invariance == Spec => []Ind
<1>1. Init => Ind
  BY InitInd
<1>2. Ind /\ [Next]_vars => Ind'
  BY NextInd
<1> QED BY <1>1, <1>2, PTL DEF Spec

-----------------------------------------------------------------------------
(* Whatever regfinkey, actfinkey and delfinkey do, the two key tables      *)
(* agree, and no key and no id is there twice.                             *)
THEOREM KeyTablesCorrect == Spec => []KeyTablesInv
BY Invariance, PTL DEF Ind

(* set_finalizers never refuses the policy that onblock proposes, which is *)
(* read from the key tables anew: "this function may never fail".  Nothing *)
(* is said of the policy actfinkey proposes from the last one.             *)
THEOREM ProposalAccepted == Spec => []ProposalNeverFails
<1>1. Ind => ProposalNeverFails
  BY IndProposal DEF Ind
<1> QED BY <1>1, Invariance, PTL

(* Once in Savanna the policy has a finalizer for every place in the       *)
(* schedule, also after actfinkey replaced keys in it.                     *)
THEOREM PolicyCorrect == Spec => []PolicyInv
BY Invariance, PTL DEF Ind

-----------------------------------------------------------------------------
(* onblock as a whole.  The parts are the instances of OnBlock; what is    *)
(* proved about them comes from the instance below, whose definitions mean *)
(* the same.                                                               *)

Parts == INSTANCE PartsProofs WITH
    Others <- {}, Suffix <- [n \in {} |-> n], since_update <- since_update + 1,
    MaxHeight <- MaxTime, height <- now - 1, slot_of <- [h \in 0..(now - 1) |-> h]

LEMMA PayConstants == Parts!ProducerPayAssumption /\ Parts!HalvingsAssumption
<1>1. Parts!HalvingsAssumption
  BY OnBlockAssumption DEF Pay!HalvingsAssumption, Parts!HalvingsAssumption
<1>2. Parts!ProducerPayAssumption
  BY OnBlockAssumption, Zenon
  DEF Pay!ProducerPayAssumption, Parts!ProducerPayAssumption,
      Pay!IsFiniteSet, Parts!IsFiniteSet
<1> QED BY <1>1, <1>2

LEMMA SameSums ==
    ASSUME NEW f, NEW S
    PROVE  Auction!SumFunctionOnSet(f, S) = Parts!SumFunctionOnSet(f, S)
BY DEF Auction!SumFunctionOnSet, Auction!FoldFunctionOnSet, Auction!MapThenFoldSet,
       Parts!SumFunctionOnSet, Parts!FoldFunctionOnSet, Parts!MapThenFoldSet

LEMMA AuctionConstants == Parts!NameAuctionAssumption /\ Parts!PowersAssumption
<1>1. Parts!PowersAssumption
  BY OnBlockAssumption DEF Auction!PowersAssumption, Parts!PowersAssumption
<1>2. Parts!NameAuctionAssumption
  <2>1. Auction!SumFunctionOnSet(InitialBalance, Bidders)
          = Parts!SumFunctionOnSet(InitialBalance, Bidders)
    BY SameSums
  <2> QED
    BY <2>1, OnBlockAssumption, Zenon
    DEF Auction!NameAuctionAssumption, Parts!NameAuctionAssumption,
        Auction!IsFiniteSet, Parts!IsFiniteSet
<1> QED BY <1>1, <1>2

LEMMA BlockConstants == Parts!BlockInfoAssumption
BY OnBlockAssumption DEF Blocks!BlockInfoAssumption, Parts!BlockInfoAssumption

(* All the assumptions of the instance, which its theorems rest on.        *)
LEMMA PartsConstants ==
    /\ Parts!NameAuctionAssumption /\ Parts!PowersAssumption
    /\ Parts!ProducerPayAssumption /\ Parts!HalvingsAssumption
    /\ Parts!BlockInfoAssumption
BY PayConstants, AuctionConstants, BlockConstants

(* The actions of the parts under their two names.                         *)
LEMMA SameBids ==
    ASSUME NEW b, NEW n, NEW x
    PROVE  /\ Auction!bidname(b, n, x) => Parts!bidname(b, n, x)
           /\ Auction!bidrefund(b, n) => Parts!bidrefund(b, n)
           /\ Auction!newaccount(b, n) => Parts!newaccount(b, n)
<1>1. Auction!bidname(b, n, x) => Parts!bidname(b, n, x)
  BY Zenon DEF Auction!bidname, Parts!bidname, Auction!BidAccepted, Parts!BidAccepted,
      Auction!RefundAfterBid, Parts!RefundAfterBid, Auction!HasRow, Parts!HasRow
<1>2. Auction!bidrefund(b, n) => Parts!bidrefund(b, n)
  BY Zenon DEF Auction!bidrefund, Parts!bidrefund
<1>3. Auction!newaccount(b, n) => Parts!newaccount(b, n)
  BY Zenon DEF Auction!newaccount, Parts!newaccount, Auction!MayCreate,
      Parts!MayCreate, Auction!HasRow, Parts!HasRow, Auction!System, Parts!System
<1> QED BY <1>1, <1>2, <1>3

LEMMA SameClose ==
    /\ Auction!UpdateDue <=> Parts!UpdateDue
    /\ \A n : Auction!Close(n) <=> Parts!Close(n)
    /\ \A rows : Auction!Aged(rows) = Parts!Aged(rows)
    /\ Auction!Older(since_close) = Parts!Older(since_close)
<1>1. Auction!Highest = Parts!Highest
  BY Zenon DEF Auction!Highest, Parts!Highest, Auction!HasRow, Parts!HasRow,
      Auction!by_high_bid, Parts!by_high_bid
<1>2. \A n : Auction!Close(n) <=> Parts!Close(n)
  BY <1>1, Zenon DEF Auction!Close, Parts!Close, Auction!DayOld, Parts!DayOld
<1>3. \A rows : Auction!Aged(rows) = Parts!Aged(rows)
  BY Zenon DEF Auction!Aged, Parts!Aged, Auction!Older, Parts!Older
<1>4. Auction!UpdateDue <=> Parts!UpdateDue
  BY DEF Auction!UpdateDue, Parts!UpdateDue
<1>5. Auction!Older(since_close) = Parts!Older(since_close)
  BY DEF Auction!Older, Parts!Older
<1> QED BY <1>2, <1>3, <1>4, <1>5

LEMMA SameBlocks ==
    /\ Auction!onblock => Parts!onblock
    /\ Auction!BlockPasses => Parts!BlockPasses
    /\ Auction!FeeRefused => Parts!FeeRefused
<1>1. Auction!onblock => Parts!onblock
  BY SameClose, Zenon DEF Auction!onblock, Parts!onblock
<1>2. Auction!BlockPasses => Parts!BlockPasses
  BY SameClose, Zenon DEF Auction!BlockPasses, Parts!BlockPasses
<1>3. Auction!FeeRefused => Parts!FeeRefused
  BY SameClose, Zenon DEF Auction!FeeRefused, Parts!FeeRefused
<1> QED BY <1>1, <1>2, <1>3

LEMMA SamePay ==
    ASSUME NEW p
    PROVE  /\ Pay!onblockPays(p) => Parts!onblockPays(p)
           /\ Pay!Missed => Parts!Missed
           /\ Pay!Traps(p) <=> Parts!Traps(p)
           /\ Pay!ElectionActive <=> Parts!ElectionActive
           /\ \A e, r, a : Pay!cfgelection(e, r, a) => Parts!cfgelection(e, r, a)
<1>1. Pay!power(2, Pay!cur_period) = Parts!power(2, Parts!cur_period)
  BY DEF Pay!power, Parts!power, Pay!cur_period, Parts!cur_period, Pay!Wrap, Parts!Wrap
<1>2. Pay!Rewarded(p) <=> Parts!Rewarded(p)
  BY Zenon DEF Pay!Rewarded, Parts!Rewarded, Pay!ElectionActive, Parts!ElectionActive
<1>3. Pay!Traps(p) <=> Parts!Traps(p)
  BY <1>1, <1>2, Zenon DEF Pay!Traps, Parts!Traps
<1>4. Pay!rewards_per_block = Parts!rewards_per_block
  BY <1>1, Zenon DEF Pay!rewards_per_block, Parts!rewards_per_block, Pay!Quotient, Parts!Quotient
<1>5. \A x : Pay!Credited(x) = Parts!Credited(x)
  BY <1>4, Zenon DEF Pay!Credited, Parts!Credited, Pay!Wrap, Parts!Wrap
<1>6. Pay!onblockPays(p) => Parts!onblockPays(p)
  BY <1>2, <1>3, <1>5, Zenon DEF Pay!onblockPays, Parts!onblockPays, Pay!Tick, Parts!Tick
<1>7. Pay!Missed => Parts!Missed
  BY Zenon DEF Pay!Missed, Parts!Missed, Pay!Tick, Parts!Tick
<1>8. Pay!ElectionActive <=> Parts!ElectionActive
  BY Zenon DEF Pay!ElectionActive, Parts!ElectionActive
<1>9. ASSUME NEW e, NEW r, NEW a, Pay!cfgelection(e, r, a)
      PROVE  Parts!cfgelection(e, r, a)
  BY <1>9, Zenon DEF Pay!cfgelection, Parts!cfgelection, Pay!Reschedule,
      Parts!Reschedule, Pay!InOrder, Parts!InOrder, Pay!ValidAmount, Parts!ValidAmount
<1> QED BY <1>3, <1>6, <1>7, <1>8, <1>9

LEMMA SameRecords ==
    /\ Blocks!onblockRecords(now) => Parts!onblockRecords(now)
    /\ Blocks!onblockFails(now) => Parts!onblockFails(now)
<1>1. Blocks!Block(now) <=> Parts!Block(now)
  BY Zenon DEF Blocks!Block, Parts!Block
<1>2. Blocks!add_to_blockinfo_table(now) => Parts!add_to_blockinfo_table(now)
  BY Zenon DEF Blocks!add_to_blockinfo_table, Parts!add_to_blockinfo_table,
      Blocks!Rows, Parts!Rows, Blocks!new_block_height, Parts!new_block_height,
      Blocks!Erased, Parts!Erased, Blocks!Cardinality, Parts!Cardinality,
      Blocks!IsFiniteSet, Parts!IsFiniteSet, Blocks!Max, Parts!Max,
      Blocks!last_prunable_block_height, Parts!last_prunable_block_height
<1> QED
  BY <1>1, <1>2, Zenon DEF Blocks!onblockRecords, Parts!onblockRecords,
      Blocks!onblockFails, Parts!onblockFails

-----------------------------------------------------------------------------
(* The inductive invariant: those of the parts.                            *)
PartsInd == Ind /\ Parts!Ind /\ Parts!TimesInd

(* Each step is a step of Schedule.                                        *)
LEMMA ScheduleStep == [BlockNext]_blockvars => [Next]_vars
<1> SUFFICES ASSUME [BlockNext]_blockvars PROVE [Next]_vars
  OBVIOUS
<1>1. ASSUME NEW p \in Producers, NEW accepted \in BOOLEAN, onblockDone(p, accepted)
      PROVE  Next
  BY <1>1, Zenon DEF onblockDone, Next
<1>2. ASSUME NEW p \in Producers, onblockAborted(p) PROVE Next
  BY <1>2, Zenon DEF onblockAborted, Next
<1>3. ASSUME ElectionAction PROVE Next
  BY <1>3, Zenon DEF ElectionAction, Next
<1>4. ASSUME UNCHANGED blockvars \/ PayAction \/ AuctionAction PROVE UNCHANGED vars
  BY <1>4, Zenon DEF blockvars, PayAction, AuctionAction
<1> QED BY <1>1, <1>2, <1>3, <1>4 DEF BlockNext

(* Only blocks change the age of the last election.                        *)
LEMMA ElectionActionKeeps ==
    ElectionAction => UNCHANGED <<since_update, rewardvars, auctionvars, recordvars>>
<1>1. ASSUME NEW p, NEW k, regfinkey(p, k) \/ actfinkey(p, k) \/ delfinkey(p, k)
      PROVE  UNCHANGED since_update
  BY <1>1, Zenon DEF regfinkey, actfinkey, delfinkey
<1>2. ASSUME NEW p, NEW n, RegisterOrLeave(p) \/ MoveVotes(p, n) \/ switchtosvnn
      PROVE  UNCHANGED since_update
  BY <1>2, Zenon DEF RegisterOrLeave, MoveVotes, switchtosvnn
<1> QED BY <1>1, <1>2, Zenon DEF ElectionAction

(* Each step is a step of NameAuction.                                     *)
LEMMA AuctionStep == [BlockNext]_blockvars => [Parts!Next]_(Parts!vars)
<1> SUFFICES ASSUME [BlockNext]_blockvars PROVE [Parts!Next]_(Parts!vars)
  OBVIOUS
<1>1. ASSUME NEW p \in Producers, NEW accepted \in BOOLEAN, onblockDone(p, accepted)
      PROVE  Parts!Next
  BY <1>1, SameBlocks, Zenon DEF onblockDone, Parts!Next
<1>2. ASSUME NEW p \in Producers, onblockAborted(p) PROVE Parts!Next
  BY <1>2, SameBlocks, Zenon DEF onblockAborted, Parts!Next
<1>3. ASSUME ElectionAction PROVE UNCHANGED Parts!vars
  BY <1>3, ElectionActionKeeps, Zenon DEF Parts!vars, auctionvars
<1>4. ASSUME UNCHANGED blockvars \/ PayAction PROVE UNCHANGED Parts!vars
  BY <1>4, Zenon DEF blockvars, PayAction, Parts!vars, auctionvars, vars
<1>5. ASSUME AuctionAction PROVE Parts!Next
  <2>1. CASE \E b \in Bidders, n \in Names, x \in 1..Auction!MAX_AMOUNT :
                Auction!bidname(b, n, x)
    BY <2>1, SameBids, Zenon DEF Parts!Next, Auction!MAX_AMOUNT, Parts!MAX_AMOUNT
  <2>2. CASE \E b \in Bidders, n \in Names : Auction!bidrefund(b, n)
    BY <2>2, SameBids, Zenon DEF Parts!Next
  <2>3. ASSUME NEW c \in Bidders \cup {Auction!System}, NEW n \in Names,
               Auction!newaccount(c, n)
        PROVE  Parts!Next
    <3>1. c \in Bidders \cup Names \cup {} \cup {Parts!System}
      BY Zenon DEF Auction!System, Parts!System
    <3>2. Parts!newaccount(c, n) /\ n \in Names \cup {}
      BY <2>3, SameBids, Zenon
    <3> QED BY <3>1, <3>2, Zenon DEF Parts!Next
  <2> QED BY <1>5, <2>1, <2>2, <2>3, Zenon DEF AuctionAction
<1> QED BY <1>1, <1>2, <1>3, <1>4, <1>5, Zenon DEF BlockNext

(* Each step is a step of BlockInfo.                                       *)
LEMMA RecordsStep ==
    ASSUME Parts!TimesInd
    PROVE  [BlockNext]_blockvars => [Parts!InfoNext]_(Parts!infovars)
<1> SUFFICES ASSUME [BlockNext]_blockvars PROVE [Parts!InfoNext]_(Parts!infovars)
  OBVIOUS
<1> DEFINE Slots == [h \in 0..(now - 1) |-> h]
<1>0. Slots[now - 1] + 1 = now /\ 1 \in 1..2
  BY PayConstants DEF Parts!TimesInd, Parts!ProducerPayAssumption
<1>1. ASSUME NEW p \in Producers, NEW accepted \in BOOLEAN, onblockDone(p, accepted)
      PROVE  Parts!InfoNext
  <2>1. Parts!onblockRecords(now)
    BY <1>1, SameRecords DEF onblockDone
  <2>2. Parts!onblockRecords(Slots[now - 1] + 1)
    BY <1>0, <2>1, Zenon DEF Parts!onblockRecords, Parts!Block, Parts!add_to_blockinfo_table
  <2> QED
    BY <1>0, <2>2, Zenon
    DEF Parts!InfoNext, Parts!onblockRecords, Parts!Block, Parts!add_to_blockinfo_table
<1>2. ASSUME NEW p \in Producers, onblockAborted(p) PROVE Parts!InfoNext
  <2>1. Parts!onblockFails(now)
    BY <1>2, SameRecords DEF onblockAborted
  <2>2. Parts!onblockFails(Slots[now - 1] + 1)
    BY <1>0, <2>1, Zenon DEF Parts!onblockFails, Parts!Block
  <2> QED
    BY <1>0, <2>2, Zenon
    DEF Parts!InfoNext, Parts!onblockFails, Parts!Block
<1>3. ASSUME UNCHANGED blockvars \/ ElectionAction \/ AuctionAction \/ PayAction
      PROVE  UNCHANGED <<now, table, recorded>>
  <2>1. CASE PayAction
    <3>1. now' = now
      BY <2>1, Zenon DEF PayAction, Pay!cfgelection
    <3> QED BY <2>1, <3>1, Zenon DEF PayAction, recordvars
  <2>2. CASE UNCHANGED blockvars \/ ElectionAction \/ AuctionAction
    BY <2>2, Zenon DEF blockvars, ElectionAction, AuctionAction, rewardvars, recordvars
  <2> QED BY <1>3, <2>1, <2>2
<1>4. UNCHANGED <<now, table, recorded>> => UNCHANGED Parts!infovars
  BY Zenon DEF Parts!infovars
<1> QED BY <1>1, <1>2, <1>3, <1>4, Zenon DEF BlockNext

(* No part but the reward can abort onblock.                               *)
LEMMA OnlyTraps ==
    ASSUME PartsInd, NEW p, Aborts(p)
    PROVE  Parts!Traps(p)
<1>1. ~ProposalRefused
  <2>1. KeyTablesInv
    BY DEF PartsInd, Ind
  <2> QED BY <2>1, IndProposal DEF ProposalNeverFails, ProposalRefused
<1>2. ~Auction!FeeRefused
  BY PartsConstants, SameBlocks, Parts!FeePaid DEF PartsInd
<1> QED BY <1>1, <1>2, SamePay, Zenon DEF Aborts

(* Each step is a step of ProducerPay.                                     *)
LEMMA RewardStep ==
    ASSUME PartsInd
    PROVE  [BlockNext]_blockvars => [Parts!PayNext]_(Parts!payvars)
<1> SUFFICES ASSUME [BlockNext]_blockvars PROVE [Parts!PayNext]_(Parts!payvars)
  OBVIOUS
<1>0. producers \in [Producers -> ProducerInfo]
  BY DEF PartsInd, Ind, KeyTablesInv, TypeOK
<1>1. ASSUME NEW p \in Producers, NEW accepted \in BOOLEAN, onblockDone(p, accepted)
      PROVE  Parts!PayNext
  BY <1>1, SamePay, Zenon DEF onblockDone, Parts!PayNext
<1>2. ASSUME NEW p \in Producers, onblockAborted(p) PROVE Parts!PayNext
  <2>1. Parts!Traps(p)
    BY <1>2, OnlyTraps DEF onblockAborted
  <2>2. Parts!onblockTraps(p)
    BY <1>2, <2>1, SamePay DEF onblockAborted, Parts!onblockTraps
  <2> QED BY <2>2, Zenon DEF Parts!PayNext
<1>3. ASSUME PayAction PROVE Parts!PayNext
  <2>1. PICK e \in StartTimes, r \in StartTimes, a \in Rewards :
           Pay!cfgelection(e, r, a)
    BY <1>3 DEF PayAction
  <2>2. Parts!cfgelection(e, r, a)
    BY <2>1, SamePay
  <2>3. e \in 1..MaxTime /\ r \in 1..MaxTime
    BY OnBlockAssumption
  <2> QED BY <2>2, <2>3, Zenon DEF Parts!PayNext
<1>4. ASSUME UNCHANGED <<rewardvars, producers>> PROVE UNCHANGED Parts!payvars
  <2>1. registered' = registered
    BY <1>4 DEF registered
  <2> QED BY <1>4, <2>1, Zenon DEF Parts!payvars, rewardvars
<1>5. ASSUME UNCHANGED blockvars \/ AuctionAction PROVE UNCHANGED Parts!payvars
  <2>1. UNCHANGED <<rewardvars, producers>>
    BY <1>5, Zenon DEF AuctionAction, blockvars, vars
  <2> QED BY <1>4, <2>1
<1>6. ASSUME ElectionAction PROVE [Parts!PayNext]_(Parts!payvars)
  <2>0. UNCHANGED rewardvars
    BY <1>6 DEF ElectionAction
  <2>1. ASSUME NEW p \in Producers, RegisterOrLeave(p) PROVE Parts!PayNext
    <3>1. \A q \in Producers : producers'[q].exists = (producers[q].exists \/ q = p)
      BY <1>0, <2>1 DEF RegisterOrLeave, ProducerInfo
    <3>2. registered' = registered \cup {p}
      BY <3>1 DEF registered
    <3>3. Parts!regproducer(p)
      BY <2>0, <3>2, Zenon DEF Parts!regproducer, rewardvars
    <3> QED BY <3>3, Zenon DEF Parts!PayNext
  <2>2. ASSUME NEW p \in Producers, NEW n, MoveVotes(p, n) PROVE UNCHANGED Parts!payvars
    <3>1. \A q \in Producers : producers'[q].exists = producers[q].exists
      BY <1>0, <2>2 DEF MoveVotes, ProducerInfo
    <3>2. registered' = registered
      BY <3>1 DEF registered
    <3> QED BY <2>0, <3>2, Zenon DEF Parts!payvars, rewardvars
  <2>3. ASSUME NEW p, NEW k, regfinkey(p, k) \/ actfinkey(p, k) \/ delfinkey(p, k)
        PROVE  UNCHANGED Parts!payvars
    <3>1. producers' = producers
      BY <2>3, Zenon DEF regfinkey, actfinkey, delfinkey
    <3> QED BY <1>4, <2>0, <3>1
  <2>4. ASSUME switchtosvnn PROVE UNCHANGED Parts!payvars
    <3>1. producers' = producers
      BY <2>4, Zenon DEF switchtosvnn
    <3> QED BY <1>4, <2>0, <3>1
  <2> QED BY <1>6, <2>1, <2>2, <2>3, <2>4, Zenon DEF ElectionAction
<1> QED BY <1>1, <1>2, <1>3, <1>5, <1>6, Zenon DEF BlockNext

LEMMA PartsStart ==
    BlockInit => Init /\ Parts!Init /\ Parts!PayInit /\ Parts!InfoInit
<1> SUFFICES ASSUME BlockInit PROVE Init /\ Parts!Init /\ Parts!PayInit /\ Parts!InfoInit
  OBVIOUS
<1>1. Init
  BY DEF BlockInit
<1>2. Parts!Init
  BY Zenon DEF BlockInit, Auction!Init, Parts!Init, Auction!System, Parts!System
<1>3. Parts!PayInit
  BY Zenon DEF BlockInit, Pay!PayInit, Parts!PayInit
<1>4. now = 1
  BY <1>3 DEF Parts!PayInit
<1>5. Parts!InfoInit
  <2>1. now - 1 \in 0..1
    BY <1>4
  <2> QED BY <2>1, Zenon DEF BlockInit, Parts!InfoInit
<1> QED BY <1>1, <1>2, <1>3, <1>5

LEMMA PartsIndStart == BlockInit => PartsInd
BY PartsStart, InitInd, PartsConstants, Parts!Start, Parts!TimesStart
DEF PartsInd

LEMMA PartsIndStep == PartsInd /\ [BlockNext]_blockvars => PartsInd'
<1> SUFFICES ASSUME PartsInd, [BlockNext]_blockvars PROVE PartsInd'
  OBVIOUS
<1>1. Ind'
  BY ScheduleStep, NextInd DEF PartsInd
<1>2. Parts!Ind'
  BY AuctionStep, PartsConstants, Parts!Step DEF PartsInd
<1>3. Parts!TimesInd'
  BY RewardStep, PartsConstants, Parts!TimesStep DEF PartsInd
<1> QED BY <1>1, <1>2, <1>3 DEF PartsInd

(* onblock as a whole implements each of its parts: what is proved of the  *)
(* election, the auction, the reward and the records on their own holds    *)
(* when they share the producers, the clock and one transaction, of which  *)
(* a failing part undoes all.                                              *)
THEOREM BlockImplementsParts ==
    BlockSpec => Spec /\ Parts!Spec /\ Parts!PaySpec /\ Parts!InfoSpec
<1>1. PartsInd /\ [BlockNext]_blockvars =>
         /\ [Next]_vars
         /\ [Parts!Next]_(Parts!vars)
         /\ [Parts!PayNext]_(Parts!payvars)
         /\ [Parts!InfoNext]_(Parts!infovars)
  BY ScheduleStep, AuctionStep, RewardStep, RecordsStep DEF PartsInd
<1> QED
  BY <1>1, PartsStart, PartsIndStart, PartsIndStep, PTL
  DEF BlockSpec, Spec, Parts!Spec, Parts!PaySpec, Parts!InfoSpec

-----------------------------------------------------------------------------
LEMMA NoGapStep ==
    ASSUME PartsInd, NoGapInv, [BlockNext]_blockvars
    PROVE  NoGapInv'
<1> DEFINE H == HalvingPeriodSeconds
           Late(h) == reward_started_time # 0 /\ h - reward_started_time >= 2 * H * Width
           LateNext(h) == /\ reward_started_time' # 0
                          /\ h - reward_started_time' >= 2 * H * Width
<1>0. /\ now \in Nat /\ now > 0 /\ reward_started_time \in Nat
      /\ 2 * H * Width \in Nat
  BY PayConstants
  DEF PartsInd, Parts!TimesInd, Parts!ProducerPayAssumption
<1>1. \A h \in 1..(now - 1) : h \in recorded \/ Late(h)
  BY DEF NoGapInv
<1>2. SUFFICES \A h \in 1..(now' - 1) : h \in recorded' \/ LateNext(h)
  BY DEF NoGapInv
<1>3. ASSUME NEW p \in Producers, NEW accepted \in BOOLEAN, onblockDone(p, accepted)
      PROVE  \A h \in 1..(now' - 1) : h \in recorded' \/ LateNext(h)
  <2>1. now' = now + 1 /\ reward_started_time' = reward_started_time
    BY <1>3, Zenon DEF onblockDone, Pay!onblockPays, Pay!Tick
  <2>2. recorded' = recorded \cup {(now - 1) + 1}
    BY <1>3, Zenon DEF onblockDone, Blocks!onblockRecords
  <2>3. \A h \in 1..(now' - 1) : h = (now - 1) + 1 \/ h \in 1..(now - 1)
    BY <1>0, <2>1
  <2> QED BY <1>1, <2>1, <2>2, <2>3
<1>4. ASSUME NEW p \in Producers, onblockAborted(p)
      PROVE  \A h \in 1..(now' - 1) : h \in recorded' \/ LateNext(h)
  <2>1. now' = now + 1 /\ reward_started_time' = reward_started_time
    BY <1>4, Zenon DEF onblockAborted, Pay!Missed, Pay!Tick
  <2>2. recorded' = recorded
    BY <1>4, Zenon DEF onblockAborted, Blocks!onblockFails
  <2>3. Parts!Traps(p) /\ Parts!TimesInd
    BY <1>4, OnlyTraps DEF onblockAborted, PartsInd
  <2>4. Late(now)
    BY <2>3, PartsConstants, Parts!TrapsLate DEF Parts!Started
  <2>5. \A h \in 1..(now' - 1) : h = now \/ h \in 1..(now - 1)
    BY <1>0, <2>1
  <2> QED BY <1>1, <2>1, <2>2, <2>4, <2>5
<1>5. ASSUME PayAction
      PROVE  \A h \in 1..(now' - 1) : h \in recorded' \/ LateNext(h)
  <2>1. PICK e \in StartTimes, r \in StartTimes, a \in Rewards :
           Pay!cfgelection(e, r, a)
    BY <1>5 DEF PayAction
  <2>2. now' = now /\ recorded' = recorded
    BY <1>5, <2>1, Zenon DEF PayAction, recordvars, Pay!cfgelection
  <2>3. reward_started_time \in 1..now => reward_started_time' = reward_started_time
    BY <1>0, <2>1 DEF Pay!cfgelection, Pay!Reschedule
  <2>4. ASSUME NEW h \in 1..(now - 1), Late(h) PROVE LateNext(h)
    BY <1>0, <2>3, <2>4
  <2> QED BY <1>1, <2>2, <2>4
<1>6. ASSUME UNCHANGED blockvars \/ ElectionAction \/ AuctionAction
      PROVE  \A h \in 1..(now' - 1) : h \in recorded' \/ LateNext(h)
  <2>1. UNCHANGED <<now, reward_started_time, recorded>>
    BY <1>6, Zenon DEF blockvars, ElectionAction, AuctionAction, rewardvars, recordvars
  <2> QED BY <1>1, <2>1
<1> QED BY <1>3, <1>4, <1>5, <1>6, Zenon DEF BlockNext

(* No part of onblock ever fails and takes the records, the election and   *)
(* the auction of a block with it, before the rewards have halved as often *)
(* as an int64_t has bits (rewards_per_block's division in onblock).       *)
THEOREM NoBlockMissed == BlockSpec => []NoGapInv
<1>1. BlockInit => NoGapInv
  <2>1. ASSUME BlockInit PROVE now = 1
    BY <2>1, PartsStart DEF Parts!PayInit
  <2> QED BY <2>1 DEF NoGapInv
<1>2. PartsInd /\ NoGapInv /\ [BlockNext]_blockvars => NoGapInv'
  BY NoGapStep
<1> QED BY <1>1, <1>2, PartsIndStart, PartsIndStep, PTL DEF BlockSpec
=============================================================================
