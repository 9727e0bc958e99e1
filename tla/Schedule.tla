------------------------------ MODULE Schedule ------------------------------
(***************************************************************************)
(* The producer schedule and the finalizer policy of flon.system: finalizer*)
(* keys (regfinkey, actfinkey, delfinkey), the switch to Savanna, and the  *)
(* election that onblock holds once a minute.                              *)
(*                                                                         *)
(* Producer names are naturals, in the order of name.  A vector sorted by  *)
(* key id, with no id twice, is the set of its entries.  The votes and the *)
(* registration of producers change through Voting; here they are moved by *)
(* RegisterOrLeave and MoveVotes.                                          *)
(***************************************************************************)
EXTENDS Integers, FiniteSets

CONSTANTS
    Producers,       \* producer names, ordered as numbers
    Keys,            \* finalizer public keys
    MaxScheduled,    \* 21, the size of a full schedule
    UpdateInterval,  \* 120, blocks between two elections
    MaxVotes,        \* bound: total_votes of a producer
    MaxKeyIds        \* bound: how many key ids are handed out

ASSUME ScheduleAssumption ==
    /\ Producers \subseteq Nat /\ IsFiniteSet(Producers)
    /\ IsFiniteSet(Keys)
    /\ {MaxScheduled, UpdateInterval, MaxVotes, MaxKeyIds} \subseteq Nat

VARIABLES
    producers,                     \* _producers
    finkeys,                       \* _finalizer_keys, a set of rows
    finalizers,                    \* _finalizers, by finalizer name
    next_key_id,                   \* the id the next key gets
    last_proposed_finalizers,      \* _last_prop_finalizers
    last_producer_schedule_size,   \* _gstate
    since_update,                  \* blocks since last_producer_schedule_update
    schedule                       \* the schedule the chain last accepted

keyvars == <<finkeys, finalizers, next_key_id>>
vars == <<producers, finkeys, finalizers, next_key_id, last_proposed_finalizers,
          last_producer_schedule_size, since_update, schedule>>

KeyIds == 0..(MaxKeyIds - 1)

ProducerInfo == [ exists : BOOLEAN, is_active : BOOLEAN, total_votes : 0..MaxVotes ]

FinalizerKeyInfo == [ id : KeyIds, finalizer_name : Producers, finalizer_key : Keys ]

FinalizerInfo ==
    [ active_key_id : KeyIds, active_key : Keys, finalizer_key_count : Nat ]

(* finalizer_auth_info; the description of the authority is the name.      *)
FinalizerAuthInfo == [ key_id : KeyIds, description : Producers, public_key : Keys ]

Init ==
    /\ producers = [p \in Producers |->
          [ exists |-> FALSE, is_active |-> FALSE, total_votes |-> 0 ]]
    /\ finkeys = {}
    /\ finalizers = [p \in {} |-> {}]
    /\ next_key_id = 0
    /\ last_proposed_finalizers = {}
    /\ last_producer_schedule_size = 0
    /\ since_update = UpdateInterval    \* there was no election before
    /\ schedule = {}

-----------------------------------------------------------------------------
(* The environment: voting.cpp changes the producer table.                 *)

RegisterOrLeave(p) ==
    /\ producers' = [producers EXCEPT ![p].exists = TRUE, ![p].is_active = ~@]
    /\ UNCHANGED <<keyvars, last_proposed_finalizers,
                   last_producer_schedule_size, since_update, schedule>>

MoveVotes(p, votes) ==
    /\ producers[p].exists
    /\ producers' = [producers EXCEPT ![p].total_votes = votes]
    /\ UNCHANGED <<keyvars, last_proposed_finalizers,
                   last_producer_schedule_size, since_update, schedule>>

-----------------------------------------------------------------------------
(* The election.                                                           *)

is_savanna_consensus == last_proposed_finalizers # {}

(* The order of the prototalvote index: by_votes puts active producers     *)
(* before inactive ones and more votes before fewer; equal keys are in     *)
(* the order of the names.                                                 *)
RanksBefore(p, q) ==
    \/ producers[p].total_votes > producers[q].total_votes
    \/ producers[p].total_votes = producers[q].total_votes /\ p < q

(* The producers the loops over the index look at before they stop.        *)
Electable == {p \in Producers :
    producers[p].exists /\ producers[p].is_active /\ producers[p].total_votes > 0}

(* The first n producers of P in the order of the index.                   *)
TopOf(P, n) == {p \in P : Cardinality({q \in P : RanksBefore(q, p)}) < n}

HasFinalizer(P) == P \cap DOMAIN finalizers

(* The finalizer_auth_info made from the row of p.                         *)
AuthInfo(p) ==
    [ key_id |-> finalizers[p].active_key_id, description |-> p,
      public_key |-> finalizers[p].active_key ]

top_producers ==
    TopOf(IF is_savanna_consensus THEN HasFinalizer(Electable) ELSE Electable,
          MaxScheduled)

(* The host function set_finalizers refuses a policy with a key twice.     *)
DistinctKeys(proposed) ==
    \A e, f \in proposed : e.public_key = f.public_key => e = f

(* Mutant: a policy of the same size counts as unchanged.                  *)
SameFinalizers_BySize(E, F) == Cardinality(E) = Cardinality(F)

(* operator== of finalizer_auth_info looks at the id and the key only.     *)
SameFinalizers(E, F) ==
    {<<e.key_id, e.public_key>> : e \in E} = {<<f.key_id, f.public_key>> : f \in F}

set_proposed_finalizers(proposed) ==
    IF SameFinalizers(proposed, last_proposed_finalizers)
    THEN UNCHANGED last_proposed_finalizers
    ELSE /\ DistinctKeys(proposed)
         /\ last_proposed_finalizers' = proposed

ProposedFinalizers == {AuthInfo(p) : p \in HasFinalizer(top_producers)}

(* The schedule never shrinks: too few candidates leave it as it is.       *)
EnoughElected ==
    /\ top_producers # {}
    /\ Cardinality(top_producers) >= last_producer_schedule_size

(* accepted: the host function set_proposed_producers returned a version;  *)
(* it returns -1 when the schedule is the same or one is still pending.    *)
update_elected_producers(accepted) ==
    IF EnoughElected
    THEN /\ IF accepted
            THEN /\ schedule' = top_producers
                 /\ last_producer_schedule_size' = Cardinality(top_producers)
            ELSE UNCHANGED <<schedule, last_producer_schedule_size>>
         /\ IF is_savanna_consensus
            THEN set_proposed_finalizers(ProposedFinalizers)
            ELSE UNCHANGED last_proposed_finalizers
    ELSE UNCHANGED <<schedule, last_producer_schedule_size,
                     last_proposed_finalizers>>

(* More than UpdateInterval blocks after the last election.                *)
ElectionDue == since_update + 1 > UpdateInterval

(* onblock, once the election is active.                                   *)
onblock(accepted) ==
    /\ IF ElectionDue
       THEN /\ update_elected_producers(accepted)
            /\ since_update' = 0
       ELSE /\ since_update' = since_update + 1
            /\ UNCHANGED <<schedule, last_producer_schedule_size,
                           last_proposed_finalizers>>
    /\ UNCHANGED <<producers, keyvars>>

(* A block whose onblock returns early, before the election is active, or  *)
(* is aborted; an age that has reached the interval stays there.           *)
BlockPasses ==
    /\ since_update' = IF ElectionDue THEN since_update ELSE since_update + 1
    /\ UNCHANGED <<producers, keyvars, last_proposed_finalizers,
                   last_producer_schedule_size, schedule>>

(* set_finalizers refuses the policy of this election and aborts onblock.  *)
ProposalRefused ==
    /\ ElectionDue /\ EnoughElected /\ is_savanna_consensus
    /\ ~SameFinalizers(ProposedFinalizers, last_proposed_finalizers)
    /\ ~DistinctKeys(ProposedFinalizers)

(* Mutant: one finalizer is enough to switch.                              *)
EnoughFinalizers_One(proposed) == proposed # {}

(* switchtosvnn needs a finalizer for every place in the schedule.         *)
EnoughFinalizers(proposed) ==
    Cardinality(proposed) = last_producer_schedule_size

switchtosvnn ==
    LET proposed == {AuthInfo(p) :
            p \in TopOf(HasFinalizer(Electable), last_producer_schedule_size)}
    IN  /\ ~is_savanna_consensus
        /\ EnoughFinalizers(proposed)
        /\ set_proposed_finalizers(proposed)
        /\ last_proposed_finalizers' # {}
        /\ UNCHANGED <<producers, keyvars, last_producer_schedule_size,
                       since_update, schedule>>

-----------------------------------------------------------------------------
(* Finalizer keys.                                                         *)

(* A new id, larger than every id handed out before.                       *)
get_next_finalizer_key_id == next_key_id

(* Mutant: any key may be registered.                                      *)
KeyUnused_Unchecked(key) == TRUE

(* The duplicate check across the keys of all finalizers.                  *)
KeyUnused(key) == \A k \in finkeys : k.finalizer_key # key

regfinkey(p, key) ==
    LET id == get_next_finalizer_key_id
    IN  /\ id \in KeyIds
        /\ producers[p].exists
        /\ KeyUnused(key)
        /\ next_key_id' = id + 1
        /\ finkeys' = finkeys \cup
              {[ id |-> id, finalizer_name |-> p, finalizer_key |-> key ]}
        /\ finalizers' =
              IF p \in DOMAIN finalizers
              THEN [finalizers EXCEPT ![p].finalizer_key_count = @ + 1]
              ELSE [q \in DOMAIN finalizers \cup {p} |->
                      IF q = p
                      THEN [ active_key_id |-> id, active_key |-> key,
                             finalizer_key_count |-> 1 ]
                      ELSE finalizers[q]]
        /\ UNCHANGED <<producers, last_proposed_finalizers,
                       last_producer_schedule_size, since_update, schedule>>

(* Keys of finalizer p that actfinkey and delfinkey accept.                *)
RegisteredKeys(p, key) ==
    {k \in finkeys : k.finalizer_key = key /\ k.finalizer_name = p}

get_finalizer_itr(p) ==
    p \in DOMAIN finalizers /\ finalizers[p].finalizer_key_count > 0

(* The last proposal with the entry of old_id replaced by the new key.     *)
ReplaceKey(old_id, k) ==
    {IF e.key_id = old_id
     THEN [e EXCEPT !.key_id = k.id, !.public_key = k.finalizer_key]
     ELSE e : e \in last_proposed_finalizers}

actfinkey(p, key) ==
    /\ get_finalizer_itr(p)
    /\ \E k \in RegisteredKeys(p, key) :
          LET old_id == finalizers[p].active_key_id IN
          /\ k.id # old_id
          /\ finalizers' = [finalizers EXCEPT ![p].active_key_id = k.id,
                                              ![p].active_key = k.finalizer_key]
          /\ IF \E e \in last_proposed_finalizers : e.key_id = old_id
             THEN set_proposed_finalizers(ReplaceKey(old_id, k))
             ELSE UNCHANGED last_proposed_finalizers
    /\ UNCHANGED <<producers, finkeys, next_key_id,
                   last_producer_schedule_size, since_update, schedule>>

(* Mutant: an active key may go while others remain.                       *)
MayDelete_Active(p, k) == TRUE

(* An active key goes only as the last one.                                *)
MayDelete(p, k) ==
    k.id = finalizers[p].active_key_id => finalizers[p].finalizer_key_count = 1

delfinkey(p, key) ==
    /\ get_finalizer_itr(p)
    /\ \E k \in RegisteredKeys(p, key) :
          /\ MayDelete(p, k)
          /\ finalizers' =
                IF finalizers[p].finalizer_key_count = 1
                THEN [q \in DOMAIN finalizers \ {p} |-> finalizers[q]]
                ELSE [finalizers EXCEPT ![p].finalizer_key_count = @ - 1]
          /\ finkeys' = finkeys \ {k}
    /\ UNCHANGED <<producers, next_key_id, last_proposed_finalizers,
                   last_producer_schedule_size, since_update, schedule>>

-----------------------------------------------------------------------------
Next ==
    \/ \E p \in Producers : RegisterOrLeave(p)
    \/ \E p \in Producers, n \in 0..MaxVotes : MoveVotes(p, n)
    \/ \E accepted \in BOOLEAN : onblock(accepted)
    \/ BlockPasses
    \/ switchtosvnn
    \/ \E p \in Producers, k \in Keys : regfinkey(p, k)
    \/ \E p \in Producers, k \in Keys : actfinkey(p, k)
    \/ \E p \in Producers, k \in Keys : delfinkey(p, k)

Spec == Init /\ [][Next]_vars

(* The chain runs onblock in every block.                                  *)
FairSpec == Spec /\ WF_vars(\E accepted \in BOOLEAN : onblock(accepted))

-----------------------------------------------------------------------------
(* Properties.                                                             *)

TypeOK ==
    /\ producers \in [Producers -> ProducerInfo]
    /\ finkeys \subseteq FinalizerKeyInfo
    /\ DOMAIN finalizers \subseteq Producers
    /\ \A p \in DOMAIN finalizers : finalizers[p] \in FinalizerInfo
    /\ next_key_id \in 0..MaxKeyIds
    /\ last_proposed_finalizers \subseteq FinalizerAuthInfo
    /\ last_producer_schedule_size \in 0..MaxScheduled
    /\ since_update \in 0..UpdateInterval
    /\ schedule \subseteq Producers

KeysOf(p) == {k \in finkeys : k.finalizer_name = p}

(* The tables are well typed and agree: a finalizer has a row exactly      *)
(* while it has keys, counts them right, and its active key is one of      *)
(* them; no key and no id is registered twice, and no id comes back after  *)
(* its key is gone.                                                        *)
KeyTablesInv ==
    /\ TypeOK
    /\ \A p \in Producers : p \in DOMAIN finalizers <=> KeysOf(p) # {}
    /\ \A p \in DOMAIN finalizers :
          /\ finalizers[p].finalizer_key_count = Cardinality(KeysOf(p))
          /\ \E k \in KeysOf(p) : /\ k.id = finalizers[p].active_key_id
                                  /\ k.finalizer_key = finalizers[p].active_key
    /\ \A j, k \in finkeys :
          j.id = k.id \/ j.finalizer_key = k.finalizer_key => j = k
    /\ \A k \in finkeys : k.id < next_key_id
    /\ \A e \in last_proposed_finalizers : e.key_id < next_key_id

(* "this function may never fail": the policy that onblock proposes never  *)
(* has a key twice, so that set_finalizers cannot abort onblock, even      *)
(* after keys were deleted and registered again by other finalizers.  (A   *)
(* proposal of actfinkey may have a key twice, and then it is refused.)    *)
ProposalNeverFails == DistinctKeys(ProposedFinalizers)

(* Once in Savanna the policy has at least as many finalizers as the       *)
(* schedule has producers, with different keys and different ids.          *)
PolicyInv ==
    is_savanna_consensus =>
        /\ Cardinality(last_proposed_finalizers) >= last_producer_schedule_size
        /\ DistinctKeys(last_proposed_finalizers)
        /\ \A e, f \in last_proposed_finalizers :
              e.key_id = f.key_id \/ e.description = f.description => e = f

(* If from some time on the election keeps giving the same finalizers, and *)
(* enough of them, the policy ends up with exactly these.                  *)
PolicyConverges ==
    /\ <>[](is_savanna_consensus /\ EnoughElected)
    /\ <>[][ProposedFinalizers' = ProposedFinalizers]_vars
    => <>[](last_proposed_finalizers = ProposedFinalizers)
=============================================================================
