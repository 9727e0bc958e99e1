-------------------------- MODULE AuthorityProofs ---------------------------
(***************************************************************************)
(* Theorems about who may act for whom.  Msig: the two tables of a         *)
(* proposal agree, its levels are never lost, approvals stay with the      *)
(* transaction they were given for, a transaction is executed only by the  *)
(* levels that stand by it and only after its delay.  LimitAuth: the owner *)
(* of an account is never locked out, and a permission that limitauthchg   *)
(* excludes is powerless.                                                  *)
(***************************************************************************)
EXTENDS Msig, LimitAuth, SequenceTheorems, SumTheorems

-----------------------------------------------------------------------------
(* Msig.                                                                   *)

(* The positions of the approvals of a level in a list.                    *)
Given(s, l) == {i \in DOMAIN s : s[i].level = l}

ApprovalRow ==
    [ exists : BOOLEAN, requested : [Levels -> Nat], provided : Seq(Approval) ]

Shape ==
    /\ now \in 1..MaxTime
    /\ authority \in Authorities
    /\ proposals \in [Keys -> Proposal]
    /\ approvals \in [Keys -> ApprovalRow]
    /\ invals \in [Actors -> 0..MaxTime]
    /\ sent \in Seq(Trxs)
    /\ approved \in [Keys -> [Levels -> Int]]
    /\ valid \subseteq Keys \X Levels

(* A proposal that does not exist has left nothing behind.                 *)
RowsInv ==
    \A q \in Keys :
        /\ proposals[q].exists = approvals[q].exists
        /\ ~proposals[q].exists =>
              approvals[q] = NoApprovals /\ proposals[q].earliest_exec_time = 0

(* A level is in the lists no more often than it was requested.            *)
PlacesInv == \A q \in Keys, l \in Levels : Places(q, l) <= Copies

(* No approval is from the future.                                         *)
TimesInv ==
    \A q \in Keys : \A a \in Range(approvals[q].provided) : a.time <= now

(* The list holds the approvals of a level that it has not revoked.        *)
CountInv ==
    \A q \in Keys, l \in Levels :
        approved[q][l] = Cardinality(Given(approvals[q].provided, l))

(* A level whose approval counts has approved since its last invalidation. *)
ValidInv ==
    \A q \in Keys : \A a \in Range(approvals[q].provided) :
        CountsNow(a) => <<q, a.level>> \in valid

(* since tells since when a proposal is authorized; the time the exec of   *)
(* a proposal waits for leaves the delay after that, unless it was lost.   *)
ClockInv ==
    \A q \in Keys :
        /\ since[q] \in 0..now
        /\ since[q] = 0 <=> ~Authorized(q)
        /\ proposals[q].earliest_exec_time # 0 /\ q \notin lost =>
              /\ Authorized(q)
              /\ since[q] + 2 * DelaySec[proposals[q].trx]
                    <= proposals[q].earliest_exec_time

Ind ==
    /\ Shape /\ RowsInv /\ PlacesInv /\ HashInv /\ TimesInv /\ ClockInv
    /\ CountInv /\ ValidInv

LEMMA Numbers ==
    /\ Copies \in Nat /\ MaxTime \in Nat /\ MaxTime >= 2
    /\ \A t \in Trxs : DelaySec[t] \in Nat
    /\ Requests \subseteq [Levels -> 0..Copies]
BY MsigAssumption

-----------------------------------------------------------------------------
(* Lists of approvals.                                                     *)

LEMMA ListFacts ==
    ASSUME NEW S, NEW s \in Seq(S)
    PROVE  /\ DOMAIN s = 1..Len(s) /\ Len(s) \in Nat
           /\ Range(s) \subseteq S
           /\ \A i \in 1..Len(s) : s[i] \in S /\ s[i] \in Range(s)
<1>1. DOMAIN s = 1..Len(s) /\ Len(s) \in Nat /\ \A i \in 1..Len(s) : s[i] \in S
  OBVIOUS
<1>2. Range(s) \subseteq S
  BY <1>1 DEF Range
<1>3. \A i \in 1..Len(s) : s[i] \in Range(s)
  BY <1>1 DEF Range
<1> QED BY <1>1, <1>2, <1>3

LEMMA Appended ==
    ASSUME NEW S, NEW s \in Seq(S), NEW a \in S
    PROVE  /\ Append(s, a) \in Seq(S)
           /\ Range(Append(s, a)) = Range(s) \cup {a}
           /\ \A l : Given(Append(s, a), l)
                 = Given(s, l) \cup (IF a.level = l THEN {Len(s) + 1} ELSE {})
<1> DEFINE t == Append(s, a)
<1>1. /\ t \in Seq(S) /\ Len(t) = Len(s) + 1 /\ t[Len(s) + 1] = a
      /\ \A i \in 1..Len(s) : t[i] = s[i]
  OBVIOUS
<1>2. DOMAIN t = 1..(Len(s) + 1) /\ DOMAIN s = 1..Len(s) /\ Len(s) \in Nat
  BY <1>1
<1> HIDE DEF t
<1>3. Range(t) = Range(s) \cup {a}
  BY <1>1, <1>2 DEF Range
<1>4. \A l : Given(t, l) = Given(s, l) \cup (IF a.level = l THEN {Len(s) + 1} ELSE {})
  BY <1>1, <1>2 DEF Given
<1> QED BY <1>1, <1>3, <1>4 DEF t

LEMMA Removed ==
    ASSUME NEW S, NEW s \in Seq(S), NEW k \in 1..Len(s)
    PROVE  /\ RemoveAt(s, k) \in Seq(S)
           /\ Len(RemoveAt(s, k)) = Len(s) - 1
           /\ \A i \in 1..(Len(s) - 1) :
                 RemoveAt(s, k)[i] = IF i < k THEN s[i] ELSE s[i + 1]
<1> DEFINE u == SubSeq(s, 1, k - 1)
           v == SubSeq(s, k + 1, Len(s))
<1>1. Len(s) \in Nat /\ k \in Int /\ 1 <= k /\ k <= Len(s)
  OBVIOUS
<1>2. \A i \in 1..Len(s) : s[i] \in S
  OBVIOUS
<1>3. /\ u \in Seq(S) /\ Len(u) = k - 1
      /\ \A i \in 1..(k - 1) : u[i] = s[i]
  <2>1. \A i \in 1..(k - 1) : s[i] \in S
    BY <1>1, <1>2
  <2>2. 1 \in Int /\ k - 1 \in Int
    BY <1>1
  <2>3. /\ SubSeq(s, 1, k - 1) \in Seq(S)
        /\ Len(SubSeq(s, 1, k - 1)) = IF 1 <= k - 1 THEN (k - 1) - 1 + 1 ELSE 0
        /\ \A i \in 1..((k - 1) - 1 + 1) : SubSeq(s, 1, k - 1)[i] = s[1 + i - 1]
    BY <2>1, <2>2, SubSeqProperties
  <2> QED BY <1>1, <2>3
<1>4. /\ v \in Seq(S) /\ Len(v) = Len(s) - k
      /\ \A i \in 1..(Len(s) - k) : v[i] = s[k + i]
  <2>1. \A i \in (k + 1)..Len(s) : s[i] \in S
    BY <1>1, <1>2
  <2>2. k + 1 \in Int /\ Len(s) \in Int
    BY <1>1
  <2>3. /\ v \in Seq(S)
        /\ Len(v) = IF k + 1 <= Len(s) THEN Len(s) - (k + 1) + 1 ELSE 0
        /\ \A i \in 1..(Len(s) - (k + 1) + 1) : v[i] = s[(k + 1) + i - 1]
    BY <2>1, <2>2, SubSeqProperties
  <2> HIDE DEF v
  <2>4. \A i \in 1..(Len(s) - k) : (k + 1) + i - 1 = k + i
    BY <1>1
  <2>5. Len(s) - (k + 1) + 1 = Len(s) - k
    BY <1>1
  <2>6. Len(v) = Len(s) - k
    BY <1>1, <2>3
  <2>7. \A i \in 1..(Len(s) - k) : v[i] = s[(k + 1) + i - 1]
    BY <2>3, <2>5
  <2> QED BY <2>3, <2>4, <2>6, <2>7
<1>5. RemoveAt(s, k) = u \o v
  BY DEF RemoveAt
<1> HIDE DEF u, v
<1>6. /\ u \o v \in Seq(S) /\ Len(u \o v) = Len(u) + Len(v)
      /\ \A i \in 1..(Len(u) + Len(v)) :
            (u \o v)[i] = IF i <= Len(u) THEN u[i] ELSE v[i - Len(u)]
  BY <1>3, <1>4, ConcatProperties
<1>7. Len(u) + Len(v) = Len(s) - 1
  BY <1>1, <1>3, <1>4
<1>8. ASSUME NEW i \in 1..(Len(s) - 1)
      PROVE  (u \o v)[i] = IF i < k THEN s[i] ELSE s[i + 1]
  <2>1. (u \o v)[i] = IF i <= k - 1 THEN u[i] ELSE v[i - (k - 1)]
    BY <1>3, <1>6, <1>7, <1>8
  <2>2. CASE i < k
    BY <1>1, <1>3, <1>8, <2>1, <2>2
  <2>3. CASE ~(i < k)
    <3>1. i - (k - 1) \in 1..(Len(s) - k) /\ k + (i - (k - 1)) = i + 1
      BY <1>1, <1>8, <2>3
    <3>2. v[i - (k - 1)] = s[i + 1]
      BY <1>4, <3>1
    <3> QED BY <1>1, <1>8, <2>1, <2>3, <3>2
  <2> QED BY <2>2, <2>3
<1> QED BY <1>5, <1>6, <1>7, <1>8

LEMMA GivenFinite ==
    ASSUME NEW S, NEW s \in Seq(S), NEW l
    PROVE  IsFiniteSet(Given(s, l)) /\ Cardinality(Given(s, l)) \in Nat
<1>1. IsFiniteSet(1..Len(s))
  BY FS_Interval
<1>2. Given(s, l) \in SUBSET (1..Len(s))
  BY DEF Given
<1>3. IsFiniteSet(Given(s, l))
  BY <1>1, <1>2, FS_Subset
<1> QED BY <1>3, FS_CardinalityType

(* Erasing the approval at k shifts those behind it.                       *)
LEMMA RemovedGiven ==
    ASSUME NEW S, NEW s \in Seq(S), NEW k \in 1..Len(s), NEW l
    PROVE  /\ Cardinality(Given(RemoveAt(s, k), l)) = Cardinality(Given(s, l) \ {k})
           /\ Range(RemoveAt(s, k)) \subseteq Range(s)
           /\ \A a \in Range(RemoveAt(s, k)) : \E i \in (1..Len(s)) \ {k} : a = s[i]
<1> DEFINE t == RemoveAt(s, k)
           G == Given(t, l)
           H == Given(s, l) \ {k}
           f == [i \in G |-> IF i < k THEN i ELSE i + 1]
<1>1. /\ t \in Seq(S) /\ Len(t) = Len(s) - 1
      /\ \A i \in 1..(Len(s) - 1) : t[i] = IF i < k THEN s[i] ELSE s[i + 1]
  BY Removed
<1>2. DOMAIN t = 1..(Len(s) - 1) /\ DOMAIN s = 1..Len(s) /\ Len(s) \in Nat
  BY <1>1
<1> HIDE DEF t
<1>3. /\ \A i \in G : i \in 1..(Len(s) - 1) /\ t[i].level = l
      /\ \A i \in 1..(Len(s) - 1) : t[i].level = l => i \in G
      /\ \A j \in H : j \in 1..Len(s) /\ s[j].level = l /\ j # k
      /\ \A j \in 1..Len(s) : s[j].level = l /\ j # k => j \in H
  BY <1>2 DEF Given
<1> HIDE DEF G, H
<1>4. ASSUME NEW i \in G PROVE f[i] \in H
  <2>1. i \in 1..(Len(s) - 1) /\ t[i].level = l /\ t[i] = IF i < k THEN s[i] ELSE s[i + 1]
    BY <1>1, <1>3, <1>4
  <2>2. CASE i < k
    <3>1. f[i] = i /\ i \in 1..Len(s) /\ i # k /\ s[i].level = l
      BY <1>2, <1>4, <2>1, <2>2
    <3> QED BY <1>3, <3>1
  <2>3. CASE ~(i < k)
    <3>1. f[i] = i + 1 /\ i + 1 \in 1..Len(s) /\ i + 1 # k /\ s[i + 1].level = l
      BY <1>2, <1>4, <2>1, <2>3
    <3> QED BY <1>3, <3>1
  <2> QED BY <2>2, <2>3
<1>5. \A i, j \in G : f[i] = f[j] => i = j
  <2>1. \A i \in G : i \in Int
    BY <1>2, <1>3
  <2> QED BY <2>1
<1>6. ASSUME NEW j \in H PROVE \E i \in G : f[i] = j
  <2>1. j \in 1..Len(s) /\ s[j].level = l /\ j # k
    BY <1>3, <1>6
  <2>2. CASE j < k
    <3>1. j \in 1..(Len(s) - 1) /\ t[j] = s[j]
      BY <1>1, <1>2, <2>1, <2>2
    <3>2. j \in G
      BY <1>3, <2>1, <3>1
    <3> QED BY <2>2, <3>2
  <2>3. CASE ~(j < k)
    <3>1. j - 1 \in 1..(Len(s) - 1) /\ ~(j - 1 < k) /\ (j - 1) + 1 = j
      BY <1>2, <2>1, <2>3
    <3>2. t[j - 1] = s[j]
      BY <1>1, <3>1
    <3>3. j - 1 \in G
      BY <1>3, <2>1, <3>1, <3>2
    <3> QED BY <3>1, <3>3
  <2> QED BY <2>2, <2>3
<1>7. f \in Bijection(G, H)
  <2>1. f \in [G -> H]
    BY <1>4
  <2> QED BY <1>5, <1>6, <2>1 DEF Bijection, Injection, Surjection, IsInjective
<1>8. IsFiniteSet(G)
  BY <1>1, GivenFinite DEF G
<1>9. Cardinality(H) = Cardinality(G)
  BY <1>7, <1>8, FS_Bijection DEF ExistsBijection
<1>10. ASSUME NEW a \in Range(t) PROVE \E i \in (1..Len(s)) \ {k} : a = s[i]
  <2>1. PICK i \in 1..(Len(s) - 1) : a = t[i]
    BY <1>2, <1>10 DEF Range
  <2>2. CASE i < k
    <3>1. i \in (1..Len(s)) \ {k} /\ a = s[i]
      BY <1>1, <1>2, <2>1, <2>2
    <3> QED BY <3>1
  <2>3. CASE ~(i < k)
    <3>1. i + 1 \in (1..Len(s)) \ {k} /\ a = s[i + 1]
      BY <1>1, <1>2, <2>1, <2>3
    <3> QED BY <3>1
  <2> QED BY <2>2, <2>3
<1>11. Range(t) \subseteq Range(s)
  BY <1>2, <1>10 DEF Range
<1> QED BY <1>9, <1>10, <1>11 DEF t, G, H

-----------------------------------------------------------------------------
(* What the actions do to the rows of a proposal.                          *)

OtherRows(q) ==
    \A k \in Keys \ {q} : approvals'[k] = approvals[k] /\ proposals'[k] = proposals[k]

LEMMA RowTypes ==
    ASSUME Shape, NEW q \in Keys
    PROVE  /\ approvals[q] \in ApprovalRow /\ proposals[q] \in Proposal
           /\ approvals[q].exists \in BOOLEAN
           /\ approvals[q].requested \in [Levels -> Nat]
           /\ approvals[q].provided \in Seq(Approval)
           /\ proposals[q].exists \in BOOLEAN
           /\ proposals[q].trx \in Trxs
           /\ proposals[q].earliest_exec_time \in Nat
           /\ DelaySec[proposals[q].trx] \in Nat
<1>1. approvals[q] \in ApprovalRow /\ proposals[q] \in Proposal
  BY DEF Shape
<1>2. /\ approvals[q].exists \in BOOLEAN
      /\ approvals[q].requested \in [Levels -> Nat]
      /\ approvals[q].provided \in Seq(Approval)
  BY <1>1 DEF ApprovalRow
<1>3. /\ proposals[q].exists \in BOOLEAN
      /\ proposals[q].trx \in Trxs
      /\ proposals[q].earliest_exec_time \in 0..MaxTime
  BY <1>1 DEF Proposal
<1>4. proposals[q].earliest_exec_time \in Nat /\ DelaySec[proposals[q].trx] \in Nat
  BY <1>3, Numbers
<1> QED BY <1>1, <1>2, <1>3, <1>4

LEMMA NoApprovalsType ==
    /\ NoApprovals \in ApprovalRow
    /\ NoApprovals.exists = FALSE /\ NoApprovals.provided = <<>>
    /\ NoApprovals.requested = [l \in Levels |-> 0]
    /\ Range(<<>>) = {}
<1>1. [l \in Levels |-> 0] \in [Levels -> Nat] /\ <<>> \in Seq(Approval)
  OBVIOUS
<1>2. NoApprovals \in ApprovalRow
  BY <1>1 DEF NoApprovals, ApprovalRow
<1> QED BY <1>2 DEF NoApprovals, Range

LEMMA ProposeRows ==
    ASSUME Shape, NEW q \in Keys, NEW r \in [Levels -> 0..Copies], NEW t \in Trxs,
           propose(q, r, t)
    PROVE  /\ approvals' \in [Keys -> ApprovalRow]
           /\ proposals' \in [Keys -> Proposal]
           /\ OtherRows(q)
           /\ approvals'[q].exists = TRUE
           /\ approvals'[q].requested = r
           /\ approvals'[q].provided = <<>>
           /\ proposals'[q].exists = TRUE
           /\ proposals'[q].trx = t
           /\ proposals'[q].earliest_exec_time = 0
<1> DEFINE a == [ exists |-> TRUE, requested |-> r, provided |-> <<>> ]
           p == [ exists |-> TRUE, trx |-> t, earliest_exec_time |-> 0 ]
<1>1. approvals' = [approvals EXCEPT ![q] = a] /\ proposals' = [proposals EXCEPT ![q] = p]
  BY DEF propose
<1>2. a \in ApprovalRow
  <2>1. r \in [Levels -> Nat] /\ <<>> \in Seq(Approval)
    BY Numbers
  <2> QED BY <2>1 DEF ApprovalRow
<1>3. p \in Proposal
  <2>1. 0 \in 0..MaxTime
    BY Numbers
  <2> QED BY <2>1 DEF Proposal
<1>4. /\ a.exists = TRUE /\ a.requested = r /\ a.provided = <<>>
      /\ p.exists = TRUE /\ p.trx = t /\ p.earliest_exec_time = 0
  OBVIOUS
<1> HIDE DEF a, p
<1>5. approvals \in [Keys -> ApprovalRow] /\ proposals \in [Keys -> Proposal]
  BY DEF Shape
<1>6. approvals'[q] = a /\ proposals'[q] = p
  BY <1>1, <1>5
<1> QED BY <1>1, <1>2, <1>3, <1>4, <1>5, <1>6 DEF OtherRows

LEMMA ApproveRows ==
    ASSUME Shape, NEW q \in Keys, NEW l \in Levels, NEW h \in Hashes, approve(q, l, h)
    PROVE  LET a == [ level |-> l, time |-> now, hash |-> h ] IN
           /\ a \in Approval
           /\ approvals' \in [Keys -> ApprovalRow]
           /\ proposals' \in [Keys -> Proposal]
           /\ OtherRows(q)
           /\ approvals'[q].exists = approvals[q].exists
           /\ approvals'[q].requested = [approvals[q].requested EXCEPT ![l] = @ - 1]
           /\ approvals'[q].provided = Append(approvals[q].provided, a)
           /\ proposals'[q].exists = proposals[q].exists
           /\ proposals'[q].trx = proposals[q].trx
           /\ proposals'[q].earliest_exec_time =
                IF proposals[q].earliest_exec_time = 0
                     /\ trx_is_authorized(q, approvals'[q].provided)
                THEN now + 2 * DelaySec[proposals[q].trx]
                ELSE proposals[q].earliest_exec_time
<1> DEFINE a == [ level |-> l, time |-> now, hash |-> h ]
           s == Append(approvals[q].provided, a)
           e == IF proposals[q].earliest_exec_time = 0 /\ trx_is_authorized(q, s)
                THEN now + 2 * DelaySec[proposals[q].trx]
                ELSE proposals[q].earliest_exec_time
           r1 == [approvals EXCEPT ![q].provided = s]
           r2 == [r1 EXCEPT ![q].requested[l] = @ - 1]
<1>0. approvals \in [Keys -> ApprovalRow] /\ proposals \in [Keys -> Proposal]
  BY DEF Shape
<1>1. a \in Approval
  <2>1. now \in 0..MaxTime
    BY Numbers DEF Shape
  <2> QED BY <2>1 DEF Approval
<1>2. s \in Seq(Approval)
  <2>1. approvals[q].provided \in Seq(Approval)
    BY RowTypes
  <2> HIDE DEF a
  <2> QED BY <1>1, <2>1, Appended
<1>3. approvals' = r2
  BY Zenon DEF approve, r1, r2
<1>4. proposals' = [proposals EXCEPT ![q].earliest_exec_time = e]
  BY DEF approve
<1>5. /\ proposals[q].exists /\ approvals[q].requested[l] > 0
      /\ now + 2 * DelaySec[proposals[q].trx] <= MaxTime
  BY DEF approve
<1>6. e \in 0..MaxTime
  <2>1. proposals[q].earliest_exec_time \in 0..MaxTime
    BY <1>0 DEF Proposal
  <2>2. now \in Nat /\ DelaySec[proposals[q].trx] \in Nat
    BY RowTypes, Numbers DEF Shape
  <2>3. now + 2 * DelaySec[proposals[q].trx] \in 0..MaxTime
    BY <1>5, <2>2, Numbers
  <2> QED BY <2>1, <2>3
<1> HIDE DEF s, e
<1>7. /\ proposals' \in [Keys -> Proposal]
      /\ proposals'[q].exists = proposals[q].exists
      /\ proposals'[q].trx = proposals[q].trx
      /\ proposals'[q].earliest_exec_time = e
      /\ \A k \in Keys \ {q} : proposals'[k] = proposals[k]
  BY <1>0, <1>4, <1>6 DEF Proposal
<1>8. /\ r1 \in [Keys -> ApprovalRow]
      /\ r1[q].exists = approvals[q].exists
      /\ r1[q].requested = approvals[q].requested
      /\ r1[q].provided = s
      /\ \A k \in Keys \ {q} : r1[k] = approvals[k]
  BY <1>0, <1>2 DEF ApprovalRow
<1>9. /\ approvals[q].requested[l] - 1 \in Nat
      /\ [approvals[q].requested EXCEPT ![l] = @ - 1] \in [Levels -> Nat]
  <2>1. approvals[q].requested \in [Levels -> Nat]
    BY RowTypes
  <2> QED BY <1>5, <2>1
<1> DEFINE rq == [approvals[q].requested EXCEPT ![l] = @ - 1]
<1>10. r2 = [r1 EXCEPT ![q].requested = rq]
  <2>1. r2 = [r1 EXCEPT ![q].requested = [r1[q].requested EXCEPT ![l] = @ - 1]]
    BY Zenon DEF r2
  <2> QED BY <1>8, <2>1
<1>11. rq \in [Levels -> Nat]
  BY <1>9
<1> HIDE DEF r1, r2, rq
<1>12. /\ r2 \in [Keys -> ApprovalRow]
       /\ r2[q].exists = approvals[q].exists
       /\ r2[q].requested = rq
       /\ r2[q].provided = s
       /\ \A k \in Keys \ {q} : r2[k] = approvals[k]
  BY <1>8, <1>10, <1>11 DEF ApprovalRow
<1>13. OtherRows(q)
  BY <1>3, <1>7, <1>12 DEF OtherRows
<1> QED BY <1>1, <1>3, <1>7, <1>12, <1>13 DEF rq, s, e

LEMMA UnapproveRows ==
    ASSUME Shape, NEW q \in Keys, NEW l \in Levels, unapprove(q, l)
    PROVE  /\ approvals' \in [Keys -> ApprovalRow]
           /\ proposals' \in [Keys -> Proposal]
           /\ OtherRows(q)
           /\ approvals'[q].exists = approvals[q].exists
           /\ approvals'[q].requested = [approvals[q].requested EXCEPT ![l] = @ + 1]
           /\ \E k \in 1..Len(approvals[q].provided) :
                 /\ approvals[q].provided[k].level = l
                 /\ approvals'[q].provided = RemoveAt(approvals[q].provided, k)
           /\ proposals'[q].exists = proposals[q].exists
           /\ proposals'[q].trx = proposals[q].trx
           /\ proposals'[q].earliest_exec_time =
                IF trx_is_authorized(q, approvals'[q].provided)
                THEN proposals[q].earliest_exec_time ELSE 0
<1> DEFINE given == {i \in DOMAIN approvals[q].provided :
                        approvals[q].provided[i].level = l}
           k == CHOOSE i \in given : \A j \in given : i <= j
           s == RemoveAt(approvals[q].provided, k)
           e == TimeAfterUnapprove(q, s)
           rq == RequestedAgain(q, l)
           r1 == [approvals EXCEPT ![q].requested = rq]
           r2 == [r1 EXCEPT ![q].provided = s]
<1>0. /\ approvals \in [Keys -> ApprovalRow] /\ proposals \in [Keys -> Proposal]
      /\ approvals[q].provided \in Seq(Approval)
      /\ approvals[q].requested \in [Levels -> Nat]
  BY RowTypes DEF Shape
<1>1. /\ given # {} /\ approvals' = r2
      /\ proposals' = [proposals EXCEPT ![q].earliest_exec_time = e]
  BY Zenon DEF unapprove, r1, r2
<1>2. k \in 1..Len(approvals[q].provided) /\ approvals[q].provided[k].level = l
  <2>1. given \in SUBSET (1..Len(approvals[q].provided))
    BY <1>0
  <2>2. given \in SUBSET Nat
    BY <1>0, <2>1
  <2>3. \E i \in given : \A j \in given : i <= j
    BY <1>1, <2>2, LeastExists    \* the first approval of the level
  <2>4. k \in given
    BY <2>3
  <2> QED BY <2>1, <2>4
<1> HIDE DEF k, given
<1>3. s \in Seq(Approval)
  BY <1>0, <1>2, Removed
<1>4. e \in 0..MaxTime /\ e = IF trx_is_authorized(q, s)
                              THEN proposals[q].earliest_exec_time ELSE 0
  <2>1. proposals[q].earliest_exec_time \in 0..MaxTime
    BY <1>0 DEF Proposal
  <2>2. 0 \in 0..MaxTime
    BY Numbers
  <2> QED BY <2>1, <2>2 DEF TimeAfterUnapprove
<1>5. rq \in [Levels -> Nat] /\ rq = [approvals[q].requested EXCEPT ![l] = @ + 1]
  <2>1. rq = [approvals[q].requested EXCEPT ![l] = @ + 1]
    BY DEF RequestedAgain
  <2> QED BY <1>0, <2>1
<1> HIDE DEF s, e, rq
<1>6. /\ proposals' \in [Keys -> Proposal]
      /\ proposals'[q].exists = proposals[q].exists
      /\ proposals'[q].trx = proposals[q].trx
      /\ proposals'[q].earliest_exec_time = e
      /\ \A j \in Keys \ {q} : proposals'[j] = proposals[j]
  BY <1>0, <1>1, <1>4 DEF Proposal
<1>7. /\ r1 \in [Keys -> ApprovalRow]
      /\ r1[q].exists = approvals[q].exists
      /\ r1[q].requested = rq
      /\ \A j \in Keys \ {q} : r1[j] = approvals[j]
  BY <1>0, <1>5 DEF ApprovalRow
<1> HIDE DEF r1
<1>8. /\ r2 \in [Keys -> ApprovalRow]
      /\ r2[q].exists = approvals[q].exists
      /\ r2[q].requested = rq
      /\ r2[q].provided = s
      /\ \A j \in Keys \ {q} : r2[j] = approvals[j]
  BY <1>3, <1>7 DEF ApprovalRow
<1> HIDE DEF r2
<1>9. OtherRows(q)
  BY <1>1, <1>6, <1>8 DEF OtherRows
<1>10. approvals'[q].provided = RemoveAt(approvals[q].provided, k)
  BY <1>1, <1>8 DEF s
<1>11. /\ approvals'[q].exists = approvals[q].exists /\ approvals'[q].requested = rq
       /\ approvals'[q].provided = s /\ approvals' \in [Keys -> ApprovalRow]
  BY <1>1, <1>8
<1> QED BY <1>2, <1>4, <1>5, <1>6, <1>9, <1>10, <1>11

(* cancel and exec erase both rows.                                        *)
Ends(q) ==
    /\ proposals' = [proposals EXCEPT ![q].exists = FALSE, ![q].earliest_exec_time = 0]
    /\ approvals' = [approvals EXCEPT ![q] = NoApprovals]

LEMMA EndsRows ==
    ASSUME Shape, NEW q \in Keys, Ends(q)
    PROVE  /\ approvals' \in [Keys -> ApprovalRow]
           /\ proposals' \in [Keys -> Proposal]
           /\ OtherRows(q)
           /\ approvals'[q] = NoApprovals
           /\ proposals'[q].exists = FALSE
           /\ proposals'[q].trx = proposals[q].trx
           /\ proposals'[q].earliest_exec_time = 0
<1> DEFINE r1 == [proposals EXCEPT ![q].exists = FALSE]
           r2 == [r1 EXCEPT ![q].earliest_exec_time = 0]
<1>0. approvals \in [Keys -> ApprovalRow] /\ proposals \in [Keys -> Proposal]
  BY DEF Shape
<1>1. proposals' = r2
  BY Zenon DEF Ends, r1, r2
<1>2. /\ approvals' \in [Keys -> ApprovalRow]
      /\ approvals'[q] = NoApprovals
      /\ \A k \in Keys \ {q} : approvals'[k] = approvals[k]
  BY <1>0, NoApprovalsType DEF Ends
<1>3. /\ r1 \in [Keys -> Proposal]
      /\ r1[q].exists = FALSE /\ r1[q].trx = proposals[q].trx
      /\ \A k \in Keys \ {q} : r1[k] = proposals[k]
  BY <1>0 DEF Proposal
<1>4. 0 \in 0..MaxTime
  BY Numbers
<1> HIDE DEF r1
<1>5. /\ r2 \in [Keys -> Proposal]
      /\ r2[q].exists = FALSE /\ r2[q].trx = proposals[q].trx
      /\ r2[q].earliest_exec_time = 0
      /\ \A k \in Keys \ {q} : r2[k] = proposals[k]
  BY <1>3, <1>4 DEF Proposal
<1> HIDE DEF r2
<1> QED BY <1>1, <1>2, <1>5 DEF OtherRows

-----------------------------------------------------------------------------
(* Every step treats one proposal, or none, in one of these ways.          *)

Opens(q) ==
    /\ ~proposals[q].exists
    /\ approvals'[q].exists = TRUE /\ approvals'[q].provided = <<>>
    /\ approvals'[q].requested \in [Levels -> 0..Copies]
    /\ proposals'[q].exists = TRUE /\ proposals'[q].earliest_exec_time = 0
    /\ UNCHANGED <<approved, valid>>

Signs(q, a) ==
    /\ a \in Approval /\ a.time = now /\ a.hash \in {NoHash, proposals[q].trx}
    /\ proposals[q].exists
    /\ approvals'[q].exists = approvals[q].exists
    /\ approvals[q].requested[a.level] > 0
    /\ approvals'[q].requested = [approvals[q].requested EXCEPT ![a.level] = @ - 1]
    /\ approvals'[q].provided = Append(approvals[q].provided, a)
    /\ proposals'[q].exists = proposals[q].exists
    /\ proposals'[q].trx = proposals[q].trx
    /\ proposals'[q].earliest_exec_time =
          IF proposals[q].earliest_exec_time = 0
               /\ trx_is_authorized(q, approvals'[q].provided)
          THEN now + 2 * DelaySec[proposals[q].trx]
          ELSE proposals[q].earliest_exec_time
    /\ approved' = [approved EXCEPT ![q][a.level] = @ + 1]
    /\ valid' = valid \cup {<<q, a.level>>}

Revokes(q, k) ==
    LET l == approvals[q].provided[k].level
    IN  /\ k \in 1..Len(approvals[q].provided) /\ l \in Levels
        /\ proposals[q].exists
        /\ approvals'[q].exists = approvals[q].exists
        /\ approvals'[q].requested = [approvals[q].requested EXCEPT ![l] = @ + 1]
        /\ approvals'[q].provided = RemoveAt(approvals[q].provided, k)
        /\ proposals'[q].exists = proposals[q].exists
        /\ proposals'[q].trx = proposals[q].trx
        /\ proposals'[q].earliest_exec_time =
              IF trx_is_authorized(q, approvals'[q].provided)
              THEN proposals[q].earliest_exec_time ELSE 0
        /\ approved' = [approved EXCEPT ![q][l] = @ - 1]
        /\ valid' = valid

Erases(q) ==
    /\ approvals'[q] = NoApprovals
    /\ proposals'[q].exists = FALSE /\ proposals'[q].earliest_exec_time = 0
    /\ Forget(q)

OneProposal(q) ==
    /\ OtherRows(q)
    /\ UNCHANGED <<now, authority, invals>>
    /\ sent' = sent \/ Erases(q)
    /\ \/ Opens(q)
       \/ \E a : Signs(q, a)
       \/ \E k : Revokes(q, k)
       \/ Erases(q)

(* invalidate, changeauth and Tick leave the rows alone.                   *)
NoProposal ==
    /\ UNCHANGED <<proposals, approvals, sent>>
    /\ \/ \E a \in Actors : /\ invals' = [invals EXCEPT ![a] = now]
                            /\ valid' = {s \in valid : ActorOf[s[2]] # a}
                            /\ UNCHANGED <<now, authority, approved>>
       \/ authority' \in Authorities /\ UNCHANGED <<now, invals, approved, valid>>
       \/ now' = now + 1 /\ UNCHANGED <<authority, invals, approved, valid>>

LEMMA CountTypes ==
    ASSUME NEW f \in [Keys -> [Levels -> Int]], NEW q \in Keys, NEW l \in Levels
    PROVE  /\ [f EXCEPT ![q][l] = @ + 1] \in [Keys -> [Levels -> Int]]
           /\ [f EXCEPT ![q][l] = @ - 1] \in [Keys -> [Levels -> Int]]
<1>1. f[q] \in [Levels -> Int] /\ f[q][l] \in Int
  OBVIOUS
<1>2. /\ [f[q] EXCEPT ![l] = @ + 1] \in [Levels -> Int]
      /\ [f[q] EXCEPT ![l] = @ - 1] \in [Levels -> Int]
  BY <1>1
<1> QED BY <1>1, <1>2

LEMMA Forgotten ==
    ASSUME Shape, NEW q \in Keys, Forget(q)
    PROVE  /\ approved' \in [Keys -> [Levels -> Int]]
           /\ \A l \in Levels : approved'[q][l] = 0
           /\ \A k \in Keys \ {q} : approved'[k] = approved[k]
           /\ valid' \subseteq Keys \X Levels
<1>1. [l \in Levels |-> 0] \in [Levels -> Int]
  OBVIOUS
<1> QED BY <1>1 DEF Shape, Forget

LEMMA StepKinds ==
    ASSUME Shape, Next
    PROVE  /\ approvals' \in [Keys -> ApprovalRow]
           /\ proposals' \in [Keys -> Proposal]
           /\ History
           /\ NoProposal \/ \E q \in Keys : OneProposal(q)
           /\ Shape'
<1> DEFINE Rows == /\ approvals' \in [Keys -> ApprovalRow]
                   /\ proposals' \in [Keys -> Proposal]
           Rest == /\ now' \in 1..MaxTime /\ authority' \in Authorities
                   /\ invals' \in [Actors -> 0..MaxTime]
                   /\ sent' \in Seq(Trxs)
                   /\ approved' \in [Keys -> [Levels -> Int]]
                   /\ valid' \subseteq Keys \X Levels
           Kind == NoProposal \/ \E q \in Keys : OneProposal(q)
<1>0. /\ now \in 1..MaxTime /\ authority \in Authorities
      /\ invals \in [Actors -> 0..MaxTime]
      /\ sent \in Seq(Trxs)
      /\ approved \in [Keys -> [Levels -> Int]]
      /\ valid \subseteq Keys \X Levels
      /\ approvals \in [Keys -> ApprovalRow] /\ proposals \in [Keys -> Proposal]
  BY DEF Shape
<1>1. ASSUME NEW q \in Keys, NEW r \in Requests, NEW t \in Trxs,
             propose(q, r, t)
      PROVE  Rows /\ Rest /\ Kind
  <2>0. r \in [Levels -> 0..Copies]
    BY Numbers
  <2>1. UNCHANGED <<now, authority, invals, sent, approved, valid>>
    BY <1>1 DEF propose
  <2>2. Rows /\ OtherRows(q) /\ Opens(q)
    <3>1. ~proposals[q].exists
      BY <1>1 DEF propose
    <3> QED BY <1>1, <2>0, <2>1, <3>1, ProposeRows DEF Opens
  <2> QED BY <1>0, <2>1, <2>2 DEF OneProposal
<1>2. ASSUME NEW q \in Keys, NEW l \in Levels, NEW h \in Hashes, approve(q, l, h)
      PROVE  Rows /\ Rest /\ Kind
  <2> DEFINE a == [ level |-> l, time |-> now, hash |-> h ]
  <2>1. /\ UNCHANGED <<now, authority, invals, sent>>
        /\ approved' = [approved EXCEPT ![q][l] = @ + 1]
        /\ valid' = valid \cup {<<q, l>>}
        /\ proposals[q].exists /\ approvals[q].requested[l] > 0
        /\ HashMatches(q, h)
    BY <1>2 DEF approve
  <2>2. a.level = l /\ a.time = now /\ a.hash = h
    OBVIOUS
  <2>3. h \in {NoHash, proposals[q].trx}
    BY <2>1 DEF HashMatches
  <2>4. /\ a \in Approval /\ Rows /\ OtherRows(q)
        /\ approvals'[q].exists = approvals[q].exists
        /\ approvals'[q].requested = [approvals[q].requested EXCEPT ![l] = @ - 1]
        /\ approvals'[q].provided = Append(approvals[q].provided, a)
        /\ proposals'[q].exists = proposals[q].exists
        /\ proposals'[q].trx = proposals[q].trx
        /\ proposals'[q].earliest_exec_time =
              IF proposals[q].earliest_exec_time = 0
                   /\ trx_is_authorized(q, approvals'[q].provided)
              THEN now + 2 * DelaySec[proposals[q].trx]
              ELSE proposals[q].earliest_exec_time
    BY <1>2, ApproveRows
  <2> HIDE DEF a
  <2>5. Signs(q, a)
    BY <2>1, <2>2, <2>3, <2>4 DEF Signs
  <2>6. Kind
    BY <2>1, <2>4, <2>5 DEF OneProposal
  <2>7. approved' \in [Keys -> [Levels -> Int]]
    BY <1>0, <2>1, CountTypes
  <2>8. valid' \subseteq Keys \X Levels
    BY <1>0, <2>1
  <2> QED BY <1>0, <2>1, <2>4, <2>6, <2>7, <2>8
<1>3. ASSUME NEW q \in Keys, NEW l \in Levels, unapprove(q, l)
      PROVE  Rows /\ Rest /\ Kind
  <2>1. /\ UNCHANGED <<now, authority, invals, sent>>
        /\ approved' = [approved EXCEPT ![q][l] = @ - 1]
        /\ valid' = valid /\ proposals[q].exists
    BY <1>3 DEF unapprove
  <2>2. Rows /\ OtherRows(q)
    BY <1>3, UnapproveRows
  <2>3. PICK k \in 1..Len(approvals[q].provided) :
           /\ approvals[q].provided[k].level = l
           /\ approvals'[q].provided = RemoveAt(approvals[q].provided, k)
    BY <1>3, UnapproveRows
  <2>4. /\ approvals'[q].exists = approvals[q].exists
        /\ approvals'[q].requested = [approvals[q].requested EXCEPT ![l] = @ + 1]
        /\ proposals'[q].exists = proposals[q].exists
        /\ proposals'[q].trx = proposals[q].trx
        /\ proposals'[q].earliest_exec_time =
             IF trx_is_authorized(q, approvals'[q].provided)
             THEN proposals[q].earliest_exec_time ELSE 0
    BY <1>3, UnapproveRows
  <2>5. Revokes(q, k)
    BY <2>1, <2>3, <2>4 DEF Revokes
  <2>6. Kind
    BY <2>1, <2>2, <2>5 DEF OneProposal
  <2>7. approved' \in [Keys -> [Levels -> Int]]
    BY <1>0, <2>1, CountTypes
  <2> QED BY <1>0, <2>1, <2>2, <2>6, <2>7
<1>4. ASSUME NEW q \in Keys, NEW c, cancel(q, c)
      PROVE  Rows /\ Rest /\ Kind
  <2>1. /\ UNCHANGED <<now, authority, invals, sent>>
        /\ Forget(q) /\ Ends(q)
    BY <1>4 DEF cancel, Ends
  <2>2. Rows /\ OtherRows(q) /\ Erases(q)
    BY <2>1, EndsRows DEF Erases
  <2> QED BY <1>0, <2>1, <2>2, Forgotten DEF OneProposal
<1>5. ASSUME NEW q \in Keys, exec(q)
      PROVE  Rows /\ Rest /\ Kind
  <2>1. /\ UNCHANGED <<now, authority, invals>>
        /\ Forget(q) /\ Ends(q)
        /\ sent' = Append(sent, proposals[q].trx)
    BY <1>5 DEF exec, Ends, ApprovalsAfterExec
  <2>2. Rows /\ OtherRows(q) /\ Erases(q)
    BY <2>1, EndsRows DEF Erases
  <2>3. sent' \in Seq(Trxs)
    BY <1>0, <2>1, RowTypes
  <2> QED BY <1>0, <2>1, <2>2, <2>3, Forgotten DEF OneProposal
<1>6. ASSUME NEW c \in Actors, invalidate(c)
      PROVE  Rows /\ Rest /\ Kind
  <2>1. now \in 0..MaxTime
    BY <1>0, Numbers
  <2>2. invals' = [invals EXCEPT ![c] = now]
    BY <1>6 DEF invalidate
  <2>3. invals' \in [Actors -> 0..MaxTime]
    BY <1>0, <2>1, <2>2
  <2>4. NoProposal
    BY <1>6 DEF invalidate, NoProposal
  <2> QED BY <1>0, <1>6, <2>3, <2>4 DEF invalidate
<1>7. ASSUME changeauth PROVE Rows /\ Rest /\ Kind
  BY <1>0, <1>7 DEF changeauth, NoProposal
<1>8. ASSUME Tick PROVE Rows /\ Rest /\ Kind
  <2>1. now' \in 1..MaxTime
    BY <1>0, <1>8, Numbers DEF Tick
  <2> QED BY <1>0, <1>8, <2>1 DEF Tick, NoProposal
<1>9. History
  BY DEF Next
<1> HIDE DEF Rows, Rest, Kind
<1>10. Rows /\ Rest /\ Kind
  BY <1>1, <1>2, <1>3, <1>4, <1>5, <1>6, <1>7, <1>8 DEF Next
<1> QED BY <1>9, <1>10 DEF Rows, Rest, Kind, Shape

(* The number of times l is in the lists of q.                             *)
LEMMA PlacesAre ==
    ASSUME NEW q \in Keys, NEW l \in Levels
    PROVE  Places(q, l) = approvals[q].requested[l]
                            + Cardinality(Given(approvals[q].provided, l))
BY DEF Places, Given

LEMMA PlacesAreNext ==
    \A q \in Keys, l \in Levels :
        Places(q, l)' = approvals'[q].requested[l]
                          + Cardinality(Given(approvals'[q].provided, l))
BY DEF Places, Given

(* What approve and unapprove do to the approvals of a level.              *)
LEMMA SignsGiven ==
    ASSUME Shape, NEW q \in Keys, NEW a, Signs(q, a), NEW l \in Levels
    PROVE  /\ Cardinality(Given(approvals'[q].provided, l))
                = Cardinality(Given(approvals[q].provided, l))
                    + (IF a.level = l THEN 1 ELSE 0)
           /\ a.level \in Levels
<1> DEFINE s == approvals[q].provided
           G == Given(s, l)
<1>1. s \in Seq(Approval)
  BY RowTypes
<1>2. a \in Approval /\ approvals'[q].provided = Append(s, a)
  BY DEF Signs
<1>3. a.level \in Levels
  BY <1>2 DEF Approval
<1>4. IsFiniteSet(G) /\ Cardinality(G) \in Nat
  BY <1>1, GivenFinite
<1>5. Len(s) + 1 \notin G
  BY <1>1 DEF Given
<1>6. Given(Append(s, a), l) = G \cup (IF a.level = l THEN {Len(s) + 1} ELSE {})
  BY <1>1, <1>2, Appended
<1> HIDE DEF s, G
<1>7. CASE a.level = l
  <2>1. Given(Append(s, a), l) = G \cup {Len(s) + 1}
    BY <1>6, <1>7
  <2>2. Cardinality(Given(Append(s, a), l)) = Cardinality(G) + 1
    BY <1>4, <1>5, <2>1, FS_AddElement
  <2> QED BY <1>2, <1>3, <1>7, <2>2 DEF s, G
<1>8. CASE a.level # l
  <2>1. Given(Append(s, a), l) = G
    BY <1>6, <1>8
  <2>2. Cardinality(G) + 0 = Cardinality(G)
    BY <1>4
  <2> QED BY <1>2, <1>3, <1>8, <2>1, <2>2 DEF s, G
<1> QED BY <1>7, <1>8

LEMMA RevokesGiven ==
    ASSUME Shape, NEW q \in Keys, NEW k, Revokes(q, k), NEW l \in Levels
    PROVE  Cardinality(Given(approvals'[q].provided, l))
             = Cardinality(Given(approvals[q].provided, l))
                 - (IF approvals[q].provided[k].level = l THEN 1 ELSE 0)
<1> DEFINE s == approvals[q].provided
           G == Given(s, l)
<1>1. s \in Seq(Approval)
  BY RowTypes
<1>2. k \in 1..Len(s) /\ approvals'[q].provided = RemoveAt(s, k)
  BY DEF Revokes
<1>3. k \in G <=> s[k].level = l
  BY <1>1, <1>2 DEF Given
<1>4. IsFiniteSet(G) /\ Cardinality(G) \in Nat
  BY <1>1, GivenFinite
<1>5. Cardinality(Given(RemoveAt(s, k), l)) = Cardinality(G \ {k})
  BY <1>1, <1>2, RemovedGiven
<1>6. Cardinality(G \ {k}) = IF k \in G THEN Cardinality(G) - 1 ELSE Cardinality(G)
  BY <1>4, FS_RemoveElement
<1> HIDE DEF G
<1>7. Cardinality(Given(RemoveAt(s, k), l))
        = Cardinality(G) - (IF s[k].level = l THEN 1 ELSE 0)
  BY <1>3, <1>4, <1>5, <1>6
<1> QED BY <1>2, <1>7 DEF G

LEMMA SignsPlaces ==
    ASSUME Shape, NEW q \in Keys, NEW a, Signs(q, a), NEW l \in Levels
    PROVE  Places(q, l)' = Places(q, l)
<1> DEFINE r == approvals[q].requested
           n == Cardinality(Given(approvals[q].provided, l))
           m == Cardinality(Given(approvals'[q].provided, l))
<1>1. r \in [Levels -> Nat] /\ n \in Nat
  BY RowTypes, GivenFinite
<1>2. approvals'[q].requested = [r EXCEPT ![a.level] = @ - 1]
  BY DEF Signs
<1>3. m = n + (IF a.level = l THEN 1 ELSE 0) /\ a.level \in Levels
  BY SignsGiven
<1>4. Places(q, l) = r[l] + n /\ Places(q, l)' = approvals'[q].requested[l] + m
  BY PlacesAre, PlacesAreNext
<1> HIDE DEF r, n, m
<1>5. approvals'[q].requested[l] = r[l] - (IF a.level = l THEN 1 ELSE 0) /\ r[l] \in Nat
  BY <1>1, <1>2, <1>3
<1> QED BY <1>1, <1>3, <1>4, <1>5

LEMMA RevokesPlaces ==
    ASSUME Shape, NEW q \in Keys, NEW k, Revokes(q, k), NEW l \in Levels
    PROVE  Places(q, l)' = Places(q, l)
<1> DEFINE r == approvals[q].requested
           lk == approvals[q].provided[k].level
           n == Cardinality(Given(approvals[q].provided, l))
           m == Cardinality(Given(approvals'[q].provided, l))
<1>1. r \in [Levels -> Nat] /\ n \in Nat
  BY RowTypes, GivenFinite
<1>2. approvals'[q].requested = [r EXCEPT ![lk] = @ + 1] /\ lk \in Levels
  BY DEF Revokes
<1>3. m = n - (IF lk = l THEN 1 ELSE 0)
  BY RevokesGiven
<1>4. Places(q, l) = r[l] + n /\ Places(q, l)' = approvals'[q].requested[l] + m
  BY PlacesAre, PlacesAreNext
<1> HIDE DEF r, lk, n, m
<1>5. approvals'[q].requested[l] = r[l] + (IF lk = l THEN 1 ELSE 0) /\ r[l] \in Nat
  BY <1>1, <1>2
<1> QED BY <1>1, <1>3, <1>4, <1>5

-----------------------------------------------------------------------------
(* Authorization after a step, and with more approvals.                    *)

LEMMA AuthorizedNext ==
    ASSUME NEW q \in Keys, UNCHANGED <<authority, invals>>,
           proposals'[q].trx = proposals[q].trx
    PROVE  Authorized(q)' <=> /\ proposals'[q].exists
                              /\ trx_is_authorized(q, approvals'[q].provided)
BY DEF Authorized, trx_is_authorized, check_transaction_authorization,
       get_approvals, CountsNow

LEMMA SameAuthorized ==
    ASSUME NEW q \in Keys, UNCHANGED <<authority, invals>>,
           proposals'[q] = proposals[q], approvals'[q] = approvals[q]
    PROVE  Authorized(q)' <=> Authorized(q)
BY DEF Authorized, trx_is_authorized, check_transaction_authorization,
       get_approvals, CountsNow

LEMMA MoreApprovals ==
    ASSUME NEW q, NEW s, NEW t, Range(s) \subseteq Range(t), trx_is_authorized(q, s)
    PROVE  trx_is_authorized(q, t)
<1>1. get_approvals(s) \subseteq get_approvals(t)
  BY DEF get_approvals
<1> QED BY <1>1 DEF trx_is_authorized, check_transaction_authorization

(* The approvals a step leaves in the list of q.                           *)
LEMMA Lists ==
    ASSUME Shape, NEW q \in Keys, OneProposal(q)
    PROVE  \/ Range(approvals'[q].provided) \subseteq Range(approvals[q].provided)
           \/ \E a : /\ Signs(q, a)
                     /\ Range(approvals'[q].provided)
                           = Range(approvals[q].provided) \cup {a}
<1>0. approvals[q].provided \in Seq(Approval)
  BY RowTypes
<1>1. CASE Opens(q)
  BY <1>1, NoApprovalsType DEF Opens
<1>2. ASSUME NEW a, Signs(q, a)
      PROVE  Range(approvals'[q].provided) = Range(approvals[q].provided) \cup {a}
  <2>1. a \in Approval /\ approvals'[q].provided = Append(approvals[q].provided, a)
    BY <1>2 DEF Signs
  <2> QED BY <1>0, <2>1, Appended
<1>3. ASSUME NEW k, Revokes(q, k)
      PROVE  Range(approvals'[q].provided) \subseteq Range(approvals[q].provided)
  <2>1. /\ k \in 1..Len(approvals[q].provided)
        /\ approvals'[q].provided = RemoveAt(approvals[q].provided, k)
    BY <1>3 DEF Revokes
  <2> QED BY <1>0, <2>1, RemovedGiven
<1>4. CASE Erases(q)
  BY <1>4, NoApprovalsType DEF Erases
<1> QED BY <1>1, <1>2, <1>3, <1>4 DEF OneProposal

(* Rows a step does not treat.                                             *)
LEMMA Untouched ==
    ASSUME NEW k \in Keys,
           NoProposal \/ \E q \in Keys \ {k} : OneProposal(q)
    PROVE  approvals'[k] = approvals[k] /\ proposals'[k] = proposals[k]
BY DEF NoProposal, OneProposal, OtherRows

LEMMA RowsStep ==
    ASSUME Ind, Next
    PROVE  RowsInv'
<1>0. Shape /\ RowsInv
  BY DEF Ind
<1> SUFFICES ASSUME NEW k \in Keys
             PROVE  /\ proposals'[k].exists = approvals'[k].exists
                    /\ ~proposals'[k].exists =>
                          /\ approvals'[k] = NoApprovals
                          /\ proposals'[k].earliest_exec_time = 0
  BY DEF RowsInv
<1>1. ASSUME NoProposal \/ \E q \in Keys \ {k} : OneProposal(q)
      PROVE  approvals'[k] = approvals[k] /\ proposals'[k] = proposals[k]
  BY <1>1, Untouched
<1>2. CASE OneProposal(k)
  <2>1. CASE Opens(k)
    BY <2>1 DEF Opens
  <2>2. CASE \E a : Signs(k, a)
    BY <1>0, <2>2 DEF Signs, RowsInv
  <2>3. CASE \E j : Revokes(k, j)
    BY <1>0, <2>3 DEF Revokes, RowsInv
  <2>4. CASE Erases(k)
    BY <2>4, NoApprovalsType DEF Erases
  <2> QED BY <1>2, <2>1, <2>2, <2>3, <2>4 DEF OneProposal
<1>3. CASE NoProposal \/ \E q \in Keys \ {k} : OneProposal(q)
  BY <1>0, <1>1, <1>3 DEF RowsInv
<1> QED BY <1>0, <1>2, <1>3, StepKinds

LEMMA PlacesStep ==
    ASSUME Ind, Next
    PROVE  PlacesInv'
<1>0. Shape /\ PlacesInv
  BY DEF Ind
<1>e. ASSUME NEW k \in Keys, NEW l \in Levels, approvals'[k].provided = <<>>
      PROVE  Places(k, l)' = approvals'[k].requested[l] + 0
  <2>1. Given(<<>>, l) = {}
    BY DEF Given
  <2>2. Cardinality(Given(approvals'[k].provided, l)) = 0
    BY <1>e, <2>1, FS_EmptySet
  <2> QED BY <2>2, PlacesAreNext
<1> SUFFICES ASSUME NEW k \in Keys, NEW l \in Levels
             PROVE  Places(k, l)' <= Copies
  BY DEF PlacesInv
<1>1. Places(k, l) <= Copies
  BY <1>0 DEF PlacesInv
<1>2. CASE OneProposal(k)
  <2>1. CASE Opens(k)
    <3>1. Places(k, l)' = approvals'[k].requested[l] + 0
      BY <1>e, <2>1 DEF Opens
    <3>2. approvals'[k].requested[l] \in 0..Copies
      BY <2>1 DEF Opens
    <3> QED BY <3>1, <3>2, Numbers
  <2>2. CASE \E a : Signs(k, a)
    BY <1>0, <1>1, <2>2, SignsPlaces
  <2>3. CASE \E j : Revokes(k, j)
    BY <1>0, <1>1, <2>3, RevokesPlaces
  <2>4. CASE Erases(k)
    <3>1. Places(k, l)' = 0 + 0
      <4>1. approvals'[k].provided = <<>> /\ approvals'[k].requested[l] = 0
        BY <2>4, NoApprovalsType DEF Erases
      <4> QED BY <1>e, <4>1
    <3> QED BY <3>1, Numbers
  <2> QED BY <1>2, <2>1, <2>2, <2>3, <2>4 DEF OneProposal
<1>3. CASE NoProposal \/ \E q \in Keys \ {k} : OneProposal(q)
  <2>1. approvals'[k] = approvals[k]
    BY <1>3, Untouched
  <2>2. Places(k, l)' = Places(k, l)
    BY <2>1, PlacesAre, PlacesAreNext
  <2> QED BY <1>1, <2>2
<1> QED BY <1>0, <1>2, <1>3, StepKinds

LEMMA HashStep ==
    ASSUME Ind, Next
    PROVE  HashInv'
<1>0. Shape /\ HashInv /\ RowsInv
  BY DEF Ind
<1> SUFFICES ASSUME NEW k \in Keys, NEW a \in Range(approvals'[k].provided)
             PROVE  a.hash \in {NoHash, proposals'[k].trx}
  BY DEF HashInv
<1>2. CASE OneProposal(k)
  <2>1. CASE Opens(k)
    BY <2>1, NoApprovalsType DEF Opens
  <2>2. ASSUME NEW b, Signs(k, b) PROVE a.hash \in {NoHash, proposals'[k].trx}
    <3>1. /\ proposals'[k].trx = proposals[k].trx /\ b.hash \in {NoHash, proposals[k].trx}
          /\ b \in Approval /\ approvals'[k].provided = Append(approvals[k].provided, b)
      BY <2>2 DEF Signs
    <3>2. Range(approvals'[k].provided) = Range(approvals[k].provided) \cup {b}
      BY <1>0, <3>1, RowTypes, Appended
    <3> QED BY <1>0, <3>1, <3>2 DEF HashInv
  <2>3. ASSUME NEW j, Revokes(k, j) PROVE a.hash \in {NoHash, proposals'[k].trx}
    <3>1. /\ proposals'[k].trx = proposals[k].trx
          /\ j \in 1..Len(approvals[k].provided)
          /\ approvals'[k].provided = RemoveAt(approvals[k].provided, j)
      BY <2>3 DEF Revokes
    <3>2. Range(approvals'[k].provided) \subseteq Range(approvals[k].provided)
      BY <1>0, <3>1, RowTypes, RemovedGiven
    <3> QED BY <1>0, <3>1, <3>2 DEF HashInv
  <2>4. CASE Erases(k)
    BY <2>4, NoApprovalsType DEF Erases
  <2> QED BY <1>2, <2>1, <2>2, <2>3, <2>4 DEF OneProposal
<1>3. CASE NoProposal \/ \E q \in Keys \ {k} : OneProposal(q)
  <2>1. approvals'[k] = approvals[k] /\ proposals'[k] = proposals[k]
    BY <1>3, Untouched
  <2> QED BY <1>0, <2>1 DEF HashInv
<1> QED BY <1>0, <1>2, <1>3, StepKinds

LEMMA TimesStep ==
    ASSUME Ind, Next
    PROVE  TimesInv'
<1>0. Shape /\ TimesInv /\ Shape' /\ now \in Nat /\ now' \in Nat
  BY StepKinds, Numbers DEF Ind, Shape
<1>1. now <= now'
  BY <1>0, StepKinds DEF NoProposal, OneProposal
<1> SUFFICES ASSUME NEW k \in Keys, NEW a \in Range(approvals'[k].provided)
             PROVE  a.time <= now'
  BY DEF TimesInv
<1>2. ASSUME a \in Range(approvals[k].provided) PROVE a.time <= now'
  <2>1. approvals[k].provided \in Seq(Approval)
    BY <1>0, RowTypes
  <2>2. a \in Approval
    BY <1>2, <2>1, ListFacts
  <2>3. a.time \in Nat
    BY <2>2, Numbers DEF Approval
  <2>4. a.time <= now
    BY <1>0, <1>2 DEF TimesInv
  <2> QED BY <1>0, <1>1, <2>3, <2>4
<1>3. ASSUME NEW b, Signs(k, b) PROVE b.time <= now'
  BY <1>0, <1>1, <1>3 DEF Signs
<1>4. CASE OneProposal(k)
  BY <1>0, <1>2, <1>3, <1>4, Lists
<1>5. CASE NoProposal \/ \E q \in Keys \ {k} : OneProposal(q)
  BY <1>2, <1>5, Untouched
<1> QED BY <1>0, <1>4, <1>5, StepKinds

LEMMA CountStep ==
    ASSUME Ind, Next
    PROVE  CountInv'
<1>0. Shape /\ CountInv /\ RowsInv /\ approved \in [Keys -> [Levels -> Int]]
  BY DEF Ind, Shape
<1>e. ASSUME NEW l PROVE Cardinality(Given(<<>>, l)) = 0
  <2>1. Given(<<>>, l) = {}
    BY DEF Given
  <2> QED BY <2>1, FS_EmptySet
<1> SUFFICES ASSUME NEW k \in Keys, NEW l \in Levels
             PROVE  approved'[k][l] = Cardinality(Given(approvals'[k].provided, l))
  BY DEF CountInv, Given
<1> DEFINE n == Cardinality(Given(approvals[k].provided, l))
<1>1. approved[k][l] = n /\ n \in Nat
  BY <1>0, RowTypes, GivenFinite DEF CountInv
<1>2. CASE OneProposal(k)
  <2>1. CASE Opens(k)
    <3>1. approvals[k].provided = <<>>
      BY <1>0, <2>1, NoApprovalsType DEF Opens, RowsInv
    <3> QED BY <1>1, <2>1, <3>1 DEF Opens
  <2>2. ASSUME NEW a, Signs(k, a)
        PROVE  approved'[k][l] = Cardinality(Given(approvals'[k].provided, l))
    <3>1. /\ a.level \in Levels
          /\ Cardinality(Given(approvals'[k].provided, l))
               = n + (IF a.level = l THEN 1 ELSE 0)
      BY <1>0, <2>2, SignsGiven
    <3>2. approved' = [approved EXCEPT ![k][a.level] = @ + 1]
      BY <2>2 DEF Signs
    <3> HIDE DEF n
    <3>3. approved'[k][l] = approved[k][l] + (IF a.level = l THEN 1 ELSE 0)
      BY <1>0, <1>1, <3>1, <3>2
    <3> QED BY <1>1, <3>1, <3>3
  <2>3. ASSUME NEW j, Revokes(k, j)
        PROVE  approved'[k][l] = Cardinality(Given(approvals'[k].provided, l))
    <3> DEFINE lj == approvals[k].provided[j].level
    <3>1. /\ lj \in Levels
          /\ approved' = [approved EXCEPT ![k][lj] = @ - 1]
      BY <2>3 DEF Revokes
    <3>2. Cardinality(Given(approvals'[k].provided, l))
            = n - (IF lj = l THEN 1 ELSE 0)
      BY <1>0, <2>3, RevokesGiven
    <3> HIDE DEF n, lj
    <3>3. approved'[k][l] = approved[k][l] - (IF lj = l THEN 1 ELSE 0)
      BY <1>0, <1>1, <3>1
    <3> QED BY <1>1, <3>2, <3>3
  <2>4. CASE Erases(k)
    <3>1. approvals'[k].provided = <<>> /\ approved'[k][l] = 0
      BY <1>0, <2>4, NoApprovalsType, Forgotten DEF Erases
    <3> QED BY <1>e, <3>1
  <2> QED BY <1>2, <2>1, <2>2, <2>3, <2>4 DEF OneProposal
<1>3. CASE NoProposal \/ \E q \in Keys \ {k} : OneProposal(q)
  <2>1. approvals'[k] = approvals[k]
    BY <1>3, Untouched
  <2>2. approved'[k] = approved[k]
    <3>1. ASSUME NEW q \in Keys \ {k}, OneProposal(q) PROVE approved'[k] = approved[k]
      <4>1. CASE Opens(q)
        BY <4>1 DEF Opens
      <4>2. CASE \E a : Signs(q, a)
        BY <1>0, <4>2 DEF Signs
      <4>3. CASE \E j : Revokes(q, j)
        BY <1>0, <4>3 DEF Revokes
      <4>4. CASE Erases(q)
        BY <1>0, <4>4, Forgotten DEF Erases
      <4> QED BY <3>1, <4>1, <4>2, <4>3, <4>4 DEF OneProposal
    <3> QED BY <1>3, <3>1 DEF NoProposal
  <2> QED BY <1>1, <2>1, <2>2
<1> QED BY <1>0, <1>2, <1>3, StepKinds

LEMMA ValidStep ==
    ASSUME Ind, Next
    PROVE  ValidInv'
<1>0. Shape /\ ValidInv /\ TimesInv
  BY DEF Ind
<1>1. ASSUME NEW k \in Keys, NEW a \in Range(approvals[k].provided)
      PROVE  /\ a \in Approval /\ a.level \in Levels /\ a.time \in Nat
             /\ CountsNow(a) => <<k, a.level>> \in valid
  <2>1. approvals[k].provided \in Seq(Approval)
    BY <1>0, RowTypes
  <2>2. a \in Approval
    BY <1>1, <2>1, ListFacts
  <2>3. a.level \in Levels /\ a.time \in Nat
    BY <2>2, Numbers DEF Approval
  <2> QED BY <1>0, <1>1, <2>2, <2>3 DEF ValidInv
<1> SUFFICES ASSUME NEW k \in Keys, NEW a \in Range(approvals'[k].provided),
                    invals'[ActorOf[a.level]] < a.time
             PROVE  <<k, a.level>> \in valid'
  BY DEF ValidInv, CountsNow
<1>2. CASE NoProposal
  <2>1. a \in Range(approvals[k].provided)
    BY <1>2 DEF NoProposal
  <2>2. ASSUME invals' = invals PROVE <<k, a.level>> \in valid
    BY <1>1, <2>1, <2>2 DEF CountsNow
  <2>3. ASSUME NEW c \in Actors, invals' = [invals EXCEPT ![c] = now],
               valid' = {s \in valid : ActorOf[s[2]] # c}
        PROVE  <<k, a.level>> \in valid'
    <3>1. a.level \in Levels /\ a.time \in Nat /\ a.time <= now
      BY <1>0, <1>1, <2>1 DEF TimesInv
    <3>2. ActorOf[a.level] \in Actors /\ now \in Nat /\ invals \in [Actors -> 0..MaxTime]
      BY <1>0, <3>1, MsigAssumption DEF Shape
    <3>3. ActorOf[a.level] # c
      BY <2>3, <3>1, <3>2
    <3>4. invals'[ActorOf[a.level]] = invals[ActorOf[a.level]]
      BY <2>3, <3>2, <3>3
    <3>5. <<k, a.level>> \in valid
      BY <1>1, <2>1, <3>4 DEF CountsNow
    <3>6. <<k, a.level>>[2] = a.level
      OBVIOUS
    <3> QED BY <2>3, <3>3, <3>5, <3>6
  <2> QED BY <1>2, <2>2, <2>3 DEF NoProposal
<1>3. ASSUME NEW q \in Keys, OneProposal(q)
      PROVE  <<k, a.level>> \in valid'
  <2>1. ASSUME a \in Range(approvals[k].provided) PROVE <<k, a.level>> \in valid
    <3>1. invals' = invals
      BY <1>3 DEF OneProposal
    <3> QED BY <1>1, <2>1, <3>1 DEF CountsNow
  <2>2. ASSUME ~Erases(q), a \in Range(approvals[k].provided)
        PROVE  <<k, a.level>> \in valid'
    BY <1>3, <2>1, <2>2 DEF OneProposal, Opens, Signs, Revokes
  <2>3. CASE k # q
    <3>1. a \in Range(approvals[k].provided)
      BY <1>3, <2>3 DEF OneProposal, OtherRows
    <3>2. CASE Erases(q)
      <4>1. valid' = {s \in valid : s[1] # q}
        BY <3>2 DEF Erases, Forget
      <4>2. <<k, a.level>>[1] = k
        OBVIOUS
      <4> QED BY <2>1, <2>3, <3>1, <4>1, <4>2
    <3> QED BY <2>2, <3>1, <3>2
  <2>4. CASE k = q
    <3>1. ~Erases(q)
      BY <2>4, NoApprovalsType DEF Erases
    <3>2. ASSUME NEW b, Signs(q, b), a = b PROVE <<k, a.level>> \in valid'
      BY <2>4, <3>2 DEF Signs
    <3> QED BY <1>0, <1>3, <2>2, <2>4, <3>1, <3>2, Lists
  <2> QED BY <2>3, <2>4
<1> QED BY <1>0, <1>2, <1>3, StepKinds

LEMMA ClockStep ==
    ASSUME Ind, Next
    PROVE  ClockInv'
<1>0. Shape /\ ClockInv /\ Shape' /\ History
  BY StepKinds DEF Ind
<1>1. now \in Nat /\ now' \in Nat /\ now' >= 1 /\ now <= now'
  <2>1. now \in Nat /\ now' \in Nat /\ now' >= 1
    BY <1>0, Numbers DEF Shape
  <2> QED BY <1>0, <2>1, StepKinds DEF NoProposal, OneProposal
<1> SUFFICES ASSUME NEW k \in Keys
             PROVE  /\ since'[k] \in 0..now'
                    /\ since'[k] = 0 <=> ~Authorized(k)'
                    /\ proposals'[k].earliest_exec_time # 0 /\ k \notin lost' =>
                         /\ Authorized(k)'
                         /\ since'[k] + 2 * DelaySec[proposals'[k].trx]
                              <= proposals'[k].earliest_exec_time
  BY DEF ClockInv
<1> DEFINE D == DelaySec[proposals[k].trx]
           e == proposals[k].earliest_exec_time
           e1 == proposals'[k].earliest_exec_time
<1>2. /\ since[k] \in 0..now
      /\ since[k] = 0 <=> ~Authorized(k)
      /\ e # 0 /\ k \notin lost => Authorized(k) /\ since[k] + 2 * D <= e
  BY <1>0 DEF ClockInv
<1>3. since'[k] = IF ~Authorized(k)' THEN 0
                  ELSE IF since[k] = 0 THEN now' ELSE since[k]
  BY <1>0 DEF History
<1>4. since'[k] \in 0..now' /\ (since'[k] = 0 <=> ~Authorized(k)')
  <2>1. since[k] \in Nat /\ since[k] <= now
    BY <1>1, <1>2
  <2>2. since'[k] \in Nat /\ since'[k] <= now'
    BY <1>1, <1>3, <2>1
  <2>3. since'[k] \in 0..now'
    BY <1>1, <2>2
  <2>4. CASE Authorized(k)'
    BY <1>1, <1>3, <2>1, <2>3, <2>4
  <2>5. CASE ~Authorized(k)'
    BY <1>3, <2>3, <2>5
  <2> QED BY <2>3, <2>4, <2>5
<1>5. ASSUME e1 # 0, k \notin lost'
      PROVE  /\ Authorized(k)'
             /\ since'[k] + 2 * DelaySec[proposals'[k].trx] <= e1
  <2>0. D \in Nat /\ e \in Nat
    BY <1>0, RowTypes
  <2>1. k \notin lost /\ (Authorized(k)' \/ (invals' = invals /\ authority' = authority))
    <3> DEFINE A == Authorized(k)'
    <3>1. k \in lost' <=> /\ e1 # 0
                          /\ k \in lost \/ (~A /\ (invals' # invals \/ authority' # authority))
      BY <1>0, Zenon DEF History
    <3> HIDE DEF A
    <3>2. k \notin lost /\ (A \/ (invals' = invals /\ authority' = authority))
      BY <1>5, <3>1, Zenon
    <3> QED BY <3>2 DEF A
  <2>2. ASSUME Authorized(k)', Authorized(k) PROVE since'[k] = since[k]
    BY <1>2, <1>3, <2>2
  <2>3. CASE NoProposal \/ \E q \in Keys \ {k} : OneProposal(q)
    <3>1. approvals'[k] = approvals[k] /\ proposals'[k] = proposals[k]
      BY <2>3, Untouched
    <3>2. Authorized(k) /\ since[k] + 2 * D <= e
      BY <1>2, <1>5, <2>1, <3>1
    <3>3. Authorized(k)'
      BY <2>1, <3>1, <3>2, SameAuthorized
    <3> QED BY <2>2, <3>1, <3>2, <3>3
  <2>4. CASE OneProposal(k)
    <3>0. UNCHANGED <<now, authority, invals>>
      BY <2>4 DEF OneProposal
    <3>1. ASSUME NEW a, Signs(k, a)
          PROVE  /\ Authorized(k)'
                 /\ since'[k] + 2 * DelaySec[proposals'[k].trx] <= e1
      <4>1. /\ proposals[k].exists /\ proposals'[k].exists = proposals[k].exists
            /\ proposals'[k].trx = proposals[k].trx
            /\ a \in Approval /\ approvals'[k].provided = Append(approvals[k].provided, a)
            /\ e1 = IF e = 0 /\ trx_is_authorized(k, approvals'[k].provided)
                    THEN now + 2 * D ELSE e
        BY <3>1 DEF Signs
      <4>2. Authorized(k)' <=> trx_is_authorized(k, approvals'[k].provided)
        BY <3>0, <4>1, AuthorizedNext
      <4>3. CASE e = 0
        <5>1. trx_is_authorized(k, approvals'[k].provided) /\ e1 = now + 2 * D
          BY <1>5, <4>1, <4>3
        <5>2. since'[k] \in Nat /\ since'[k] <= now
          BY <1>1, <1>4, <3>0
        <5> HIDE DEF D, e1
        <5>3. since'[k] + 2 * D <= e1
          BY <1>1, <2>0, <5>1, <5>2
        <5> QED BY <4>1, <4>2, <5>1, <5>3 DEF D
      <4>4. CASE e # 0
        <5>1. Authorized(k) /\ since[k] + 2 * D <= e /\ e1 = e
          BY <1>2, <2>1, <4>1, <4>4
        <5>2. Range(approvals[k].provided) \subseteq Range(approvals'[k].provided)
          BY <1>0, <4>1, RowTypes, Appended
        <5>3. trx_is_authorized(k, approvals'[k].provided)
          BY <5>1, <5>2, MoreApprovals DEF Authorized
        <5> QED BY <2>2, <4>1, <4>2, <5>1, <5>3
      <4> QED BY <4>3, <4>4
    <3>2. ASSUME NEW j, Revokes(k, j)
          PROVE  /\ Authorized(k)'
                 /\ since'[k] + 2 * DelaySec[proposals'[k].trx] <= e1
      <4>1. /\ proposals[k].exists /\ proposals'[k].exists = proposals[k].exists
            /\ proposals'[k].trx = proposals[k].trx
            /\ e1 = IF trx_is_authorized(k, approvals'[k].provided) THEN e ELSE 0
        BY <3>2 DEF Revokes
      <4>2. trx_is_authorized(k, approvals'[k].provided) /\ e1 = e
        BY <1>5, <4>1
      <4>3. Authorized(k)'
        BY <3>0, <4>1, <4>2, AuthorizedNext
      <4>4. Authorized(k) /\ since[k] + 2 * D <= e
        BY <1>2, <1>5, <2>1, <4>2
      <4> QED BY <2>2, <4>1, <4>2, <4>3, <4>4
    <3>3. ~Opens(k) /\ ~Erases(k)
      BY <1>5 DEF Opens, Erases
    <3> QED BY <2>4, <3>1, <3>2, <3>3 DEF OneProposal
  <2> QED BY <1>0, <2>3, <2>4, StepKinds
<1> QED BY <1>4, <1>5

-----------------------------------------------------------------------------
LEMMA Start ==
    ASSUME Init
    PROVE  Ind
<1>1. /\ proposals \in [Keys -> Proposal]
      /\ \A q \in Keys : proposals[q].exists = FALSE /\ proposals[q].earliest_exec_time = 0
  <2> DEFINE p == [ exists |-> FALSE, trx |-> CHOOSE t \in Trxs : TRUE,
                    earliest_exec_time |-> 0 ]
  <2>1. (CHOOSE t \in Trxs : TRUE) \in Trxs /\ 0 \in 0..MaxTime
    BY MsigAssumption
  <2>2. p \in Proposal /\ p.exists = FALSE /\ p.earliest_exec_time = 0
    BY <2>1 DEF Proposal
  <2>3. proposals \in [Keys -> {p}]
    BY DEF Init
  <2> HIDE DEF p
  <2> QED BY <2>2, <2>3
<1>2. /\ approvals \in [Keys -> ApprovalRow]
      /\ \A q \in Keys : approvals[q] = NoApprovals
  BY NoApprovalsType DEF Init
<1>3. Shape
  <2>1. now \in 1..MaxTime /\ now \in Nat
    BY Numbers DEF Init
  <2>2. invals \in [Actors -> 0..MaxTime]
    <3>1. 0 \in 0..MaxTime
      BY Numbers
    <3> QED BY <3>1 DEF Init
  <2>3. /\ sent \in Seq(Trxs) /\ authority \in Authorities
        /\ approved \in [Keys -> [Levels -> Int]] /\ valid \subseteq Keys \X Levels
    BY DEF Init
  <2> QED BY <1>1, <1>2, <2>1, <2>2, <2>3 DEF Shape
<1>4. \A q \in Keys : Range(approvals[q].provided) = {}
  BY <1>2, NoApprovalsType
<1>5. RowsInv
  <2>1. \A q \in Keys : approvals[q].exists = FALSE
    BY <1>2, NoApprovalsType
  <2> QED BY <1>1, <1>2, <2>1 DEF RowsInv
<1>6. HashInv /\ TimesInv /\ ValidInv
  BY <1>4 DEF HashInv, TimesInv, ValidInv
<1>7. PlacesInv /\ CountInv
  <2> SUFFICES ASSUME NEW q \in Keys, NEW l \in Levels
               PROVE  /\ Places(q, l) <= Copies
                      /\ approved[q][l] = Cardinality(Given(approvals[q].provided, l))
    BY DEF PlacesInv, CountInv
  <2>1. approvals[q].provided = <<>> /\ approvals[q].requested[l] = 0
    BY <1>2, NoApprovalsType
  <2>2. Given(<<>>, l) = {}
    BY DEF Given
  <2>3. Cardinality(Given(approvals[q].provided, l)) = 0
    BY <2>1, <2>2, FS_EmptySet
  <2>4. Places(q, l) = 0 + 0
    BY <2>1, <2>3, PlacesAre
  <2>5. approved[q][l] = 0
    BY DEF Init
  <2> QED BY <2>3, <2>4, <2>5, Numbers
<1>8. ClockInv
  <2>1. \A q \in Keys : ~Authorized(q)
    BY <1>1 DEF Authorized
  <2>2. \A q \in Keys : since[q] = 0 /\ since[q] \in 0..now
    BY DEF Init
  <2> QED BY <1>1, <2>1, <2>2 DEF ClockInv
<1> QED BY <1>3, <1>5, <1>6, <1>7, <1>8 DEF Ind

LEMMA Stutter ==
    ASSUME Ind, UNCHANGED vars
    PROVE  Ind'
<1>1. UNCHANGED <<now, authority, proposals, approvals, invals, sent, approved,
                  valid, since, lost>>
  BY DEF vars
<1>2. Shape' /\ RowsInv' /\ HashInv' /\ TimesInv'
  <2>1. Shape' /\ HashInv' /\ TimesInv'
    BY <1>1 DEF Ind, Shape, HashInv, TimesInv
  <2>2. RowsInv'
    BY <1>1 DEF Ind, RowsInv
  <2> QED BY <2>1, <2>2
<1>3. PlacesInv'
  <2>1. \A q \in Keys, l \in Levels : Places(q, l)' = Places(q, l)
    BY <1>1, PlacesAre, PlacesAreNext
  <2> QED BY <2>1 DEF Ind, PlacesInv
<1>4. CountInv' /\ ValidInv'
  <2>1. CountInv'
    BY <1>1 DEF Ind, CountInv, Given
  <2>2. ValidInv'
    BY <1>1 DEF Ind, ValidInv, CountsNow
  <2> QED BY <2>1, <2>2
<1>5. ClockInv'
  <2>1. \A q \in Keys : Authorized(q)' <=> Authorized(q)
    BY <1>1, SameAuthorized
  <2> QED BY <1>1, <2>1 DEF Ind, ClockInv
<1> QED BY <1>2, <1>3, <1>4, <1>5 DEF Ind

(* In every reachable state the tables agree, no level is lost or made up, *)
(* approvals are of the past and of their transaction, and the clock of a  *)
(* proposal leaves its delay.                                              *)
THEOREM Invariance == Spec => []Ind
<1>1. Init => Ind
  BY Start
<1>2. ASSUME Ind, [Next]_vars PROVE Ind'
  <2>1. CASE Next
    <3>1. Shape'
      BY <1>2, <2>1, StepKinds DEF Ind
    <3> QED BY <1>2, <2>1, <3>1, RowsStep, PlacesStep, HashStep, TimesStep,
               ClockStep, CountStep, ValidStep DEF Ind
  <2>2. CASE UNCHANGED vars
    BY <1>2, <2>2, Stutter
  <2> QED BY <1>2, <2>1, <2>2
<1> QED BY <1>1, <1>2, PTL DEF Spec

(* The two tables hold a row of a proposal or none, and after cancel and   *)
(* exec a name can be proposed again without a trace of the old proposal.  *)
THEOREM TablesCorrect == Spec => []TablesInv
<1>1. ASSUME Ind PROVE TablesInv
  <2>0. Shape /\ RowsInv /\ PlacesInv
    BY <1>1 DEF Ind
  <2>1. ASSUME NEW q \in Keys
        PROVE  /\ approvals[q].exists \in BOOLEAN
               /\ approvals[q].requested \in [Levels -> 0..Copies]
               /\ Range(approvals[q].provided) \subseteq Approval
    <3>1. /\ approvals[q].exists \in BOOLEAN
          /\ approvals[q].requested \in [Levels -> Nat]
          /\ approvals[q].provided \in Seq(Approval)
      BY <2>0, RowTypes
    <3>2. ASSUME NEW l \in Levels PROVE approvals[q].requested[l] \in 0..Copies
      <4> DEFINE c == Cardinality(Given(approvals[q].provided, l))
      <4>1. c \in Nat
        BY <3>1, GivenFinite
      <4>2. approvals[q].requested[l] + c <= Copies
        BY <2>0, PlacesAre DEF PlacesInv
      <4> HIDE DEF c
      <4> QED BY <3>1, <4>1, <4>2, Numbers
    <3>3. Range(approvals[q].provided) \subseteq Approval
      BY <3>1, ListFacts
    <3> QED BY <3>1, <3>2, <3>3
  <2>2. TypeOK
    BY <2>0, <2>1 DEF Shape, TypeOK
  <2> QED BY <2>0, <2>2 DEF RowsInv, TablesInv
<1> QED BY <1>1, Invariance, PTL

(* An approval given with a hash is never counted for another transaction  *)
(* that the proposer puts under the name (assert_sha256 in approve).       *)
THEOREM HashesKept == Spec => []HashInv
<1>1. Ind => HashInv
  BY DEF Ind
<1> QED BY <1>1, Invariance, PTL

(* approve and unapprove move a level between the lists and lose none.     *)
THEOREM NoLevelLost == Spec => LevelsKept
<1>1. ASSUME Ind, Next, NEW q \in Keys, NEW l \in Levels,
             proposals[q].exists, proposals'[q].exists
      PROVE  Places(q, l)' = Places(q, l)
  <2>0. Shape
    BY <1>1 DEF Ind
  <2>1. CASE OneProposal(q)
    <3>1. ~Erases(q) /\ ~Opens(q)
      BY <1>1 DEF Erases, Opens
    <3> QED BY <1>1, <2>0, <2>1, <3>1, SignsPlaces, RevokesPlaces DEF OneProposal
  <2>2. CASE NoProposal \/ \E k \in Keys \ {q} : OneProposal(k)
    <3>1. approvals'[q] = approvals[q]
      BY <2>2, Untouched
    <3> QED BY <3>1, PlacesAre, PlacesAreNext
  <2> QED BY <1>1, <2>0, <2>1, <2>2, StepKinds
<1>2. Ind /\ [Next]_vars =>
        [\A q \in Keys, l \in Levels :
           proposals[q].exists /\ proposals'[q].exists => Places(q, l)' = Places(q, l)]_vars
  BY <1>1
<1> QED BY <1>2, Invariance, PTL DEF Spec, LevelsKept

-----------------------------------------------------------------------------
(* Only exec sends a transaction.                                          *)
LEMMA ExecutedByExec ==
    ASSUME Shape, Next, NEW q \in Keys, Executed(q)
    PROVE  exec(q)
<1>0. sent' # sent /\ proposals[q].exists /\ ~proposals'[q].exists
  BY DEF Executed
<1>1. PICK k \in Keys : exec(k)
  BY <1>0 DEF Next, propose, approve, unapprove, cancel, invalidate, changeauth, Tick
<1>2. Ends(k)
  BY <1>1 DEF exec, Ends, ApprovalsAfterExec
<1>3. OtherRows(k)
  BY <1>2, EndsRows
<1>4. q = k
  BY <1>0, <1>3 DEF OtherRows
<1> QED BY <1>1, <1>4

(* exec runs a transaction only with the approvals of levels that stand by *)
(* it: they have not revoked them all, nor has their actor invalidated     *)
(* them since, however often propose requested a level.                    *)
THEOREM ExecutedByStanding == Spec => ExecByStanding
<1>1. ASSUME Ind, Next, NEW q \in Keys, Executed(q)
      PROVE  check_transaction_authorization(proposals[q].trx, Standing(q))
  <2> DEFINE s == approvals[q].provided
  <2>1. Shape /\ ValidInv /\ CountInv /\ s \in Seq(Approval)
    BY <1>1, RowTypes DEF Ind
  <2>2. check_transaction_authorization(proposals[q].trx, get_approvals(s))
    BY <1>1, <2>1, ExecutedByExec DEF exec, trx_is_authorized
  <2>3. ASSUME NEW a \in Range(s), CountsNow(a)
        PROVE  a.level \in Standing(q)
    <3>1. a.level \in Levels
      <4>1. a \in Approval
        BY <2>1, <2>3, ListFacts
      <4> QED BY <4>1 DEF Approval
    <3>0. <<q, a.level>> \in valid
      BY <2>1, <2>3 DEF ValidInv
    <3>2. PICK i \in DOMAIN s : s[i] = a
      BY <2>3 DEF Range
    <3> DEFINE G == Given(s, a.level)
    <3>3. i \in G
      BY <3>2 DEF Given
    <3>4. IsFiniteSet(G) /\ Cardinality(G) \in Nat
      BY <2>1, GivenFinite
    <3>5. approved[q][a.level] = Cardinality(G)
      BY <2>1, <3>1 DEF CountInv
    <3> HIDE DEF G
    <3>6. Cardinality(G) > 0
      BY <3>3, <3>4, FS_EmptySet
    <3> QED BY <3>1, <3>0, <3>5, <3>6 DEF Standing
  <2>4. get_approvals(s) \subseteq Standing(q)
    BY <2>3 DEF get_approvals
  <2> HIDE DEF s
  <2> QED BY <2>2, <2>4 DEF check_transaction_authorization
<1>2. Ind /\ [Next]_vars =>
        [\A q \in Keys : Executed(q) =>
          check_transaction_authorization(proposals[q].trx, Standing(q))]_vars
  BY <1>1
<1> QED BY <1>2, Invariance, PTL DEF Spec, ExecByStanding

(* exec waits until a transaction has been authorized for its delay, as    *)
(* long as no invalidation and no new authority took the authorization.    *)
THEOREM DelayRespected == Spec => DelayKept
<1>1. ASSUME Ind, Next, NEW q \in Keys, Executed(q), q \notin lost
      PROVE  since[q] # 0 /\ since[q] + 2 * DelaySec[proposals[q].trx] <= now
  <2> DEFINE D == DelaySec[proposals[q].trx]
             e == proposals[q].earliest_exec_time
  <2>0. Shape /\ ClockInv
    BY <1>1 DEF Ind
  <2>1. D \in Nat /\ e \in Nat /\ now \in Nat
    BY <2>0, RowTypes, Numbers DEF Shape
  <2>2. /\ proposals[q].exists
        /\ trx_is_authorized(q, approvals[q].provided)
        /\ IF e # 0 THEN e <= now ELSE D = 0
    BY <1>1, <2>0, ExecutedByExec DEF exec
  <2>3. Authorized(q)
    BY <2>2 DEF Authorized
  <2>4. /\ since[q] \in 0..now /\ since[q] # 0
        /\ e # 0 => since[q] + 2 * D <= e
    BY <1>1, <2>0, <2>3 DEF ClockInv
  <2> HIDE DEF D, e
  <2>5. since[q] + 2 * D <= now
    BY <2>1, <2>2, <2>4
  <2> QED BY <2>4, <2>5 DEF D
<1>2. Ind /\ [Next]_vars =>
        [\A q \in Keys : Executed(q) /\ q \notin lost =>
          /\ since[q] # 0
          /\ since[q] + 2 * DelaySec[proposals[q].trx] <= now]_vars
  BY <1>1
<1> QED BY <1>2, Invariance, PTL DEF Spec, DelayKept

-----------------------------------------------------------------------------
(* LimitAuth: first what Above computes.                                   *)

(* f is the function that Above iterates: f[n] has the permissions up to   *)
(* n parents above p.                                                      *)
IsUp(f, par, p, N) ==
    f = [n \in 0..N |->
            IF n = 0 THEN {p}
            ELSE f[n - 1] \cup {par[q] : q \in f[n - 1] \ {"owner"}}]

LEMMA UpExists ==
    ASSUME NEW par, NEW p, NEW N \in Nat
    PROVE  \E f : IsUp(f, par, p, N)
<1> DEFINE Q == {n \in Nat : \E f : IsUp(f, par, p, n)}
<1>1. 0 \in Q
  <2> DEFINE f == [n \in 0..0 |-> {p}]
  <2>1. IsUp(f, par, p, 0)
    BY DEF IsUp
  <2> QED BY <2>1
<1>2. ASSUME NEW n \in Nat, n \in Q PROVE n + 1 \in Q
  <2>1. PICK f : IsUp(f, par, p, n)
    BY <1>2
  <2> DEFINE g == [m \in 0..(n + 1) |->
                IF m \in 0..n THEN f[m]
                ELSE f[n] \cup {par[q] : q \in f[n] \ {"owner"}}]
             h == [m \in 0..(n + 1) |->
            IF m = 0 THEN {p}
            ELSE g[m - 1] \cup {par[q] : q \in g[m - 1] \ {"owner"}}]
  <2>2. ASSUME NEW m \in 0..(n + 1) PROVE g[m] = h[m]
    <3>1. CASE m = 0
      <4>1. f[0] = {p}
        BY <2>1 DEF IsUp
      <4> QED BY <3>1, <4>1
    <3>2. CASE m \in 1..n
      <4>1. f[m] = f[m - 1] \cup {par[q] : q \in f[m - 1] \ {"owner"}}
        BY <2>1, <3>2 DEF IsUp
      <4>2. m - 1 \in 0..n /\ m \in 0..n
        BY <3>2
      <4>3. g[m] = f[m] /\ g[m - 1] = f[m - 1]
        BY <4>2
      <4> HIDE DEF g
      <4> QED BY <4>1, <4>3, <3>2
    <3>3. CASE m = n + 1
      <4>1. g[n] = f[n] /\ g[m] = f[n] \cup {par[q] : q \in f[n] \ {"owner"}}
        BY <3>3
      <4>2. m # 0 /\ m - 1 = n
        BY <3>3
      <4> HIDE DEF g
      <4> QED BY <4>1, <4>2
    <3> QED BY <3>1, <3>2, <3>3
  <2>3. g = h
    <3>1. DOMAIN g = DOMAIN h /\ \A m \in DOMAIN g : g[m] = h[m]
      BY <2>2
    <3> QED BY <3>1
  <2>4. IsUp(g, par, p, n + 1)
    <3> HIDE DEF g
    <3> QED BY <2>3 DEF IsUp
  <2> QED BY <2>4
<1>3. N \in Q
  <2> HIDE DEF Q
  <2> QED BY <1>1, <1>2, NatSetInduction
<1> QED BY <1>3

(* Above is the last of these sets.                                        *)
LEMMA AboveUp ==
    ASSUME NEW a, NEW p, Cardinality(PermsOf(a)) \in Nat
    PROVE  \E f : /\ IsUp(f, parents[a], p, Cardinality(PermsOf(a)))
                  /\ Above(a, p) = f[Cardinality(PermsOf(a))]
<1> DEFINE N == Cardinality(PermsOf(a))
           f == CHOOSE g : IsUp(g, parents[a], p, N)
<1>1. IsUp(f, parents[a], p, N)
  BY UpExists
<1>2. Above(a, p) = f[N]
  BY DEF Above, IsUp
<1> QED BY <1>1, <1>2

(* The permissions of an account are in an order in which every one comes  *)
(* after its parent, but for the owner, which has none.                    *)
InOrderBy(dom, par, ord) ==
    /\ ord \in [dom -> 0..(Cardinality(dom) - 1)]
    /\ \A q, r \in dom : ord[q] = ord[r] => q = r
    /\ \A q \in dom \ {"owner"} : par[q] \in dom /\ ord[par[q]] < ord[q]

(* The tree of permissions of a, and what holds of its other rows.         *)
TreeInv(a) ==
    /\ {"owner", "active"} \subseteq PermsOf(a) /\ PermsOf(a) \subseteq Permissions
    /\ parents[a] = [q \in PermsOf(a) |-> parents[a][q]]
    /\ \E ord : InOrderBy(PermsOf(a), parents[a], ord)

RowsOf(a) ==
    /\ auths[a] \in [PermsOf(a) -> Holders]
    /\ links[a] \in PermsOf(a) \cup {"none", "flon.any"}
    /\ limits[a] \in LimitAuthChange
    /\ ValidLists(limits[a].allow_perms, limits[a].disallow_perms)

PermShape ==
    /\ DOMAIN parents = Accounts /\ DOMAIN auths = Accounts
    /\ DOMAIN links = Accounts /\ limits \in [Accounts -> LimitAuthChange]
    /\ signer \in Permissions \cup {"none"}

PermInd == PermShape /\ \A a \in Accounts : TreeInv(a) /\ RowsOf(a)

LEMMA PermsFinite ==
    ASSUME NEW dom \in SUBSET Permissions
    PROVE  IsFiniteSet(dom) /\ Cardinality(dom) \in Nat
<1>1. IsFiniteSet({"owner", "active"})
  <2>1. IsFiniteSet({"owner"}) /\ {"owner", "active"} = {"owner"} \cup {"active"}
    BY FS_Singleton
  <2> QED BY <2>1, FS_AddElement
<1>2. IsFiniteSet(Permissions)
  BY <1>1, LimitAuthAssumption, FS_Union DEF Permissions
<1>3. IsFiniteSet(dom)
  BY <1>2, FS_Subset
<1> QED BY <1>3, FS_CardinalityType

(* In a tree the owner is above every permission: every round of Above     *)
(* that has not reached it has reached an earlier one.                     *)
LEMMA OwnerAbove ==
    ASSUME NEW a, TreeInv(a), NEW p \in PermsOf(a)
    PROVE  "owner" \in Above(a, p)
<1> DEFINE N == Cardinality(PermsOf(a))
           par == parents[a]
<1>1. N \in Nat
  BY PermsFinite DEF TreeInv
<1>2. PICK f : IsUp(f, par, p, N) /\ Above(a, p) = f[N]
  BY <1>1, AboveUp
<1>3. PICK ord : InOrderBy(PermsOf(a), par, ord)
  BY DEF TreeInv
<1> DEFINE Q == {n \in Nat : n <= N =>
                \/ "owner" \in f[n]
                \/ \E q \in f[n] \cap PermsOf(a) : ord[q] + n < N}
<1> HIDE DEF N, par
<1>4. 0 \in Q
  <2>1. f[0] = {p}
    BY <1>1, <1>2 DEF IsUp
  <2>2. ord[p] + 0 < N
    BY <1>1, <1>3 DEF InOrderBy, N
  <2> QED BY <2>1, <2>2
<1>5. ASSUME NEW n \in Nat, n \in Q PROVE n + 1 \in Q
  <2>1. SUFFICES ASSUME n + 1 <= N
                 PROVE  \/ "owner" \in f[n + 1]
                        \/ \E q \in f[n + 1] \cap PermsOf(a) : ord[q] + (n + 1) < N
    OBVIOUS
  <2>2. f[n + 1] = f[n] \cup {par[q] : q \in f[n] \ {"owner"}}
    <3>1. n + 1 \in 0..N /\ n + 1 # 0 /\ (n + 1) - 1 = n
      BY <1>1, <2>1
    <3> QED BY <1>2, <3>1 DEF IsUp
  <2>3. CASE "owner" \in f[n]
    BY <2>2, <2>3
  <2>4. CASE "owner" \notin f[n]
    <3>1. PICK q \in f[n] \cap PermsOf(a) : ord[q] + n < N
      BY <1>1, <1>5, <2>1, <2>4
    <3>2. q \in PermsOf(a) \ {"owner"} /\ par[q] \in f[n + 1]
      BY <2>2, <2>4, <3>1
    <3>3. par[q] \in PermsOf(a) /\ ord[par[q]] < ord[q]
      BY <1>3, <3>2 DEF InOrderBy
    <3>4. ord[q] \in Int /\ ord[par[q]] \in Int
      BY <1>3, <3>2, <3>3 DEF InOrderBy
    <3>5. ord[par[q]] + (n + 1) < N
      BY <1>1, <3>1, <3>3, <3>4
    <3> QED BY <3>2, <3>3, <3>5
  <2> QED BY <2>3, <2>4
<1>6. N \in Q
  <2> HIDE DEF Q
  <2> QED BY <1>1, <1>4, <1>5, NatSetInduction
<1>7. SUFFICES ASSUME NEW q \in f[N] \cap PermsOf(a), ord[q] + N < N PROVE FALSE
  BY <1>1, <1>2, <1>6
<1>8. ord[q] \in Nat
  BY <1>1, <1>3 DEF InOrderBy, N
<1> QED BY <1>1, <1>7, <1>8

(* A new permission comes last in the order.                               *)
LEMMA TreeGrows ==
    ASSUME NEW dom \in SUBSET Permissions, NEW par, DOMAIN par = dom,
           NEW ord, InOrderBy(dom, par, ord), "owner" \in dom,
           NEW x, x \notin dom, NEW y \in dom
    PROVE  \E o : InOrderBy(dom \cup {x}, Put(par, x, y), o)
<1> DEFINE N == Cardinality(dom)
           new == Put(par, x, y)
           o == [q \in dom \cup {x} |-> IF q = x THEN N ELSE ord[q]]
<1>1. IsFiniteSet(dom) /\ N \in Nat
  BY PermsFinite
<1>2. Cardinality(dom \cup {x}) = N + 1
  BY <1>1, FS_AddElement
<1>3. \A q \in dom : ord[q] \in 0..(N - 1) /\ o[q] = ord[q] /\ new[q] = par[q]
  BY DEF InOrderBy, Put
<1>4. o[x] = N /\ new[x] = y
  BY DEF Put
<1>5. o \in [dom \cup {x} -> 0..((N + 1) - 1)]
  <2>1. ASSUME NEW q \in dom \cup {x} PROVE o[q] \in 0..((N + 1) - 1)
    <3> HIDE DEF o, N
    <3> QED BY <1>1, <1>3, <1>4
  <2> QED BY <2>1
<1> HIDE DEF o, N, new
<1>6. ASSUME NEW q \in dom \cup {x}, NEW r \in dom \cup {x}, o[q] = o[r]
      PROVE  q = r
  <2>1. CASE q \in dom /\ r \in dom
    BY <1>3, <1>6, <2>1 DEF InOrderBy
  <2>2. CASE q = x /\ r = x
    BY <2>2
  <2>3. CASE q = x /\ r \in dom
    BY <1>1, <1>3, <1>4, <1>6, <2>3
  <2>4. CASE q \in dom /\ r = x
    BY <1>1, <1>3, <1>4, <1>6, <2>4
  <2> QED BY <2>1, <2>2, <2>3, <2>4
<1>7. ASSUME NEW q \in (dom \cup {x}) \ {"owner"}
      PROVE  new[q] \in dom \cup {x} /\ o[new[q]] < o[q]
  <2>1. CASE q = x
    BY <1>1, <1>3, <1>4, <2>1
  <2>2. CASE q \in dom
    <3>1. par[q] \in dom /\ ord[par[q]] < ord[q]
      BY <1>7, <2>2 DEF InOrderBy
    <3> QED BY <1>3, <2>2, <3>1
  <2> QED BY <2>1, <2>2
<1>8. InOrderBy(dom \cup {x}, new, o)
  BY <1>2, <1>5, <1>6, <1>7 DEF InOrderBy
<1> QED BY <1>8 DEF new

(* When a leaf goes, those that come after it move up.                     *)
LEMMA TreeShrinks ==
    ASSUME NEW dom \in SUBSET Permissions, NEW par,
           NEW ord, InOrderBy(dom, par, ord), "owner" \in dom,
           NEW x \in dom, x # "owner", \A q \in dom : par[q] # x
    PROVE  \E o : InOrderBy(dom \ {x}, [q \in dom \ {x} |-> par[q]], o)
<1> DEFINE N == Cardinality(dom)
           new == [q \in dom \ {x} |-> par[q]]
           o == [q \in dom \ {x} |-> IF ord[q] > ord[x] THEN ord[q] - 1 ELSE ord[q]]
<1>1. IsFiniteSet(dom) /\ N \in Nat
  BY PermsFinite
<1>2. Cardinality(dom \ {x}) = N - 1
  BY <1>1, FS_RemoveElement
<1>3. \A q \in dom : ord[q] \in 0..(N - 1)
  BY DEF InOrderBy
<1>4. \A q \in dom \ {x} : /\ ord[q] # ord[x]
                           /\ o[q] = (IF ord[q] > ord[x] THEN ord[q] - 1 ELSE ord[q])
                           /\ new[q] = par[q]
  BY DEF InOrderBy
<1>5. o \in [dom \ {x} -> 0..((N - 1) - 1)]
  <2>1. ASSUME NEW q \in dom \ {x} PROVE o[q] \in 0..((N - 1) - 1)
    <3> HIDE DEF o, N
    <3> QED BY <1>1, <1>3, <1>4
  <2> QED BY <2>1
<1> HIDE DEF o, N, new
<1>6. ASSUME NEW q \in dom \ {x}, NEW r \in dom \ {x}, o[q] = o[r]
      PROVE  q = r
  <2>1. ord[q] = ord[r]
    BY <1>1, <1>3, <1>4, <1>6
  <2> QED BY <2>1 DEF InOrderBy
<1>7. ASSUME NEW q \in (dom \ {x}) \ {"owner"}
      PROVE  new[q] \in dom \ {x} /\ o[new[q]] < o[q]
  <2>1. par[q] \in dom \ {x} /\ ord[par[q]] < ord[q]
    BY <1>7 DEF InOrderBy
  <2>2. o[par[q]] < o[q]
    BY <1>1, <1>3, <1>4, <2>1
  <2> QED BY <1>4, <2>1, <2>2
<1>8. InOrderBy(dom \ {x}, new, o)
  BY <1>2, <1>5, <1>6, <1>7 DEF InOrderBy
<1> QED BY <1>8 DEF new

-----------------------------------------------------------------------------
(* The rows of one account change, or none.                                *)

LEMMA PermInitInd == PermInit => PermInd
<1> SUFFICES ASSUME PermInit PROVE PermInd
  OBVIOUS
<1>1. PermShape
  <2>1. NoRow \in LimitAuthChange
    BY DEF NoRow, LimitAuthChange
  <2> QED BY <2>1 DEF PermInit, PermShape, Permissions
<1>2. ASSUME NEW a \in Accounts PROVE TreeInv(a) /\ RowsOf(a)
  <2> DEFINE dom == {"owner", "active"}
             par == [p \in dom |-> IF p = "owner" THEN "none" ELSE "owner"]
             ord == [p \in dom |-> IF p = "owner" THEN 0 ELSE 1]
  <2>1. parents[a] = par /\ PermsOf(a) = dom
    BY DEF PermInit, PermsOf
  <2>2. Cardinality(dom) = 2
    <3>1. IsFiniteSet({"owner"}) /\ Cardinality({"owner"}) = 1
      BY FS_Singleton
    <3>2. dom = {"owner"} \cup {"active"} /\ "active" \notin {"owner"}
      OBVIOUS
    <3> HIDE DEF dom
    <3> QED BY <3>1, <3>2, FS_AddElement
  <2>3. InOrderBy(dom, par, ord)
    BY <2>2 DEF InOrderBy
  <2>4. TreeInv(a)
    BY <2>1, <2>3 DEF TreeInv, Permissions
  <2>5. RowsOf(a)
    BY <1>1, <2>1 DEF PermShape, RowsOf, PermInit, NoRow, ValidLists
  <2> QED BY <2>4, <2>5
<1> QED BY <1>1, <1>2 DEF PermInd

(* An action on the account a keeps the invariant if it leaves a in order. *)
LEMMA OneAccount ==
    ASSUME PermInd, NEW a \in Accounts, PermShape', TreeInv(a)', RowsOf(a)',
           \A b \in Accounts \ {a} : /\ parents'[b] = parents[b]
                                     /\ auths'[b] = auths[b]
                                     /\ links'[b] = links[b]
                                     /\ limits'[b] = limits[b]
    PROVE  PermInd'
<1>1. ASSUME NEW b \in Accounts, b # a PROVE TreeInv(b)' /\ RowsOf(b)'
  <2>1. TreeInv(b) /\ RowsOf(b)
    BY DEF PermInd
  <2>2. /\ parents'[b] = parents[b] /\ auths'[b] = auths[b]
        /\ links'[b] = links[b] /\ limits'[b] = limits[b]
    BY <1>1
  <2>3. TreeInv(b)'
    BY <2>1, <2>2 DEF TreeInv, PermsOf
  <2>4. RowsOf(b)'
    BY <2>1, <2>2 DEF RowsOf, PermsOf
  <2> QED BY <2>3, <2>4
<1> QED BY <1>1 DEF PermInd

LEMMA LimitauthchgInd ==
    ASSUME PermInd, NEW a \in Accounts, NEW p \in PermsOf(a),
           NEW allow \in SUBSET Permissions, NEW disallow \in SUBSET Permissions,
           limitauthchg(a, p, allow, disallow)
    PROVE  PermInd'
<1>0. PermShape /\ TreeInv(a) /\ RowsOf(a)
  BY DEF PermInd
<1>1. [ allow_perms |-> allow, disallow_perms |-> disallow ] \in LimitAuthChange
  BY DEF LimitAuthChange
<1>2. limits'[a] = [ allow_perms |-> allow, disallow_perms |-> disallow ]
  BY <1>0 DEF limitauthchg, PermShape
<1>3. PermShape'
  BY <1>0, <1>1 DEF limitauthchg, PermShape, TreeInv
<1>4. TreeInv(a)'
  BY <1>0 DEF limitauthchg, TreeInv, PermsOf
<1>5. RowsOf(a)'
  BY <1>0, <1>1, <1>2 DEF limitauthchg, RowsOf, PermsOf
<1>6. \A b \in Accounts \ {a} : limits'[b] = limits[b]
  BY <1>0 DEF limitauthchg, PermShape
<1>7. parents' = parents /\ auths' = auths /\ links' = links
  BY DEF limitauthchg
<1> QED BY <1>3, <1>4, <1>5, <1>6, <1>7, OneAccount

LEMMA UpdateauthInd ==
    ASSUME PermInd, NEW a \in Accounts, NEW p \in PermsOf(a), NEW by,
           NEW permission \in Permissions, NEW parent, NEW auth \in Holders,
           updateauth(a, p, by, permission, parent, auth)
    PROVE  PermInd'
<1>0. PermShape /\ TreeInv(a) /\ RowsOf(a)
  BY DEF PermInd
<1>1. parents'[a] = Put(parents[a], permission, parent)
  BY <1>0 DEF updateauth, PermShape
<1>2. auths'[a] = Put(auths[a], permission, auth)
  BY <1>0 DEF updateauth, PermShape
<1>3. DOMAIN parents'[a] = PermsOf(a) \cup {permission}
  BY <1>1 DEF Put, PermsOf
<1>4. PermShape'
  BY <1>0 DEF updateauth, PermShape, TreeInv
<1>5. \E o : InOrderBy(PermsOf(a) \cup {permission}, parents'[a], o)
  <2>1. PICK ord : InOrderBy(PermsOf(a), parents[a], ord)
    BY <1>0 DEF TreeInv
  <2>2. CASE permission \in PermsOf(a)
    <3>1. parents'[a] = parents[a]
      <4>1. parents[a] = [q \in PermsOf(a) |-> parents[a][q]]
        BY <1>0 DEF TreeInv
      <4>2. parent = parents[a][permission]
        BY <2>2 DEF updateauth
      <4>3. Put(parents[a], permission, parent) = [q \in PermsOf(a) |-> parents[a][q]]
        BY <2>2, <4>2 DEF Put, PermsOf
      <4> QED BY <1>1, <4>1, <4>3
    <3>2. PermsOf(a) \cup {permission} = PermsOf(a)
      BY <2>2
    <3> QED BY <2>1, <3>1, <3>2
  <2>3. CASE permission \notin PermsOf(a)
    <3>1. parent \in PermsOf(a)
      BY <2>3 DEF updateauth
    <3>2. DOMAIN parents[a] = PermsOf(a) /\ PermsOf(a) \in SUBSET Permissions
          /\ "owner" \in PermsOf(a)
      BY <1>0 DEF TreeInv, PermsOf
    <3> QED BY <1>1, <2>1, <2>3, <3>1, <3>2, TreeGrows
  <2> QED BY <2>2, <2>3
<1>6. TreeInv(a)'
  <2>1. parents'[a] = [q \in PermsOf(a) \cup {permission} |-> parents'[a][q]]
    BY <1>1, <1>3 DEF Put
  <2>2. PermsOf(a)' = PermsOf(a) \cup {permission}
    BY <1>3 DEF PermsOf
  <2> QED BY <1>0, <1>5, <2>1, <2>2 DEF TreeInv
<1>7. RowsOf(a)'
  <2>1. auths'[a] \in [PermsOf(a) \cup {permission} -> Holders]
    BY <1>0, <1>2 DEF RowsOf, Put
  <2>2. PermsOf(a)' = PermsOf(a) \cup {permission}
    BY <1>3 DEF PermsOf
  <2>3. links' = links /\ limits' = limits
    BY DEF updateauth
  <2> QED BY <1>0, <2>1, <2>2, <2>3 DEF RowsOf
<1>8. \A b \in Accounts \ {a} : parents'[b] = parents[b] /\ auths'[b] = auths[b]
  BY <1>0 DEF updateauth, PermShape
<1>9. links' = links /\ limits' = limits
  BY DEF updateauth
<1> QED BY <1>4, <1>6, <1>7, <1>8, <1>9, OneAccount

LEMMA DeleteauthInd ==
    ASSUME PermInd, NEW a \in Accounts, NEW p \in PermsOf(a), NEW by,
           NEW permission, deleteauth(a, p, by, permission)
    PROVE  PermInd'
<1>0. PermShape /\ TreeInv(a) /\ RowsOf(a)
  BY DEF PermInd
<1> DEFINE left == PermsOf(a) \ {permission}
<1>1. parents'[a] = [q \in left |-> parents[a][q]]
  BY <1>0 DEF deleteauth, PermShape
<1>2. auths'[a] = [q \in left |-> auths[a][q]]
  BY <1>0 DEF deleteauth, PermShape
<1>3. PermsOf(a)' = left
  BY <1>1 DEF PermsOf
<1>4. PermShape'
  BY <1>0 DEF deleteauth, PermShape, TreeInv
<1>5. \E o : InOrderBy(left, parents'[a], o)
  <2>1. PICK ord : InOrderBy(PermsOf(a), parents[a], ord)
    BY <1>0 DEF TreeInv
  <2>2. /\ permission \in PermsOf(a) /\ permission # "owner"
        /\ \A q \in PermsOf(a) : parents[a][q] # permission
    BY DEF deleteauth
  <2>3. PermsOf(a) \in SUBSET Permissions /\ "owner" \in PermsOf(a)
    BY <1>0 DEF TreeInv
  <2> QED BY <1>1, <2>1, <2>2, <2>3, TreeShrinks
<1>6. TreeInv(a)'
  <2>1. parents'[a] = [q \in left |-> parents'[a][q]]
    BY <1>1
  <2>2. {"owner", "active"} \subseteq left /\ left \subseteq Permissions
    BY <1>0 DEF TreeInv, deleteauth
  <2> QED BY <1>3, <1>5, <2>1, <2>2 DEF TreeInv
<1>7. RowsOf(a)'
  <2>1. auths'[a] \in [left -> Holders]
    BY <1>0, <1>2 DEF RowsOf
  <2>2. links' = links /\ limits' = limits
    BY DEF deleteauth
  <2>3. links[a] \in left \cup {"none", "flon.any"}
    BY <1>0 DEF RowsOf, deleteauth
  <2> QED BY <1>0, <1>3, <2>1, <2>2, <2>3 DEF RowsOf
<1>8. \A b \in Accounts \ {a} : parents'[b] = parents[b] /\ auths'[b] = auths[b]
  BY <1>0 DEF deleteauth, PermShape
<1>9. links' = links /\ limits' = limits
  BY DEF deleteauth
<1> QED BY <1>4, <1>6, <1>7, <1>8, <1>9, OneAccount

LEMMA LinkInd ==
    ASSUME PermInd, NEW a \in Accounts, NEW p \in PermsOf(a),
           NEW r \in PermsOf(a) \cup {"none", "flon.any"},
           links' = [links EXCEPT ![a] = r], signer' = p,
           UNCHANGED <<parents, auths, limits>>
    PROVE  PermInd'
<1>0. PermShape /\ TreeInv(a) /\ RowsOf(a)
  BY DEF PermInd
<1>1. links'[a] = r /\ \A b \in Accounts \ {a} : links'[b] = links[b]
  BY <1>0 DEF PermShape
<1>2. PermShape'
  BY <1>0 DEF PermShape, TreeInv
<1>3. TreeInv(a)'
  BY <1>0 DEF TreeInv, PermsOf
<1>4. RowsOf(a)'
  BY <1>0, <1>1 DEF RowsOf, PermsOf
<1> QED BY <1>1, <1>2, <1>3, <1>4, OneAccount

(* What the holder of p may do to the account a.                           *)
ActionOn(a, p) ==
    \/ \E allow, disallow \in SUBSET Permissions : limitauthchg(a, p, allow, disallow)
    \/ \E by \in {p, "none"} :
          \/ \E permission \in Permissions, parent \in Permissions \cup {"none"},
                auth \in Holders : updateauth(a, p, by, permission, parent, auth)
          \/ \E permission \in Permissions : deleteauth(a, p, by, permission)
          \/ \E r \in Permissions \cup {"flon.any"} : linkauth(a, p, by, r)
          \/ unlinkauth(a, p, by)

LEMMA PermNextInd == PermInd /\ [PermNext]_permvars => PermInd'
<1> SUFFICES ASSUME PermInd, [PermNext]_permvars PROVE PermInd'
  OBVIOUS
<1>1. CASE UNCHANGED permvars
  BY <1>1 DEF permvars, PermInd, PermShape, TreeInv, RowsOf, PermsOf
<1>2. CASE PermNext
  <2>0. PICK a \in Accounts : \E p \in PermsOf(a) : ActionOn(a, p)
    BY <1>2 DEF PermNext, ActionOn
  <2>1. PICK p \in PermsOf(a) : ActionOn(a, p)
    BY <2>0
  <2>2. ASSUME NEW r, NEW by, linkauth(a, p, by, r) PROVE PermInd'
    BY <2>2, LinkInd DEF linkauth
  <2>3. ASSUME NEW by, unlinkauth(a, p, by) PROVE PermInd'
    BY <2>3, LinkInd DEF unlinkauth
  <2> QED BY <2>1, <2>2, <2>3, LimitauthchgInd, UpdateauthInd, DeleteauthInd DEF ActionOn
<1> QED BY <1>1, <1>2

LEMMA OwnerPart == PermInd => OwnerNotLockedOut
<1> SUFFICES ASSUME PermInd PROVE OwnerNotLockedOut
  OBVIOUS
<1>1. PermTypeOK
  BY DEF PermInd, PermShape, TreeInv, RowsOf, PermTypeOK
<1>2. ASSUME NEW a \in Accounts
      PROVE  /\ check_auth_change(a, "owner", "owner")
             /\ \A p \in PermsOf(a) : "owner" \in Above(a, p)
             /\ MaySign(a, "owner")
  <2>0. TreeInv(a) /\ RowsOf(a)
    BY DEF PermInd
  <2>1. check_auth_change(a, "owner", "owner")
    BY <2>0 DEF RowsOf, ValidLists, check_auth_change
  <2>2. ASSUME NEW p \in PermsOf(a) PROVE "owner" \in Above(a, p)
    BY <2>0, OwnerAbove
  <2>3. "owner" \in PermsOf(a) /\ "active" \in PermsOf(a)
    BY <2>0 DEF TreeInv
  <2>4. links[a] \in PermsOf(a) \/ links[a] = "none" \/ links[a] = "flon.any"
    BY <2>0 DEF RowsOf
  <2>5. MaySign(a, "owner")
    BY <2>2, <2>3, <2>4 DEF MaySign
  <2> QED BY <2>1, <2>2, <2>5
<1> QED BY <1>1, <1>2 DEF OwnerNotLockedOut

(* The permissions of every account stay a tree under its owner, and the   *)
(* lists of limitauthchg name the owner where they must.                   *)
THEOREM PermInduction == PermSpec => []PermInd
BY PermInitInd, PermNextInd, PTL DEF PermSpec

(* Whatever is set with limitauthchg, updateauth, deleteauth and linkauth, *)
(* the owner of an account passes check_auth_change and the checks of the  *)
(* host, and so can undo it.                                               *)
THEOREM OwnerNeverLockedOut == PermSpec => []OwnerNotLockedOut
BY PermInduction, OwnerPart, PTL

(* An action signed by p changes a only where the checks let p.            *)
LEMMA PowerlessStep ==
    ASSUME PermInd, PermNext, NEW a \in Accounts, NEW p \in Permissions,
           Excluded(a, p), ~MaySign(a, p), signer' = p
    PROVE  UNCHANGED <<parents[a], auths[a], links[a], limits[a]>>
<1>0. PermShape /\ RowsOf(a)
  BY DEF PermInd
<1>1. p # "none"
  BY LimitAuthAssumption DEF Permissions
<1>2. ASSUME NEW by \in {p, "none"} PROVE ~check_auth_change(a, p, by)
  <2>1. limits[a] # NoRow
    BY DEF Excluded, NoRow
  <2> QED BY <1>0, <1>1, <2>1 DEF Excluded, check_auth_change, RowsOf, ValidLists
<1>3a. PICK b \in Accounts : \E s \in PermsOf(b) : ActionOn(b, s)
  BY DEF PermNext, ActionOn
<1>3. PICK s \in PermsOf(b) : ActionOn(b, s)
  BY <1>3a
<1>4. s = p
  BY <1>3 DEF ActionOn, limitauthchg, updateauth, deleteauth, linkauth, unlinkauth
<1>5. b # a
  BY <1>2, <1>3, <1>4 DEF ActionOn, limitauthchg, updateauth, deleteauth, linkauth, unlinkauth
<1>6. ASSUME NEW allow, NEW disallow, limitauthchg(b, s, allow, disallow)
      PROVE  UNCHANGED <<parents[a], auths[a], links[a], limits[a]>>
  BY <1>0, <1>5, <1>6 DEF limitauthchg, PermShape
<1>7. ASSUME NEW by, NEW permission, NEW parent, NEW auth,
             updateauth(b, s, by, permission, parent, auth)
      PROVE  UNCHANGED <<parents[a], auths[a], links[a], limits[a]>>
  BY <1>0, <1>5, <1>7 DEF updateauth, PermShape
<1>8. ASSUME NEW by, NEW permission, deleteauth(b, s, by, permission)
      PROVE  UNCHANGED <<parents[a], auths[a], links[a], limits[a]>>
  BY <1>0, <1>5, <1>8 DEF deleteauth, PermShape
<1>9. ASSUME NEW by, NEW r, linkauth(b, s, by, r) \/ unlinkauth(b, s, by)
      PROVE  UNCHANGED <<parents[a], auths[a], links[a], limits[a]>>
  BY <1>0, <1>5, <1>9 DEF linkauth, unlinkauth, PermShape
<1> QED BY <1>3, <1>6, <1>7, <1>8, <1>9 DEF ActionOn

(* A permission that limitauthchg excludes, and that may not sign for the  *)
(* link, changes nothing of the account (check_auth_change in every one of *)
(* the native actions).                                                    *)
THEOREM ExcludedStaysPowerless == PermSpec => ExcludedIsPowerless
<1>1. PermInd /\ [PermNext]_permvars =>
        [\A a \in Accounts, p \in Permissions :
          Excluded(a, p) /\ ~MaySign(a, p) =>
              \/ signer' # p
              \/ UNCHANGED <<parents[a], auths[a], links[a], limits[a]>>]_permvars
  BY PowerlessStep
<1> QED BY <1>1, PermInduction, PTL DEF PermSpec, ExcludedIsPowerless
=============================================================================
