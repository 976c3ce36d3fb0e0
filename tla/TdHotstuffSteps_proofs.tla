----------------------- MODULE TdHotstuffSteps_proofs -----------------------
(***************************************************************************)
(* Facts about weighted quorums and about QCs that the other proofs share; *)
(* IndInv holds initially and is preserved by AsyncSend, by the fast path  *)
(* and the counting of ReceiveCertificate and by crashes.                  *)
(***************************************************************************)
EXTENDS TdHotstuffInv, FiniteSetTheorems, TLAPS

-----------------------------------------------------------------------------
(* Weights and weighted quorums, for any replicas and weights *)

\* max_weight_ bounds every weight (the maximum loops of the constructors).
LEMMA MaxWeight ==
  /\ max_weight \in Nat \ {0}
  /\ \A r \in Replica : weights[r] \in 1..max_weight
<1>1. \E w \in {weights[r] : r \in Replica} : \A q \in Replica : weights[q] <= w
  BY Zenon, WeightsAssumption
<1>2. /\ max_weight \in {weights[r] : r \in Replica}
      /\ \A q \in Replica : weights[q] <= max_weight
  BY Zenon, <1>1 DEF max_weight
<1> QED BY <1>2, WeightsAssumption

\* The units of a set of replicas are finitely many, so its weight is a number.
LEMMA WeightType ==
  ASSUME NEW S \in SUBSET Replica
  PROVE  /\ IsFiniteSet(S) /\ IsFiniteSet(Units(S)) /\ Weight(S) \in Nat
         /\ Weight(S) <= max_weight * Cardinality(S)
<1>1. IsFiniteSet(S) BY Zenon, FS_Subset, WeightsAssumption
<1>2. /\ IsFiniteSet(1..max_weight) /\ Cardinality(1..max_weight) = max_weight
  BY FS_Interval, MaxWeight
<1>3. /\ IsFiniteSet(S \X (1..max_weight))
      /\ Cardinality(S \X (1..max_weight)) = Cardinality(S) * max_weight
  BY Zenon, <1>1, <1>2, FS_Product
<1>4. Units(S) \in SUBSET (S \X (1..max_weight)) BY Zenon DEF Units
<1>5. IsFiniteSet(Units(S)) /\ Cardinality(Units(S)) <= Cardinality(S) * max_weight
  BY Zenon, <1>3, <1>4, FS_Subset
<1>6. Weight(S) \in Nat /\ Cardinality(S) \in Nat BY Zenon, <1>1, <1>5, FS_CardinalityType DEF Weight
<1> QED BY <1>1, <1>5, <1>6, MaxWeight DEF Weight

\* Counting one more signer adds its weight (line 432 of td_hotstuff.cpp).
LEMMA WeightAdd ==
  ASSUME NEW S \in SUBSET Replica, NEW r \in Replica, r \notin S
  PROVE  Weight(S \cup {r}) = Weight(S) + weights[r]
<1> DEFINE U == {r} \X (1..weights[r])
<1>1. weights[r] \in Nat /\ weights[r] \in 1..max_weight
  BY Zenon, WeightsAssumption, MaxWeight
<1>2. IsFiniteSet(1..weights[r]) /\ Cardinality(1..weights[r]) = weights[r]
  BY <1>1, FS_Interval
<1>3. IsFiniteSet({r}) /\ Cardinality({r}) = 1 BY Zenon, FS_Singleton
<1>4. IsFiniteSet(U) /\ Cardinality(U) = weights[r]
  <2>1. /\ IsFiniteSet(U)
        /\ Cardinality(U) = Cardinality({r}) * Cardinality(1..weights[r])
    BY Zenon, <1>2, <1>3, FS_Product
  <2>2. 1 * weights[r] = weights[r] BY <1>1
  <2> HIDE DEF U
  <2> QED BY Zenon, <1>2, <1>3, <2>1, <2>2
<1>5. Units(S \cup {r}) = Units(S) \cup U
  BY <1>1, MaxWeight DEF Units
<1>6. Units(S) \cap U = {} BY Zenon DEF Units
<1>7. IsFiniteSet(Units(S)) /\ Weight(S) \in Nat BY Zenon, WeightType
<1>8. Cardinality(Units(S) \cup U) = Cardinality(Units(S)) + Cardinality(U) - Cardinality({})
  BY <1>4, <1>6, <1>7, FS_Union
<1>9. Cardinality({}) = 0 BY Zenon, FS_EmptySet
<1> HIDE DEF U
<1>10. Cardinality(Units(S)) \in Nat BY Zenon, <1>7 DEF Weight
<1>11. Cardinality(Units(S) \cup U) = Cardinality(Units(S)) + weights[r]
  BY <1>1, <1>4, <1>8, <1>9, <1>10
<1> QED BY Zenon, <1>5, <1>11 DEF Weight

\* No signers, no weight.
LEMMA WeightEmpty == Weight({}) = 0
<1>1. Units({}) = {} BY Zenon DEF Units
<1> QED BY Zenon, <1>1, FS_EmptySet DEF Weight

\* Disjoint sets of signers share the total weight.
LEMMA WeightDisjoint ==
  ASSUME NEW S \in SUBSET Replica, NEW T \in SUBSET Replica, S \cap T = {}
  PROVE  Weight(S) + Weight(T) <= total_weight
<1>1. /\ IsFiniteSet(Units(S)) /\ Weight(S) \in Nat /\ IsFiniteSet(Units(T)) /\ Weight(T) \in Nat
      /\ IsFiniteSet(Units(Replica)) /\ total_weight \in Nat
  BY Zenon, WeightType DEF total_weight
<1>2. Units(S) \cap Units(T) = {} BY Zenon DEF Units
<1>3. /\ IsFiniteSet(Units(S) \cup Units(T))
      /\ Cardinality(Units(S) \cup Units(T)) =
           Cardinality(Units(S)) + Cardinality(Units(T)) - Cardinality({})
  BY <1>1, <1>2, FS_Union
<1>4. Units(S) \cup Units(T) \in SUBSET Units(Replica) BY Zenon DEF Units
<1>5. Cardinality(Units(S) \cup Units(T)) <= Cardinality(Units(Replica))
  BY Zenon, <1>1, <1>4, FS_Subset
<1> QED BY <1>1, <1>3, <1>5, FS_EmptySet DEF Weight, total_weight

\* weight_threshold_ is more than half of the total weight, so signers that are
\* disjoint from a quorum never reach it.
LEMMA ThresholdType ==
  /\ total_weight \in Nat
  /\ weight_threshold \in Nat \ {0}
  /\ 2 * weight_threshold > total_weight
<1>1. total_weight \in Nat BY Zenon, WeightType DEF total_weight
<1> QED BY <1>1 DEF weight_threshold

\* Two quorums of certificates share a signer: floor(2W/3)+1 "prevents forks"
\* for every assignment of weights, not only for those BuildWeights returns.
THEOREM QuorumIntersection ==
  ASSUME NEW S \in SUBSET Replica, NEW T \in SUBSET Replica, IsQuorum(S), IsQuorum(T)
  PROVE  S \cap T # {}
<1>1. SUFFICES ASSUME S \cap T = {} PROVE FALSE
  BY Zenon
<1>2. Weight(S) \in Nat /\ Weight(T) \in Nat BY Zenon, WeightType
<1> QED BY <1>1, <1>2, WeightDisjoint, ThresholdType DEF IsQuorum

\* A quorum is not empty.
LEMMA QuorumNonempty == ~IsQuorum({})
BY WeightEmpty, ThresholdType DEF IsQuorum

\* ceil(t/m) as VerifyQC computes it is the least k with t <= m*k.
LEMMA CeilingBound ==
  ASSUME NEW t \in Nat, NEW m \in Nat \ {0}, NEW k \in Nat, t <= m * k
  PROVE  (t + m - 1) \div m <= k
<1> DEFINE q == (t + m - 1) \div m
<1>1. q \in Nat /\ m * q <= t + m - 1
  OBVIOUS
<1>2. SUFFICES ASSUME q >= k + 1 PROVE FALSE
  BY <1>1
<1>3. m * (k + 1) <= m * q
  BY <1>1, <1>2
<1>4. m * (k + 1) = m * k + m
  OBVIOUS
<1> HIDE DEF q
<1>5. m * q \in Int /\ m * k \in Int
  BY <1>1
<1> QED BY <1>1, <1>3, <1>4, <1>5

\* Every QC that ReceiveCertificate forms by weight passes the signature count
\* of VerifyQC.
THEOREM QuorumHasEnoughSignatures ==
  ASSUME NEW S \in SUBSET Replica, IsQuorum(S)
  PROVE  Cardinality(S) >= min_sigs
<1>1. Weight(S) \in Nat /\ Weight(S) <= max_weight * Cardinality(S) /\ IsFiniteSet(S)
  BY Zenon, WeightType
<1>2. Cardinality(S) \in Nat BY Zenon, <1>1, FS_CardinalityType
<1>3. max_weight * Cardinality(S) \in Nat BY <1>2, MaxWeight
<1>4. weight_threshold <= max_weight * Cardinality(S)
  BY <1>1, <1>3, ThresholdType DEF IsQuorum
<1>5. (weight_threshold + max_weight - 1) \div max_weight <= Cardinality(S)
  BY Zenon, <1>2, <1>4, MaxWeight, ThresholdType, CeilingBound
<1> QED BY Zenon, <1>2, <1>5, MaxWeight, ThresholdType DEF min_sigs

-----------------------------------------------------------------------------
(* Positions and QCs *)

\* What a known QC is: either none, or the certificate of a sent proposal.
LEMMA KnownType ==
  ASSUME TypeOK, NEW a, KnownQC(a)
  PROVE  /\ a \in QC /\ a.hash \in 0..last
         /\ a.hash = 0 <=> a = NoQC
         /\ a.hash # 0 => /\ a.hash \in Sent /\ Certified(a.hash)
                          /\ a.view = proposals[a.hash].view /\ a.slot = proposals[a.hash].slot
                          /\ a.signatures = certified[a.hash]
         /\ a.view = 0 <=> a.hash = 0
<1>1. CASE a = NoQC
  BY <1>1, ProtocolAssumption DEF NoQC, QC, last, TypeOK, Sent
<1>2. CASE a # NoQC
  <2>0. /\ a.hash \in Sent /\ Certified(a.hash)
        /\ a = [hash |-> a.hash, view |-> proposals[a.hash].view, slot |-> proposals[a.hash].slot,
                is_final |-> proposals[a.hash].is_final, signatures |-> certified[a.hash]]
    BY Zenon, <1>2 DEF KnownQC, IsQcOf, Sent, Certified
  <2>1. a.hash \in Hash /\ proposals[a.hash] \in Proposal
    BY <2>0, ProtocolAssumption DEF TypeOK, Sent, Hash
  <2>2. certified[a.hash] \in SUBSET Replica BY Zenon, <2>1 DEF TypeOK
  <2>3. a \in QC /\ a.view >= 1
    BY <2>0, <2>1, <2>2, ProtocolAssumption DEF QC, Proposal, Hash
  <2> QED BY <2>0, <2>1, <2>3, ProtocolAssumption DEF Hash, Sent, last, NoQC, QC
<1> QED BY Zenon, <1>1, <1>2

\* A known QC stays known while proposals and certificates are only added.
LEMMA KnownGrows ==
  ASSUME NEW a, NEW ps, NEW ps2, NEW cert, NEW cert2, IsQcOf(a, ps, cert),
         \A h \in 1..Len(ps) : /\ h \in 1..Len(ps2) /\ ps2[h] = ps[h]
                               /\ cert[h] # {} => cert2[h] = cert[h]
  PROVE  IsQcOf(a, ps2, cert2)
BY Zenon DEF IsQcOf

\* Known QCs are ordered by the order in which their proposals were generated.
LEMMA KnownOrder ==
  ASSUME TypeOK, ChainInv, NEW a, NEW b, KnownQC(a), KnownQC(b)
  PROVE  /\ NotAfter(a, b) <=> a.hash <= b.hash
         /\ Before(a, b) <=> a.hash < b.hash
<1>1. /\ a \in QC /\ b \in QC /\ a.hash \in Nat /\ b.hash \in Nat
      /\ a.view = 0 <=> a.hash = 0
      /\ b.view = 0 <=> b.hash = 0
      /\ a.view \in Nat /\ b.view \in Nat /\ a.slot \in Nat /\ b.slot \in Nat
  BY KnownType DEF QC, Hash
<1>2. CASE a.hash = 0 \/ b.hash = 0
  <2>1. (a.hash = 0 => a.slot = 0) /\ (b.hash = 0 => b.slot = 0)
    BY KnownType DEF NoQC
  <2> QED BY <1>1, <1>2, <2>1 DEF NotAfter, Before
<1>3. CASE a.hash # 0 /\ b.hash # 0
  <2>1. /\ a.hash \in Sent /\ b.hash \in Sent
        /\ a.view = proposals[a.hash].view /\ a.slot = proposals[a.hash].slot
        /\ b.view = proposals[b.hash].view /\ b.slot = proposals[b.hash].slot
    BY Zenon, <1>3, KnownType
  <2>2. /\ a.hash < b.hash => Before(proposals[a.hash], proposals[b.hash])
        /\ b.hash < a.hash => Before(proposals[b.hash], proposals[a.hash])
    BY Zenon, <2>1 DEF ChainInv, NoFork
  <2> QED BY <1>1, <2>1, <2>2 DEF NotAfter, Before
<1> QED BY Zenon, <1>2, <1>3

\* A certificate that is known has enough signatures for VerifyQC.
LEMMA KnownVerifies ==
  ASSUME TypeOK, CountInv, NEW a, KnownQC(a), a.hash # 0
  PROVE  VerifyQC(a)
<1>1. /\ a.hash \in Hash /\ IsQuorum(certified[a.hash]) /\ a.signatures = certified[a.hash]
      /\ certified[a.hash] \in SUBSET Replica
  <2>1. a.hash \in Sent /\ Certified(a.hash) /\ a.signatures = certified[a.hash] BY Zenon, KnownType
  <2>2. a.hash \in Hash BY <2>1, ProtocolAssumption DEF Sent, Hash, TypeOK
  <2> QED BY Zenon, <2>1, <2>2 DEF CountInv, TypeOK
<1> QED BY Zenon, <1>1, QuorumHasEnoughSignatures DEF VerifyQC

-----------------------------------------------------------------------------
(* The initial state and the actions that move the token *)

\* The invariant holds when every replica has just been constructed.
LEMMA InitInv == Init => IndInv
<1> SUFFICES ASSUME Init PROVE IndInv BY Zenon
<1> USE DEF Init
<1>1. last = 0 /\ Sent = {} BY DEF last, Sent
<1>2. NoQC \in QC /\ 1 \in View BY ProtocolAssumption DEF NoQC, QC, View
<1>3. TypeOK
  <2>1. /\ proposals \in Seq(Proposal) /\ Len(proposals) <= MaxProposals
        /\ commit_q \in [Replica -> Seq([hash : Hash, next_primary : SUBSET Replica])]
    BY ProtocolAssumption
  <2>2. /\ ready \in [Replica -> BOOLEAN]
        /\ min_done \in [Replica -> [view : 0..MaxProposals, slot : 0..MaxProposals]]
    BY ProtocolAssumption DEF IsLeader
  <2> QED BY Zenon, <1>2, <2>1, <2>2, ProtocolAssumption DEF TypeOK
<1>4. TokenInv
  <2>1. OneProposer BY Zenon DEF OneProposer, IsLeader
  <2>2. \A r \in Replica : /\ ready[r] => IsLeader(r, round[r]) /\ AtNextPosition(r)
                           /\ pc[r] # "send" /\ slot[r] = 0
    BY Zenon, <1>1 DEF AtNextPosition, IsLeader
  <2> QED BY <1>1, <2>1, <2>2 DEF TokenInv
<1>5. KnownQC(NoQC) /\ NotAfter(NoQC, NoQC) BY DEF KnownQC, IsQcOf, NotAfter, NoQC
<1>6. ChainInv BY <1>1, <1>5 DEF ChainInv, NoFork, LinearChain
<1>7. VoteInv BY Zenon DEF VoteInv
<1>8. CountInv BY Zenon, <1>1, WeightEmpty DEF CountInv, Certified
<1>9. CommitInv BY DEF CommitInv
<1>10. OrderInv
  <2>1. \A r \in Replica : Handled(r) = {} /\ CommittedBy(r) = {} /\ DOMAIN commit_q[r] = {}
    BY <1>1 DEF Handled, CommittedBy
  <2> QED BY Zenon, <2>1 DEF OrderInv, ReplicaOrder, LosesOnlyBypassed
<1> QED BY Zenon, <1>3, <1>4, <1>6, <1>7, <1>8, <1>9, <1>10 DEF IndInv

\* What the parts of the invariant that speak of the proposals depend on.
LEMMA ChainFrame ==
  ASSUME ChainInv,
         UNCHANGED <<proposals, certified, round, generic_qc, lock_qc>>
  PROVE  ChainInv'
<1>1. NoFork' BY SMTT(30) DEF ChainInv, NoFork, Certified, Sent, Before
<1> QED BY Zenon, <1>1 DEF ChainInv, LinearChain, IsLeader, Sent, last, NotAfter, KnownQC

\* What CountInv depends on: only ReceiveCertificate changes it.
LEMMA CountFrame ==
  ASSUME CountInv, UNCHANGED <<proposals, certified, receive, received_weight>>
  PROVE  CountInv'
BY Zenon DEF CountInv, Certified, Sent, Collector, NextLeader

\* What VoteInv depends on: proposals, votes and counts under way.
LEMMA VoteFrame ==
  ASSUME VoteInv, UNCHANGED <<proposals, votes, verifying, inbox, receive, certified>>
  PROVE  VoteInv'
BY Zenon DEF VoteInv, Sent, Collector, NextLeader

\* What CommitInv depends on: only ReceiveProposal stores and commits.
LEMMA CommitFrame ==
  ASSUME CommitInv, UNCHANGED <<proposals, certified, inbox, local_block, commit_q>>
  PROVE  CommitInv'
BY Zenon DEF CommitInv, Certified, Sent, NextLeader

\* What OrderInv depends on: what every replica has handled, stored and
\* committed; a proposal that arrives is not older than what was handled.
LEMMA OrderKept ==
  ASSUME OrderInv, UNCHANGED <<local_block, commit_q, lock_qc, bypassed>>,
         \A q \in Replica :
           /\ Handled(q)' = Handled(q)
           /\ \A g \in inbox'[q] : g \in inbox[q] \/ \A h \in Handled(q) : ~(g < h)
  PROVE  OrderInv'
<1> SUFFICES ASSUME ForkTail = {}, NEW q \in Replica PROVE ReplicaOrder(q)' BY Zenon DEF OrderInv
<1>1. ReplicaOrder(q) BY Zenon DEF OrderInv
<1>2. CommittedBy(q)' = CommittedBy(q) /\ Handled(q)' = Handled(q) BY Zenon DEF CommittedBy
<1>3. LosesOnlyBypassed(q)' BY Zenon, <1>1, <1>2 DEF ReplicaOrder, LosesOnlyBypassed
<1> QED BY Zenon, <1>1, <1>2, <1>3 DEF ReplicaOrder

\* The same for a step that leaves the inboxes alone.
LEMMA OrderFrame ==
  ASSUME OrderInv, UNCHANGED <<proposals, inbox, local_block, commit_q, lock_qc, bypassed>>,
         \A h \in Hash : InFlight(h)' <=> InFlight(h), TypeOK
  PROVE  OrderInv'
<1>1. Sent \in SUBSET Hash BY ProtocolAssumption DEF TypeOK, Sent, Hash
<1>2. \A q \in Replica : Handled(q)' = Handled(q) BY Zenon, <1>1 DEF Handled, Sent
<1> QED BY Zenon, <1>2, OrderKept

\* What TokenInv depends on; votes may only disappear.
LEMMA TokenFrame ==
  ASSUME TokenInv,
         UNCHANGED <<proposals, pc, outgoing, slot, ready, round, generic_qc, inbox,
                     local_block, receive, certified>>,
         votes' \cup verifying' \in SUBSET (votes \cup verifying)
  PROVE  TokenInv'
BY Zenon DEF TokenInv, OneProposer, AtNextPosition, IsLeader, Certified, last, Collector, NextLeader

\* A crash changes nothing that the invariant speaks of.
LEMMA CrashInv ==
  ASSUME IndInv, NEW r \in Replica, Crash(r)
  PROVE  IndInv'
<1> USE DEF Crash, managerVars, senderVars, collectVars
<1>1. TypeOK' BY Zenon DEF IndInv, TypeOK
<1>2. \A h \in Hash : InFlight(h)' <=> InFlight(h) BY Zenon DEF InFlight, last
<1> QED BY Zenon, <1>1, <1>2, ChainFrame, CountFrame, VoteFrame, CommitFrame, OrderFrame,
           TokenFrame DEF IndInv

\* Leaving the wait loop: the replica is the ready one.
LEMMA WaitReadyInv ==
  ASSUME IndInv, NEW r \in Replica, WaitReady(r)
  PROVE  IndInv'
<1> USE DEF WaitReady, managerVars, collectVars
<1>1. TypeOK' BY Zenon DEF IndInv, TypeOK
<1>2. \A q \in Replica : (pc'[q] = "send" <=> pc[q] = "send")
  BY Zenon DEF IndInv, TypeOK
<1>3. \A h \in Hash : InFlight(h)' <=> InFlight(h) BY Zenon, <1>2 DEF InFlight, last
<1>4. \A q \in Replica : pc'[q] # "wait" => ready[q]
  BY DEF IndInv, TypeOK, TokenInv, OneProposer, Ready
<1>5. TokenInv'
  BY <1>2, <1>4 DEF IndInv, TokenInv, OneProposer, AtNextPosition, IsLeader, Certified, last,
     Collector, NextLeader
<1> QED BY Zenon, <1>1, <1>3, <1>5, ChainFrame, CountFrame, VoteFrame, CommitFrame, OrderFrame
        DEF IndInv

\* The proposer extends the chain at the next position.
LEMMA BuildInv ==
  ASSUME IndInv, NEW r \in Replica, NEW is_final \in BOOLEAN, BuildProposal(r, is_final)
  PROVE  IndInv'
<1> DEFINE p == [view |-> round[r], slot |-> slot[r], is_final |-> is_final,
                 qc |-> generic_qc[r], sender |-> r]
<1>0. /\ pc[r] = "build" /\ Len(proposals) < MaxProposals
      /\ proposals' = Append(proposals, p)
      /\ slot' = [slot EXCEPT ![r] = IF is_final THEN 0 ELSE @ + 1]
      /\ outgoing' = [outgoing EXCEPT ![r] = Len(proposals) + 1]
      /\ pc' = [pc EXCEPT ![r] = "send"]
      /\ UNCHANGED <<round, generic_qc, lock_qc, local_block, receive, received_weight,
                     min_done, qc_done, certified, inbox, votes, verifying, ready,
                     commit_q, bypassed, crashed>>
  BY Zenon DEF BuildProposal, managerVars, collectVars
<1>t. TypeOK /\ TokenInv /\ ChainInv /\ VoteInv /\ CountInv /\ CommitInv /\ OrderInv
  BY Zenon DEF IndInv
<1>1. /\ ready[r] /\ IsLeader(r, round[r]) /\ AtNextPosition(r)
      /\ \A q \in Replica : q # r => ~ready[q] /\ pc[q] = "wait"
  BY <1>0, <1>t DEF TokenInv, OneProposer, TypeOK
<1>2. last \in Nat /\ MaxProposals \in Nat /\ last < MaxProposals /\ Sent = 1..last
  BY <1>0, <1>t, ProtocolAssumption DEF TypeOK, last, Sent
<1>3. slot[r] \in 0..last /\ round[r] \in 1..(last + 1)
  <2>1. round[r] \in 1..(last + 1) BY <1>t, <1>2 DEF ChainInv, TypeOK, View
  <2>2. CASE last > 0 /\ proposals[last].sender = r /\ ~proposals[last].is_final
    <3>1. last \in Sent /\ proposals[last] \in Proposal BY <1>2, <1>t, <2>2 DEF TypeOK, last
    <3>2. slot[r] = proposals[last].slot + 1 /\ proposals[last].slot < last
      BY Zenon, <1>t, <2>2, <3>1 DEF TokenInv, ChainInv
    <3> QED BY <1>2, <2>1, <3>1, <3>2 DEF Proposal
  <2>3. CASE ~(last > 0 /\ proposals[last].sender = r /\ ~proposals[last].is_final)
    <3>1. slot[r] = 0 BY Zenon, <1>t, <2>3 DEF TokenInv
    <3> QED BY SMTT(30), <1>2, <2>1, <3>1
  <2> QED BY Zenon, <2>2, <2>3
<1>4. p \in Proposal
  BY SMTT(30), <1>t, <1>2, <1>3, ProtocolAssumption DEF TypeOK, Proposal
<1> HIDE DEF p
<1>5. /\ last' = last + 1 /\ Sent' = 1..(last + 1)
      /\ \A h \in Sent : proposals'[h] = proposals[h]
      /\ proposals'[last + 1] = p
      /\ proposals' \in Seq(Proposal)
  BY SMTT(30), <1>0, <1>t, <1>2, <1>4 DEF TypeOK, last, Sent
<1>6. /\ p.view = round[r] /\ p.slot = slot[r] /\ p.is_final = is_final
      /\ p.qc = generic_qc[r] /\ p.sender = r
  BY Zenon DEF p
<1>7. \A h \in Sent : Collector(h)' = Collector(h)
  BY Zenon, <1>5 DEF Collector, NextLeader
<1>8. \A a : KnownQC(a) => IsQcOf(a, proposals', certified')
  <2>1. \A h \in 1..Len(proposals) : /\ h \in 1..Len(proposals') /\ proposals'[h] = proposals[h]
                                     /\ certified[h] # {} => certified'[h] = certified[h]
    BY <1>0, <1>2, <1>5 DEF last, Sent
  <2> QED BY Zenon, <2>1, KnownGrows DEF KnownQC
<1>9. ~Certified(last + 1) /\ last + 1 \in Hash /\ last + 1 \notin Sent
  BY <1>t, <1>2 DEF CountInv, Hash
<1>10. TypeOK'
  <2>1. Len(proposals)' <= MaxProposals BY <1>2, <1>5 DEF last
  <2>2. slot' \in [Replica -> 0..MaxProposals]
    BY <1>0, <1>t, <1>2, <1>3 DEF TypeOK
  <2>3. /\ outgoing' \in [Replica -> 0..MaxProposals]
        /\ pc' \in [Replica -> {"wait", "build", "send"}]
    BY <1>0, <1>t, <1>2 DEF TypeOK, last
  <2> QED BY Zenon, <1>0, <1>t, <1>5, <2>1, <2>2, <2>3 DEF TypeOK
<1>11. last > 0 => /\ Certified(last) /\ r = Collector(last) /\ last \in Sent
                   /\ Before(proposals[last], p)
  <2> SUFFICES ASSUME last > 0
      PROVE  Certified(last) /\ r = Collector(last) /\ last \in Sent /\ Before(proposals[last], p)
    BY Zenon
  <2>1. last \in Sent /\ proposals[last] \in Proposal BY <1>2, <1>t DEF TypeOK, last
  <2>2. /\ Certified(last) /\ r = Collector(last)
        /\ round[r] = IF proposals[last].is_final THEN proposals[last].view + 1
                      ELSE proposals[last].view
    BY SMTT(30), <1>1, <1>2 DEF AtNextPosition
  <2>3. ~proposals[last].is_final => slot[r] = proposals[last].slot + 1
    BY Zenon, <1>t, <2>1, <2>2 DEF TokenInv, Collector
  <2> QED BY <1>6, <2>1, <2>2, <2>3 DEF Before, Proposal
<1>12. ChainInv'
  <2>1. NoFork'
    <3> SUFFICES ASSUME NEW g \in 1..(last + 1), NEW h \in 1..(last + 1), g < h
        PROVE  Certified(g) /\ Before(proposals'[g], proposals'[h])
      BY Zenon, <1>0, <1>5 DEF NoFork, Certified, Before
    <3>1. CASE h <= last
      <4>1. g \in Sent /\ h \in Sent BY <1>2, <3>1
      <4>2. proposals'[g] = proposals[g] /\ proposals'[h] = proposals[h] BY Zenon, <1>5, <4>1
      <4>3. Certified(g) /\ Before(proposals[g], proposals[h]) BY Zenon, <1>t, <4>1 DEF ChainInv, NoFork
      <4> QED BY Zenon, <4>2, <4>3
    <3>2. CASE h = last + 1
      <4>1. g \in Sent /\ last > 0 /\ last \in Sent BY <1>2, <3>2
      <4>2. g < last => Certified(g) /\ Before(proposals[g], proposals[last])
        BY Zenon, <1>t, <4>1 DEF ChainInv, NoFork
      <4>3. proposals[g] \in Proposal /\ proposals[last] \in Proposal
        BY <1>t, <4>1 DEF TypeOK, Sent
      <4>4. proposals'[g] = proposals[g] /\ proposals'[h] = p BY Zenon, <1>5, <3>2, <4>1
      <4>5. CASE g = last BY Zenon, <1>11, <4>1, <4>4, <4>5
      <4>6. CASE g < last
        <5>1. Before(proposals[g], proposals[last]) /\ Before(proposals[last], p)
          BY Zenon, <1>11, <4>1, <4>2, <4>6
        <5>2. Before(proposals[g], p) BY <1>4, <4>3, <5>1 DEF Before, Proposal
        <5> QED BY Zenon, <4>2, <4>4, <4>6, <5>2
      <4> QED BY <1>2, <4>1, <4>5, <4>6
    <3> QED BY <1>2, <3>1, <3>2
  <2>2. IsQcOf(p.qc, proposals', certified') /\ p.qc.hash < last + 1
    <3>1. KnownQC(generic_qc[r]) BY Zenon, <1>t DEF ChainInv
    <3>2. generic_qc[r].hash \in 0..last BY Zenon, <1>t, <3>1, KnownType
    <3> QED BY <1>2, <1>6, <1>8, <3>1, <3>2
  <2>3. LinearChain'
    <3>1. ForkTail = {} => generic_qc[r].hash = last
      <4>1. CASE last = 0
        <5>1. KnownQC(generic_qc[r]) BY Zenon, <1>t DEF ChainInv
        <5>2. generic_qc[r].hash \in 0..last BY Zenon, <1>t, <5>1, KnownType
        <5> QED BY <4>1, <5>2
      <4>2. CASE last # 0 BY Zenon, <1>1, <4>2 DEF AtNextPosition
      <4> QED BY Zenon, <4>1, <4>2
    <3> QED BY <1>2, <1>5, <1>6, <1>t, <3>1 DEF LinearChain, ChainInv
  <2>4. last + 1 = 1 => p.view = 1
    BY <1>1, <1>2, <1>6 DEF AtNextPosition
  <2>5. \A h \in 1..(last + 1) :
          /\ proposals'[h].view <= h /\ proposals'[h].slot < h
          /\ proposals'[h].qc.hash < h /\ IsQcOf(proposals'[h].qc, proposals', certified')
          /\ IsLeader(proposals'[h].sender, proposals'[h].view)
          /\ h = 1 => proposals'[h].view = 1
    <3> SUFFICES ASSUME NEW h \in 1..(last + 1)
        PROVE  /\ proposals'[h].view <= h /\ proposals'[h].slot < h
               /\ proposals'[h].qc.hash < h /\ IsQcOf(proposals'[h].qc, proposals', certified')
               /\ IsLeader(proposals'[h].sender, proposals'[h].view)
               /\ h = 1 => proposals'[h].view = 1
      BY Zenon
    <3>1. CASE h <= last
      <4>1. h \in Sent /\ proposals'[h] = proposals[h] BY <1>2, <1>5, <3>1
      <4>2. /\ proposals[h].view <= h /\ proposals[h].slot < h /\ proposals[h].qc.hash < h
            /\ KnownQC(proposals[h].qc) /\ IsLeader(proposals[h].sender, proposals[h].view)
            /\ h = 1 => proposals[h].view = 1
        BY Zenon, <1>t, <4>1 DEF ChainInv
      <4> QED BY Zenon, <1>8, <4>1, <4>2
    <3>2. CASE h = last + 1
      BY SMTT(30), <1>1, <1>2, <1>3, <1>5, <1>6, <2>2, <2>4, <3>2
    <3> QED BY <1>2, <3>1, <3>2
  <2>6. \A q \in Replica :
          /\ round[q] <= last + 2
          /\ IsQcOf(generic_qc[q], proposals', certified')
          /\ IsQcOf(lock_qc[q], proposals', certified') /\ lock_qc[q].hash < last + 1
          /\ NotAfter(lock_qc[q], generic_qc[q])
    <3> SUFFICES ASSUME NEW q \in Replica
        PROVE  /\ round[q] <= last + 2
               /\ IsQcOf(generic_qc[q], proposals', certified')
               /\ IsQcOf(lock_qc[q], proposals', certified') /\ lock_qc[q].hash < last + 1
               /\ NotAfter(lock_qc[q], generic_qc[q])
      BY Zenon
    <3>1. /\ KnownQC(generic_qc[q]) /\ KnownQC(lock_qc[q]) /\ NotAfter(lock_qc[q], generic_qc[q])
          /\ round[q] <= last + 1 /\ round[q] \in Nat
      <4>1. round[q] \in Nat BY SMTT(30), <1>t DEF TypeOK, View
      <4> QED BY Zenon, <1>t, <4>1 DEF ChainInv
    <3>2. lock_qc[q].hash \in 0..last BY Zenon, <1>t, <3>1, KnownType
    <3> QED BY <1>2, <1>8, <3>1, <3>2
  <2>7. \A h \in Sent' : /\ proposals'[h].view <= h /\ proposals'[h].slot < h
                         /\ proposals'[h].qc.hash < h
                         /\ KnownQC(proposals[h].qc)'
                         /\ IsLeader(proposals[h].sender, proposals[h].view)'
                         /\ h = 1 => proposals'[h].view = 1
    BY Zenon, <1>5, <2>5 DEF KnownQC, IsLeader
  <2>8. \A q \in Replica : /\ round'[q] <= last' + 1
                           /\ KnownQC(generic_qc[q])' /\ KnownQC(lock_qc[q])'
                           /\ (last' > 0 => lock_qc'[q].hash < last')
                           /\ NotAfter(lock_qc[q], generic_qc[q])'
    <3>1. UNCHANGED <<round, generic_qc, lock_qc>> BY Zenon, <1>0
    <3>2. last' = last + 1 BY Zenon, <1>5
    <3>3. \A q \in Replica : round'[q] <= last' + 1 /\ lock_qc'[q].hash < last'
      <4>1. \A q \in Replica : round[q] <= last + 2 /\ lock_qc[q].hash < last + 1 BY Zenon, <2>6
      <4>2. (last + 1) + 1 = last + 2 BY SMTT(30), <1>2
      <4> QED BY Zenon, <3>1, <3>2, <4>1, <4>2
    <3> QED BY Zenon, <2>6, <3>1, <3>3 DEF KnownQC, NotAfter
  <2> QED BY Zenon, <2>1, <2>3, <2>7, <2>8 DEF ChainInv
<1>13. TokenInv'
  <2>1. OneProposer'
    BY <1>0, <1>1, <1>t DEF TokenInv, OneProposer, TypeOK
  <2>2. \A q \in Replica : ~(ready'[q] /\ pc'[q] # "send")
    BY Zenon, <1>0, <1>1, <1>t DEF TypeOK
  <2>3. \A q \in Replica : pc'[q] = "send" => q = r
    BY Zenon, <1>0, <1>1, <1>t DEF TypeOK
  <2>4. /\ last' > 0 /\ outgoing'[r] = last' /\ proposals'[last'].sender = r
        /\ ~Certified(last + 1)
        /\ \A q \in Replica : /\ last + 1 \notin inbox[q] /\ last + 1 \notin local_block[q]
                              /\ receive[q][last + 1] = {}
        /\ \A c \in votes \cup verifying : c.hash # last + 1
    <3>1. /\ last' > 0 /\ outgoing'[r] = last' /\ proposals'[last'].sender = r
      BY SMTT(30), <1>0, <1>2, <1>5, <1>6, <1>t DEF TypeOK, last
    <3>2. \A q \in Replica : last + 1 \notin inbox[q] BY Zenon, <1>9, <1>t DEF VoteInv
    <3>3. \A q \in Replica : last + 1 \notin local_block[q] BY Zenon, <1>9, <1>t DEF CommitInv
    <3>4. \A q \in Replica : receive[q][last + 1] = {} BY Zenon, <1>9, <1>t DEF CountInv
    <3>5. \A c \in votes \cup verifying : c.hash # last + 1 BY Zenon, <1>9, <1>t DEF VoteInv
    <3> QED BY Zenon, <1>9, <3>1, <3>2, <3>3, <3>4, <3>5
  <2>5. \A q \in Replica :
          slot'[q] = IF q = r /\ ~is_final THEN slot[r] + 1 ELSE 0
    <3>1. \A q \in Replica : q # r => slot[q] = 0
      BY Zenon, <1>2, <1>11, <1>t DEF TokenInv, Collector
    <3> QED BY Zenon, <1>0, <1>t, <3>1 DEF TypeOK
  <2>6. \A q \in Replica :
       slot'[q] = IF last' > 0 /\ proposals'[last'].sender = q /\ ~proposals'[last'].is_final
                  THEN proposals'[last'].slot + 1 ELSE 0
    BY <1>2, <1>5, <1>6, <2>5
  <2>7. round'[proposals'[last'].sender] = proposals'[last'].view
    BY Zenon, <1>0, <1>5, <1>6
  <2>8. UNCHANGED <<certified, inbox, local_block, receive, votes, verifying>> /\ last' = last + 1
    BY Zenon, <1>0, <1>5
  <2>9. \A q \in Replica : pc'[q] = "send" =>
       /\ last' > 0 /\ outgoing'[q] = last' /\ proposals'[last'].sender = q
       /\ ~Certified(last)'
       /\ \A s \in Replica : /\ last' \notin inbox'[s] /\ last' \notin local_block'[s]
                             /\ receive'[s][last'] = {}
       /\ \A c \in votes' \cup verifying' : c.hash # last'
    BY Zenon, <2>3, <2>4, <2>8 DEF Certified
  <2> QED BY Zenon, <2>1, <2>2, <2>6, <2>7, <2>9 DEF TokenInv
<1>14. VoteInv'
  BY SMTT(30), <1>0, <1>2, <1>5, <1>7, <1>t DEF VoteInv
<1>15. CountInv'
  <2>1. \A h \in Hash : Certified(h)' => h \in Sent' /\ IsQuorum(certified'[h])
    BY SMTT(30), <1>0, <1>2, <1>5, <1>t DEF CountInv, Certified
  <2>2. \A q \in Replica, h \in Hash : /\ received_weight'[q][h] = Weight(receive'[q][h])
                                       /\ receive'[q][h] # {} => h \in Sent'
    <3>1. \A h \in Sent : h \in Sent' BY <1>2, <1>5
    <3>2. receive' = receive /\ received_weight' = received_weight BY Zenon, <1>0
    <3> QED BY Zenon, <1>t, <3>1, <3>2 DEF CountInv
  <2>3. \A h \in Sent' : Certified(h)' =>
          \/ IsQuorum(receive'[Collector(h)'][h])
          \/ receive'[Collector(h)'][h] \cap certified'[h] = {}
    BY <1>0, <1>2, <1>5, <1>7, <1>9, <1>t DEF CountInv, Certified
  <2> QED BY Zenon, <2>1, <2>2, <2>3 DEF CountInv
<1>16. CommitInv'
  <2>1. \A h \in Sent : h \in Sent' /\ proposals'[h] = proposals[h] BY <1>2, <1>5
  <2>2. /\ UNCHANGED <<inbox, local_block, commit_q, certified>> BY Zenon, <1>0
  <2>3. \A q \in Replica : \A i \in DOMAIN commit_q[q] :
          ForkTail = {} =>
            /\ commit_q[q][i].hash + 1 \in Sent'
            /\ commit_q[q][i].next_primary =
                 IF proposals'[commit_q[q][i].hash + 1].is_final
                 THEN {NextLeader(proposals'[commit_q[q][i].hash + 1].view)} ELSE {}
    BY Zenon, <1>t, <2>1 DEF CommitInv
  <2> QED BY Zenon, <1>t, <2>1, <2>2, <2>3 DEF CommitInv, Certified, NextLeader
<1>17. OrderInv'
  <2>1. \A h \in Sent : ~InFlight(h) BY Zenon, <1>0, <1>1 DEF InFlight
  <2>2. \A h \in Sent' : InFlight(h)' <=> h = last + 1
    BY Zenon, <1>0, <1>5, <1>t DEF InFlight, TypeOK, last
  <2>3. \A h : h \in Sent' <=> h \in Sent \/ h = last + 1 BY <1>2, <1>5
  <2>4. \A h \in Sent : h # last + 1 BY <1>2
  <2>5. \A q \in Replica : Handled(q)' = Handled(q)
    BY Zenon, <1>0, <2>1, <2>2, <2>3, <2>4 DEF Handled
  <2> QED BY Zenon, <1>0, <1>t, <2>5, OrderKept
<1> QED BY Zenon, <1>10, <1>12, <1>13, <1>14, <1>15, <1>16, <1>17 DEF IndInv

\* The broadcast: the proposal in flight reaches every inbox, nobody is ready.
LEMMA SendInv ==
  ASSUME IndInv, NEW r \in Replica, SendProposal(r)
  PROVE  IndInv'
<1>0. /\ pc[r] = "send"
      /\ ready' = [ready EXCEPT ![r] = FALSE]
      /\ inbox' = [q \in Replica |-> inbox[q] \cup {outgoing[r]}]
      /\ outgoing' = [outgoing EXCEPT ![r] = 0]
      /\ pc' = [pc EXCEPT ![r] = "wait"]
      /\ UNCHANGED <<proposals, slot, round, generic_qc, lock_qc, local_block, receive,
                     received_weight, min_done, qc_done, certified, votes, verifying,
                     commit_q, bypassed, crashed>>
  BY Zenon DEF SendProposal, managerVars, collectVars
<1>t. TypeOK /\ TokenInv /\ ChainInv /\ VoteInv /\ CountInv /\ CommitInv /\ OrderInv
  BY Zenon DEF IndInv
<1>1. /\ last > 0 /\ outgoing[r] = last /\ ~Certified(last)
      /\ \A q \in Replica : /\ last \notin inbox[q] /\ last \notin local_block[q]
                            /\ receive[q][last] = {}
      /\ \A c \in votes \cup verifying : c.hash # last
  BY Zenon, <1>0, <1>t DEF TokenInv
<1>2. /\ last \in Sent /\ last \in Hash /\ last' = last /\ Sent' = Sent
  BY <1>0, <1>1, <1>t, ProtocolAssumption DEF last, Sent, Hash, TypeOK
<1>3. \A q \in Replica : ready'[q] = FALSE /\ pc'[q] = "wait"
  <2>1. \A q \in Replica : q # r => ~ready[q] /\ pc[q] = "wait"
    BY Zenon, <1>0, <1>t DEF TokenInv, OneProposer
  <2>2. ready'[r] = FALSE /\ pc'[r] = "wait" BY Zenon, <1>0, <1>t DEF TypeOK
  <2>3. \A q \in Replica : q # r => ready'[q] = ready[q] /\ pc'[q] = pc[q]
    BY Zenon, <1>0, <1>t DEF TypeOK
  <2>4. \A q \in Replica : ready[q] \in BOOLEAN BY Zenon, <1>t DEF TypeOK
  <2> QED BY Zenon, <2>1, <2>2, <2>3, <2>4
<1>4. \A q \in Replica : inbox'[q] = inbox[q] \cup {last}
  BY Zenon, <1>0, <1>1
<1>5. TypeOK'
  <2>1. inbox' \in [Replica -> SUBSET Hash] BY Zenon, <1>0, <1>1, <1>2, <1>t DEF TypeOK
  <2>2. ready' \in [Replica -> BOOLEAN] BY Zenon, <1>0, <1>t DEF TypeOK
  <2>3. outgoing' \in [Replica -> 0..MaxProposals] BY <1>0, <1>t, ProtocolAssumption DEF TypeOK
  <2>4. pc' \in [Replica -> {"wait", "build", "send"}] BY Zenon, <1>0, <1>t DEF TypeOK
  <2> QED BY Zenon, <1>0, <1>t, <2>1, <2>2, <2>3, <2>4 DEF TypeOK
<1>6. TokenInv'
  <2>1. OneProposer' BY Zenon, <1>3 DEF OneProposer
  <2> QED BY Zenon, <1>0, <1>2, <1>3, <1>t, <2>1 DEF TokenInv
<1>7. ChainInv' BY Zenon, <1>0, <1>t, ChainFrame
<1>8. VoteInv'
  <2>1. \A h \in Sent : Collector(h)' = Collector(h) BY Zenon, <1>0 DEF Collector, NextLeader
  <2>2. certified[last] = {} BY Zenon, <1>1 DEF Certified
  <2>3. \A c \in votes \cup verifying : c.signer \in Replica BY Zenon, <1>t DEF TypeOK, Certificate
  <2> QED BY Zenon, <1>0, <1>1, <1>2, <1>4, <1>t, <2>1, <2>2, <2>3 DEF VoteInv
<1>9. CountInv' BY Zenon, <1>0, <1>t, CountFrame
<1>10. CommitInv'
  <2>1. \A q \in Replica : /\ \A h \in local_block[q] : h # last
                           /\ \A i \in DOMAIN commit_q[q] : commit_q[q][i].hash # last
    BY Zenon, <1>1, <1>t DEF CommitInv
  <2>2. UNCHANGED <<proposals, local_block, commit_q, certified>> BY Zenon, <1>0
  <2>3. \A q \in Replica : \A h \in local_block[q] : h \in Sent' /\ h \notin inbox'[q]
    BY <1>2, <1>4, <1>t, <2>1 DEF CommitInv
  <2>4. \A q \in Replica : \A i \in DOMAIN commit_q[q] : commit_q[q][i].hash \notin inbox'[q]
    <3>1. \A q \in Replica : \A i \in DOMAIN commit_q[q] : commit_q[q][i].hash \notin inbox[q]
      BY Zenon, <1>t DEF CommitInv
    <3> QED BY Zenon, <1>4, <2>1, <3>1
  <2> QED BY Zenon, <1>2, <1>t, <2>2, <2>3, <2>4 DEF CommitInv, Certified, NextLeader
<1>11. OrderInv'
  <2>1. \A h \in Sent : (InFlight(h) <=> h = last) /\ ~InFlight(h)'
    BY Zenon, <1>0, <1>3 DEF InFlight, last
  <2>2. \A q \in Replica : Handled(q)' = Handled(q)
    BY Zenon, <1>1, <1>2, <1>4, <2>1 DEF Handled
  <2>3. \A q \in Replica : \A h \in Handled(q) : ~(last < h)
    BY <1>2, <1>t DEF Handled, Sent, last, TypeOK
  <2> QED BY Zenon, <1>0, <1>4, <1>t, <2>2, <2>3, OrderKept
<1> QED BY Zenon, <1>5, <1>6, <1>7, <1>8, <1>9, <1>10, <1>11 DEF IndInv

\* The fast path only moves a certificate from one set to the other.
LEMMA CheckInv ==
  ASSUME IndInv, NEW c \in votes, CheckCertificate(c)
  PROVE  IndInv'
<1>0. /\ votes' = votes \ {c}
      /\ verifying' = verifying \/ verifying' = verifying \cup {c}
      /\ UNCHANGED <<proposals, pc, outgoing, slot, round, generic_qc, lock_qc, local_block,
                     receive, received_weight, min_done, qc_done, certified, inbox, ready,
                     commit_q, bypassed, crashed>>
  BY Zenon DEF CheckCertificate, senderVars, managerVars, collectVars
<1>1. TypeOK' BY Zenon, <1>0 DEF IndInv, TypeOK
<1>2. votes' \cup verifying' \in SUBSET (votes \cup verifying) BY Zenon, <1>0
<1>3. VoteInv'
  <2>1. VoteInv BY Zenon DEF IndInv
  <2>2. votes' \cap verifying' = {} BY Zenon, <1>0, <2>1 DEF VoteInv
  <2>3. \A h \in Hash : Collector(h)' = Collector(h) BY Zenon, <1>0 DEF Collector, NextLeader
  <2> QED BY Zenon, <1>0, <1>2, <2>1, <2>2 DEF VoteInv, Collector, NextLeader, Sent
<1>4. \A h \in Hash : InFlight(h)' <=> InFlight(h) BY Zenon, <1>0 DEF InFlight, last
<1> QED BY Zenon, <1>0, <1>1, <1>2, <1>3, <1>4, ChainFrame, CountFrame, CommitFrame, OrderFrame,
           TokenFrame DEF IndInv

-----------------------------------------------------------------------------
(* ReceiveCertificate, second critical section *)

\* The collector of a sent proposal is a replica.
LEMMA CollectorType ==
  ASSUME TypeOK, NEW h \in Sent
  PROVE  Collector(h) \in Replica /\ h \in Hash /\ proposals[h] \in Proposal
<1>1. h \in Hash /\ proposals[h] \in Proposal
  BY ProtocolAssumption DEF TypeOK, Sent, Hash
<1> QED BY <1>1, ProtocolAssumption DEF Collector, NextLeader, Proposal, View

\* A certificate that is ignored.
LEMMA IgnoreInv ==
  ASSUME IndInv, NEW c \in verifying, verifying' = verifying \ {c},
         UNCHANGED <<senderVars, managerVars, collectVars, inbox, votes, ready, commit_q, bypassed, crashed>>
  PROVE  IndInv'
<1>0. UNCHANGED <<proposals, pc, outgoing, slot, round, generic_qc, lock_qc, local_block,
                  receive, received_weight, min_done, qc_done, certified, inbox, votes, ready,
                  commit_q, bypassed, crashed>>
  BY Zenon DEF senderVars, managerVars, collectVars
<1>1. TypeOK' BY Zenon, <1>0 DEF IndInv, TypeOK
<1>2. votes' \cup verifying' \in SUBSET (votes \cup verifying) BY Zenon, <1>0
<1>3. VoteInv' BY Zenon, <1>0, <1>2 DEF IndInv, VoteInv, Collector, NextLeader, Sent
<1>4. \A h \in Hash : InFlight(h)' <=> InFlight(h) BY Zenon, <1>0 DEF InFlight, last
<1> QED BY Zenon, <1>0, <1>1, <1>2, <1>3, <1>4, ChainFrame, CountFrame, CommitFrame, OrderFrame,
           TokenFrame DEF IndInv

\* The certificate is counted and its proposal stays below the threshold.
CountsOnly(c) ==
  LET h == c.hash
      r == Collector(h)
  IN  /\ received_weight[r][h] < weight_threshold /\ c.signer \notin receive[r][h]
      /\ received_weight[r][h] + weights[c.signer] < weight_threshold

\* The certificate is counted and takes its proposal to the threshold.
Completes(c) ==
  LET h == c.hash
      r == Collector(h)
  IN  /\ received_weight[r][h] < weight_threshold /\ c.signer \notin receive[r][h]
      /\ received_weight[r][h] + weights[c.signer] >= weight_threshold

\* What is true of a certificate about to be counted: its signer is counted
\* for the first time, and the count of a proposal that is certified already
\* holds no signer of its QC.
LEMMA CountFacts ==
  ASSUME IndInv, NEW c \in verifying,
         received_weight[Collector(c.hash)][c.hash] < weight_threshold,
         c.signer \notin receive[Collector(c.hash)][c.hash]
  PROVE  LET h == c.hash
             r == Collector(h)
             counted == receive[r][h] \cup {c.signer}
         IN  /\ h \in Sent /\ h \in Hash /\ r \in Replica /\ c.signer \in Replica
             /\ counted \in SUBSET Replica
             /\ Weight(counted) = received_weight[r][h] + weights[c.signer]
             /\ Weight(counted) \in Nat
             /\ Certified(h) => counted \cap certified[h] = {}
<1> DEFINE h == c.hash
           r == Collector(h)
           counted == receive[r][h] \cup {c.signer}
<1>t. TypeOK /\ VoteInv /\ CountInv BY Zenon DEF IndInv
<1>1. h \in Sent /\ c.signer \in Replica /\ c.signer \notin certified[h]
  BY Zenon, <1>t DEF VoteInv, TypeOK, Certificate
<1>2. r \in Replica /\ h \in Hash BY Zenon, <1>1, <1>t, CollectorType
<1>3. receive[r][h] \in SUBSET Replica BY <1>2, <1>t DEF TypeOK
<1>4. received_weight[r][h] = Weight(receive[r][h]) BY Zenon, <1>2, <1>t DEF CountInv
<1>5. Weight(counted) = Weight(receive[r][h]) + weights[c.signer]
  BY Zenon, <1>1, <1>3, WeightAdd
<1>6. counted \in SUBSET Replica BY Zenon, <1>1, <1>3
<1>7. Weight(counted) \in Nat BY Zenon, <1>6, WeightType
<1>8. Certified(h) => receive[r][h] \cap certified[h] = {}
  <2>1. ~IsQuorum(receive[r][h])
    <3>1. Weight(receive[r][h]) \in Nat BY Zenon, <1>3, WeightType
    <3> QED BY <1>4, <3>1, ThresholdType DEF IsQuorum
  <2> QED BY Zenon, <1>1, <1>t, <2>1 DEF CountInv
<1> QED BY Zenon, <1>1, <1>2, <1>4, <1>5, <1>6, <1>7, <1>8

\* Counting a signer without reaching the threshold.
LEMMA CountOneInv ==
  ASSUME IndInv, NEW c \in verifying, CollectCertificate(c), CountsOnly(c)
  PROVE  IndInv'
<1> DEFINE h == c.hash
           r == Collector(h)
           counted == receive[r][h] \cup {c.signer}
           weight == received_weight[r][h] + weights[c.signer]
<1>t. TypeOK /\ TokenInv /\ ChainInv /\ VoteInv /\ CountInv /\ CommitInv /\ OrderInv
  BY Zenon DEF IndInv
<1>1. /\ h \in Sent /\ h \in Hash /\ r \in Replica /\ c.signer \in Replica
      /\ counted \in SUBSET Replica /\ Weight(counted) = weight /\ Weight(counted) \in Nat
      /\ Certified(h) => counted \cap certified[h] = {}
  BY Zenon, CountFacts DEF CountsOnly
<1>2. ~(weight >= weight_threshold)
  <2>1. weight \in Nat BY Zenon, <1>1
  <2>2. weight < weight_threshold BY Zenon DEF CountsOnly
  <2>3. weight_threshold \in Nat BY Zenon, ThresholdType
  <2> HIDE DEF weight
  <2> QED BY <2>1, <2>2, <2>3
<1>3. /\ verifying' = verifying \ {c}
      /\ receive' = [receive EXCEPT ![r] = [g \in Hash |-> IF g = h THEN counted ELSE @[g]]]
      /\ received_weight' =
           [received_weight EXCEPT ![r] = [g \in Hash |-> IF g = h THEN weight ELSE @[g]]]
      /\ UNCHANGED <<proposals, pc, outgoing, slot, round, generic_qc, lock_qc, local_block,
                     min_done, qc_done, certified, inbox, votes, ready, commit_q, bypassed, crashed>>
  <2>1. ~(received_weight[r][h] >= weight_threshold)
    <3>1. received_weight[r][h] \in Nat BY <1>1, <1>t DEF TypeOK
    <3>2. received_weight[r][h] < weight_threshold BY Zenon DEF CountsOnly
    <3> QED BY <3>1, <3>2, ThresholdType
  <2>2. c.signer \notin receive[r][h] BY Zenon DEF CountsOnly
  <2> QED BY Zenon, <1>2, <2>1, <2>2 DEF CollectCertificate, Reached, signer_weight, senderVars, managerVars
<1> HIDE DEF h, r, counted, weight
<1>4. \A q \in Replica, g \in Hash :
        /\ receive'[q][g] = IF q = r /\ g = h THEN counted ELSE receive[q][g]
        /\ received_weight'[q][g] = IF q = r /\ g = h THEN weight ELSE received_weight[q][g]
  BY Zenon, <1>1, <1>3, <1>t DEF TypeOK
<1>5. TypeOK'
  <2>1. receive' \in [Replica -> [Hash -> SUBSET Replica]]
    <3>1. receive[r] \in [Hash -> SUBSET Replica] BY Zenon, <1>1, <1>t DEF TypeOK
    <3>2. [g \in Hash |-> IF g = h THEN counted ELSE receive[r][g]] \in [Hash -> SUBSET Replica]
      BY Zenon, <1>1, <3>1
    <3> QED BY Zenon, <1>3, <1>t, <3>2 DEF TypeOK
  <2>2. received_weight' \in [Replica -> [Hash -> Nat]] BY Zenon, <1>1, <1>3, <1>t DEF TypeOK
  <2>3. verifying' \subseteq Certificate BY Zenon, <1>3, <1>t DEF TypeOK
  <2> QED BY Zenon, <1>3, <1>t, <2>1, <2>2, <2>3 DEF TypeOK
<1>6. \A g \in Hash : Collector(g)' = Collector(g) BY Zenon, <1>3 DEF Collector, NextLeader
<1>7. last' = last /\ Sent' = Sent BY Zenon, <1>3 DEF last, Sent
<1>8. TokenInv'
  <2>1. \A q \in Replica : pc[q] = "send" =>
          /\ last \in Hash /\ last # h /\ \A s \in Replica : receive'[s][last] = {}
    <3> SUFFICES ASSUME NEW q \in Replica, pc[q] = "send"
        PROVE  last \in Hash /\ last # h /\ \A s \in Replica : receive'[s][last] = {}
      BY Zenon
    <3>1. last # h /\ last > 0 /\ \A s \in Replica : receive[s][last] = {}
      BY Zenon, <1>t DEF TokenInv, h
    <3>2. last \in Hash BY <1>t, <3>1, ProtocolAssumption DEF TypeOK, last, Hash
    <3> QED BY Zenon, <1>4, <3>1, <3>2
  <2>2. OneProposer' BY Zenon, <1>3, <1>t DEF TokenInv, OneProposer
  <2>3. \A q \in Replica : AtNextPosition(q) => AtNextPosition(q)'
    BY Zenon, <1>3, <1>7 DEF AtNextPosition, Certified, Collector, NextLeader
  <2>4. \A q \in Replica : ready'[q] /\ pc'[q] # "send" =>
          IsLeader(q, round'[q]) /\ AtNextPosition(q)'
    BY Zenon, <1>3, <1>t, <2>3 DEF TokenInv
  <2>5. \A q \in Replica : pc'[q] = "send" =>
       /\ last' > 0 /\ outgoing'[q] = last' /\ proposals'[last'].sender = q
       /\ ~Certified(last)'
       /\ \A s \in Replica : /\ last' \notin inbox'[s] /\ last' \notin local_block'[s]
                             /\ receive'[s][last'] = {}
       /\ \A d \in votes' \cup verifying' : d.hash # last'
    BY Zenon, <1>3, <1>7, <1>t, <2>1 DEF TokenInv, Certified
  <2> QED BY Zenon, <1>3, <1>7, <1>t, <2>2, <2>4, <2>5 DEF TokenInv, IsLeader
<1>9. VoteInv'
  <2>1. c \notin votes /\ c.hash = h /\ c \in Certificate BY Zenon, <1>t DEF VoteInv, h, TypeOK
  <2>2. \A d \in votes' \cup verifying' : d \in votes \cup verifying /\ d # c /\ d \in Certificate
    BY Zenon, <1>3, <1>t, <2>1 DEF TypeOK
  <2>3. \A d \in votes' \cup verifying' : d.hash = h => d.signer # c.signer
    <3>1. \A d \in Certificate : d.hash = c.hash /\ d.signer = c.signer => d = c
      BY Zenon, <2>1, SMTT(20) DEF Certificate
    <3> QED BY Zenon, <2>1, <2>2, <3>1
  <2>4. \A d \in votes' \cup verifying' :
          /\ d.hash \in Sent /\ d.hash \notin inbox[d.signer] /\ d.hash \in Hash
          /\ d.signer \notin receive'[Collector(d.hash)][d.hash]
          /\ d.signer \notin certified[d.hash]
    <3> SUFFICES ASSUME NEW d \in votes' \cup verifying'
        PROVE  /\ d.hash \in Sent /\ d.hash \notin inbox[d.signer] /\ d.hash \in Hash
               /\ d.signer \notin receive'[Collector(d.hash)][d.hash]
               /\ d.signer \notin certified[d.hash]
      BY Zenon
    <3>1. /\ d.hash \in Sent /\ d.hash \notin inbox[d.signer]
          /\ d.signer \notin receive[Collector(d.hash)][d.hash]
          /\ d.signer \notin certified[d.hash]
      BY Zenon, <1>t, <2>2 DEF VoteInv
    <3>2. Collector(d.hash) \in Replica /\ d.hash \in Hash BY Zenon, <1>t, <3>1, CollectorType
    <3> QED BY Zenon, <1>4, <2>3, <3>1, <3>2 DEF counted, r
  <2>5. \A q \in Replica : \A g \in inbox[q] :
          /\ g \in Sent /\ q \notin certified[g]
          /\ \A s \in Replica : q \notin receive'[s][g]
    <3> SUFFICES ASSUME NEW q \in Replica, NEW g \in inbox[q]
        PROVE  /\ g \in Sent /\ q \notin certified[g]
               /\ \A s \in Replica : q \notin receive'[s][g]
      BY Zenon
    <3>1. /\ g \in Sent /\ q \notin certified[g] /\ \A s \in Replica : q \notin receive[s][g]
          /\ g = h => q # c.signer
      BY Zenon, <1>t, <2>1 DEF VoteInv
    <3>2. g \in Hash BY Zenon, <1>t DEF TypeOK
    <3> QED BY <1>1, <1>4, <3>1, <3>2 DEF counted
  <2>6. votes' \cap verifying' = {} BY Zenon, <1>3, <1>t DEF VoteInv
  <2> QED BY Zenon, <1>3, <1>6, <1>7, <2>4, <2>5, <2>6 DEF VoteInv
<1>10. CountInv'
  <2>1. \A g \in Hash : Certified(g)' => g \in Sent' /\ IsQuorum(certified'[g])
    BY Zenon, <1>3, <1>7, <1>t DEF CountInv, Certified
  <2>2. \A q \in Replica, g \in Hash : /\ received_weight'[q][g] = Weight(receive'[q][g])
                                       /\ receive'[q][g] # {} => g \in Sent'
    BY <1>1, <1>4, <1>7, <1>t DEF CountInv
  <2>3. \A g \in Sent : Certified(g) =>
          \/ IsQuorum(receive'[Collector(g)][g])
          \/ receive'[Collector(g)][g] \cap certified[g] = {}
    <3> SUFFICES ASSUME NEW g \in Sent, Certified(g)
        PROVE  \/ IsQuorum(receive'[Collector(g)][g])
               \/ receive'[Collector(g)][g] \cap certified[g] = {}
      BY Zenon
    <3>1. Collector(g) \in Replica /\ g \in Hash BY Zenon, <1>t, CollectorType
    <3>2. CASE g = h BY Zenon, <1>1, <1>4, <3>1, <3>2 DEF r
    <3>3. CASE g # h BY <1>4, <1>t, <3>1, <3>3 DEF CountInv
    <3> QED BY Zenon, <3>2, <3>3
  <2>4. \A g \in Sent : g \in Hash BY Zenon, <1>t, CollectorType
  <2> QED BY Zenon, <1>3, <1>6, <1>7, <2>1, <2>2, <2>3, <2>4 DEF CountInv, Certified
<1>11. \A g \in Hash : InFlight(g)' <=> InFlight(g) BY Zenon, <1>3 DEF InFlight, last
<1> QED BY Zenon, <1>3, <1>5, <1>8, <1>9, <1>10, <1>11, <1>t, ChainFrame, CommitFrame, OrderFrame
        DEF IndInv

\* Every element of a sequence over S is in S.
LEMMA EntryType ==
  ASSUME NEW S, NEW s \in Seq(S), NEW i \in DOMAIN s
  PROVE  s[i] \in S
<1>1. i \in 1..Len(s) BY SMTT(30)
<1> QED BY <1>1

\* A QC forms only for the last proposal, while nobody may propose, and the
\* collector always adopts it: it is newer than every QC the replica knows.
LEMMA FormFacts ==
  ASSUME IndInv, NEW c \in verifying,
         received_weight[Collector(c.hash)][c.hash] < weight_threshold,
         c.signer \notin receive[Collector(c.hash)][c.hash],
         received_weight[Collector(c.hash)][c.hash] + weights[c.signer] >= weight_threshold
  PROVE  /\ c.hash = last /\ ~Certified(last) /\ last \in Sent
         /\ \A q \in Replica : ~ready[q] /\ pc[q] = "wait"
         /\ \A q \in Replica :
              generic_qc[q].view = 0 \/ Before(generic_qc[q], proposals[last])
<1> DEFINE h == c.hash
           r == Collector(h)
           counted == receive[r][h] \cup {c.signer}
<1>t. TypeOK /\ TokenInv /\ ChainInv /\ VoteInv /\ CountInv BY Zenon DEF IndInv
<1>1. /\ h \in Sent /\ h \in Hash /\ counted \in SUBSET Replica
      /\ Weight(counted) >= weight_threshold
      /\ Certified(h) => counted \cap certified[h] = {}
  BY Zenon, CountFacts
<1>2. ~Certified(h)
  <2> SUFFICES ASSUME Certified(h) PROVE FALSE BY Zenon
  <2>1. IsQuorum(counted) BY Zenon, <1>1 DEF IsQuorum
  <2>2. IsQuorum(certified[h]) /\ certified[h] \in SUBSET Replica
    BY Zenon, <1>1, <1>t DEF CountInv, TypeOK
  <2> QED BY Zenon, <1>1, <2>1, <2>2, QuorumIntersection
<1>3. last \in Nat /\ Sent = 1..last BY SMTT(30), <1>t DEF TypeOK, last, Sent
<1>4. h = last
  <2>1. last \in Sent BY <1>1, <1>3
  <2>2. h < last => Certified(h) BY Zenon, <1>1, <1>t, <2>1 DEF ChainInv, NoFork
  <2> QED BY SMTT(30), <1>1, <1>2, <1>3, <2>2
<1>5. \A q \in Replica : pc[q] # "send" BY Zenon, <1>4, <1>t DEF TokenInv
<1>6. \A q \in Replica : ~ready[q]
  <2> SUFFICES ASSUME NEW q \in Replica, ready[q] PROVE FALSE BY Zenon
  <2>1. AtNextPosition(q) BY Zenon, <1>5, <1>t DEF TokenInv
  <2>2. last # 0 /\ ~Certified(last) BY SMTT(30), <1>1, <1>2, <1>3, <1>4
  <2> QED BY Zenon, <2>1, <2>2 DEF AtNextPosition
<1>7. \A q \in Replica : pc[q] = "wait" BY Zenon, <1>6, <1>t DEF TokenInv, OneProposer
<1>8. \A q \in Replica : generic_qc[q].view = 0 \/ Before(generic_qc[q], proposals[last])
  <2> SUFFICES ASSUME NEW q \in Replica, generic_qc[q].view # 0
      PROVE  Before(generic_qc[q], proposals[last])
    BY Zenon
  <2>1. KnownQC(generic_qc[q]) BY Zenon, <1>t DEF ChainInv
  <2>2. /\ generic_qc[q].hash \in Sent /\ Certified(generic_qc[q].hash)
        /\ generic_qc[q].view = proposals[generic_qc[q].hash].view
        /\ generic_qc[q].slot = proposals[generic_qc[q].hash].slot
    BY Zenon, <1>t, <2>1, KnownType
  <2>3. generic_qc[q].hash < last BY SMTT(30), <1>2, <1>3, <1>4, <2>2
  <2>4. Before(proposals[generic_qc[q].hash], proposals[last])
    BY Zenon, <1>1, <1>4, <1>t, <2>2, <2>3 DEF ChainInv, NoFork
  <2> QED BY Zenon, <2>2, <2>4 DEF Before
<1> QED BY Zenon, <1>1, <1>2, <1>4, <1>6, <1>7, <1>8

\* Forming a QC hands the right to propose to the collector.
LEMMA FormInv ==
  ASSUME IndInv, NEW c \in verifying, CollectCertificate(c), Completes(c)
  PROVE  IndInv'
<1> DEFINE h == c.hash
           r == Collector(h)
           p == proposals[h]
           counted == receive[r][h] \cup {c.signer}
           weight == received_weight[r][h] + weights[c.signer]
           gc == Collected(h)
           qc == [hash |-> h, view |-> p.view, slot |-> p.slot,
                  is_final |-> p.is_final, signatures |-> counted]
           ignored == VRFLeader[p.view] \in ForkTail /\ p.is_final
<1>t. TypeOK /\ TokenInv /\ ChainInv /\ VoteInv /\ CountInv /\ CommitInv /\ OrderInv
  BY Zenon DEF IndInv
<1>1. /\ h \in Sent /\ h \in Hash /\ r \in Replica /\ c.signer \in Replica
      /\ counted \in SUBSET Replica /\ Weight(counted) = weight /\ Weight(counted) \in Nat
      /\ c.signer \in counted /\ p \in Proposal
  <2>1. h \in Sent BY Zenon, CountFacts DEF Completes
  <2> QED BY Zenon, <1>t, <2>1, CountFacts, CollectorType DEF Completes
<1>p. /\ p.view \in 1..MaxProposals /\ p.slot \in 0..MaxProposals /\ MaxProposals \in Nat
      /\ p.is_final \in BOOLEAN /\ p.sender \in Replica
  <2>1. p \in Proposal BY Zenon, <1>1
  <2> HIDE DEF p
  <2> QED BY Zenon, <2>1, ProtocolAssumption DEF Proposal
<1>2. /\ h = last /\ ~Certified(h) /\ last \in Nat /\ Sent = 1..last /\ last # 0
      /\ \A q \in Replica : ~ready[q] /\ pc[q] = "wait"
      /\ generic_qc[r].view = 0 \/ Before(generic_qc[r], p)
  <2>1. /\ h = last /\ ~Certified(last) /\ last \in Sent
        /\ \A q \in Replica : ~ready[q] /\ pc[q] = "wait"
        /\ \A q \in Replica : generic_qc[q].view = 0 \/ Before(generic_qc[q], proposals[last])
    BY Zenon, FormFacts DEF Completes
  <2>2. last \in Nat /\ Sent = 1..last BY <1>t DEF TypeOK, last, Sent
  <2> QED BY SMTT(30), <1>1, <2>1, <2>2
<1>3. /\ verifying' = verifying \ {c}
      /\ receive' = [receive EXCEPT ![r] =
           [g \in Hash |-> IF g \in gc THEN {} ELSE IF g = h THEN counted ELSE @[g]]]
      /\ received_weight' = [received_weight EXCEPT ![r] =
           [g \in Hash |-> IF g \in gc THEN 0 ELSE IF g = h THEN weight ELSE @[g]]]
      /\ FormQC(r, h, counted)
      /\ UNCHANGED <<proposals, pc, outgoing, slot, inbox, votes, commit_q, bypassed, crashed>>
  <2>1. ~(received_weight[r][h] >= weight_threshold) /\ ~(weight < weight_threshold)
    <3>1. received_weight[r][h] \in Nat
      <4>1. r \in Replica /\ h \in Hash BY Zenon, <1>1
      <4>2. received_weight \in [Replica -> [Hash -> Nat]] BY Zenon, <1>t DEF TypeOK
      <4> HIDE DEF r, h
      <4> QED BY Zenon, <4>1, <4>2
    <3>2. weight \in Nat BY Zenon, <1>1
    <3>3. received_weight[r][h] < weight_threshold /\ weight >= weight_threshold
      BY Zenon DEF Completes
    <3> HIDE DEF weight, r, h
    <3>4. weight_threshold \in Nat BY Zenon, ThresholdType
    <3> QED BY <3>1, <3>2, <3>3, <3>4
  <2>2. c.signer \notin receive[r][h] BY Zenon DEF Completes
  <2> QED BY Zenon, <2>1, <2>2 DEF CollectCertificate, Reached, signer_weight, senderVars
<1>4. /\ min_done' = [min_done EXCEPT ![r] = [view |-> p.view, slot |-> p.slot]]
      /\ qc_done' = [qc_done EXCEPT ![r] =
           {k \in @ \cup {QcKey(p.view, p.slot)} : p.view > 2 => k >= QcKey(p.view - 2, 0)}]
      /\ ready' = [ready EXCEPT ![r] = TRUE]
      /\ certified' = [certified EXCEPT ![h] = counted]
      /\ generic_qc' = IF ignored THEN generic_qc ELSE [generic_qc EXCEPT ![r] = qc]
      /\ round' = IF p.is_final THEN [round EXCEPT ![r] = p.view + 1] ELSE round
      /\ UNCHANGED <<lock_qc, local_block>>
  BY Zenon, <1>2, <1>3 DEF FormQC, AddQC, Newer, Before
<1>5. qc \in QC /\ qc.hash = h /\ qc.view = p.view /\ qc.slot = p.slot
  <2>1. h \in Hash /\ counted \in SUBSET Replica BY Zenon, <1>1
  <2>2. qc.hash = h /\ qc.view = p.view /\ qc.slot = p.slot BY Zenon
  <2> HIDE DEF h, p, counted
  <2>3. h \in 0..MaxProposals BY <2>1 DEF Hash
  <2>4. p.view \in 0..MaxProposals BY <1>p
  <2>5. p.slot \in 0..MaxProposals /\ p.is_final \in BOOLEAN BY Zenon, <1>p
  <2>6. qc \in QC BY Zenon, <2>1, <2>3, <2>4, <2>5 DEF QC
  <2> QED BY Zenon, <2>2, <2>6
<1>z. p = proposals[last] /\ last > 0 /\ last \in Nat /\ last \in Sent
  <2>1. h = last /\ last \in Nat /\ last # 0 BY Zenon, <1>2
  <2>2. last > 0 BY <2>1
  <2>3. last \in Sent BY Zenon, <1>1, <2>1
  <2> QED BY Zenon, <2>1, <2>2, <2>3
<1>6. gc \in SUBSET Sent /\ h \notin gc
  <2>1. p.view \in Nat BY <1>p
  <2> QED BY SMTT(30), <2>1 DEF Collected, Sent
<1> HIDE DEF h, r, p, counted, weight, gc, qc, ignored
<1>7. \A q \in Replica, g \in Hash :
        /\ receive'[q][g] = IF q = r /\ g \in gc THEN {} ELSE IF q = r /\ g = h THEN counted
                            ELSE receive[q][g]
        /\ received_weight'[q][g] = IF q = r /\ g \in gc THEN 0 ELSE IF q = r /\ g = h THEN weight
                                    ELSE received_weight[q][g]
  BY Zenon, <1>1, <1>3, <1>t DEF TypeOK
<1>8. /\ certified'[h] = counted /\ certified'[h] # {}
      /\ \A g \in Hash : g # h => certified'[g] = certified[g]
      /\ \A g \in Hash : Certified(g) => certified'[g] = certified[g]
  BY Zenon, <1>1, <1>2, <1>4, <1>t DEF TypeOK, Certified
<1>9. last' = last /\ Sent' = Sent BY Zenon, <1>3 DEF last, Sent
<1>10. \A g \in Hash : Collector(g)' = Collector(g) BY Zenon, <1>3 DEF Collector, NextLeader
<1>11. \A a : KnownQC(a) => IsQcOf(a, proposals', certified')
  <2>1. \A g \in 1..Len(proposals) : /\ g \in 1..Len(proposals') /\ proposals'[g] = proposals[g]
                                     /\ certified[g] # {} => certified'[g] = certified[g]
    <3>1. \A g \in 1..Len(proposals) : g \in Hash BY Zenon, <1>t, CollectorType DEF Sent
    <3> QED BY Zenon, <1>3, <1>8, <3>1 DEF Certified
  <2> QED BY Zenon, <2>1, KnownGrows DEF KnownQC
<1>12. IsQcOf(qc, proposals', certified')
  <2>1. proposals'[h] = p /\ h \in 1..Len(proposals') BY Zenon, <1>1, <1>3, <1>9 DEF p, Sent
  <2>2. qc = [hash |-> qc.hash, view |-> proposals'[qc.hash].view,
              slot |-> proposals'[qc.hash].slot, is_final |-> proposals'[qc.hash].is_final,
              signatures |-> certified'[qc.hash]]
    BY Zenon, <1>5, <1>8, <2>1 DEF qc
  <2> QED BY Zenon, <1>5, <1>8, <2>1, <2>2 DEF IsQcOf
<1>13. TypeOK'
  <2>1. receive' \in [Replica -> [Hash -> SUBSET Replica]]
    <3>1. receive[r] \in [Hash -> SUBSET Replica] BY Zenon, <1>1, <1>t DEF TypeOK
    <3>2. [g \in Hash |-> IF g \in gc THEN {} ELSE IF g = h THEN counted ELSE receive[r][g]]
            \in [Hash -> SUBSET Replica]
      BY Zenon, <1>1, <3>1
    <3> QED BY Zenon, <1>3, <1>t, <3>2 DEF TypeOK
  <2>2. received_weight' \in [Replica -> [Hash -> Nat]]
    <3>1. received_weight[r] \in [Hash -> Nat] /\ weight \in Nat BY Zenon, <1>1, <1>t DEF TypeOK
    <3>2. [g \in Hash |-> IF g \in gc THEN 0 ELSE IF g = h THEN weight ELSE received_weight[r][g]]
            \in [Hash -> Nat]
      BY Zenon, <3>1
    <3> QED BY Zenon, <1>3, <1>t, <3>2 DEF TypeOK
  <2>3. verifying' \subseteq Certificate BY Zenon, <1>3, <1>t DEF TypeOK
  <2>4. min_done' \in [Replica -> [view : 0..MaxProposals, slot : 0..MaxProposals]]
    <3>1. [view |-> p.view, slot |-> p.slot] \in [view : 0..MaxProposals, slot : 0..MaxProposals]
      BY <1>p
    <3> QED BY Zenon, <1>4, <1>t, <3>1 DEF TypeOK
  <2>5. qc_done' \in [Replica -> SUBSET Nat]
    <3>1. QcKey(p.view, p.slot) \in Nat BY SMTT(30), <1>p DEF QcKey
    <3>2. {k \in qc_done[r] \cup {QcKey(p.view, p.slot)} :
             p.view > 2 => k >= QcKey(p.view - 2, 0)} \in SUBSET Nat
      BY Zenon, <1>1, <1>t, <3>1 DEF TypeOK
    <3> QED BY Zenon, <1>4, <1>t, <3>2 DEF TypeOK
  <2>6. ready' \in [Replica -> BOOLEAN] BY Zenon, <1>4, <1>t DEF TypeOK
  <2>7. certified' \in [Hash -> SUBSET Replica] BY Zenon, <1>1, <1>4, <1>t DEF TypeOK
  <2>8. generic_qc' \in [Replica -> QC] BY Zenon, <1>4, <1>5, <1>t DEF TypeOK
  <2>9. round' \in [Replica -> View]
    <3>1. p.view + 1 \in View BY SMTT(30), <1>p DEF View
    <3> QED BY Zenon, <1>4, <1>t, <3>1 DEF TypeOK
  <2> QED BY Zenon, <1>3, <1>4, <1>t, <2>1, <2>2, <2>3, <2>4, <2>5, <2>6, <2>7, <2>8, <2>9 DEF TypeOK
<1>14. TokenInv'
  <2>1. /\ \A q \in Replica : ready'[q] => q = r
        /\ \A q \in Replica : pc'[q] = "wait"
    BY Zenon, <1>2, <1>3, <1>4, <1>t DEF TypeOK
  <2>2. OneProposer' BY Zenon, <2>1 DEF OneProposer
  <2>3. proposals' = proposals /\ proposals'[last'] = p BY Zenon, <1>2, <1>3, <1>9 DEF p
  <2>4. round'[r] = IF p.is_final THEN p.view + 1 ELSE p.view
    <3>1. CASE p.is_final BY Zenon, <1>1, <1>4, <1>t, <3>1 DEF TypeOK
    <3>2. CASE ~p.is_final
      <4>1. r = p.sender BY Zenon, <3>2 DEF r, p, Collector
      <4>2. round[p.sender] = p.view
        BY Zenon, <1>t, <1>z, <3>2 DEF TokenInv
      <4> QED BY Zenon, <1>4, <3>2, <4>1, <4>2
    <3> QED BY Zenon, <3>1, <3>2
  <2>5. VRFLeader[round'[r]] = r
    <3>1. CASE p.is_final BY Zenon, <2>4, <3>1 DEF r, p, Collector, NextLeader
    <3>2. CASE ~p.is_final
      <4>1. r = p.sender BY Zenon, <3>2 DEF r, p, Collector
      <4>2. IsLeader(p.sender, p.view) BY Zenon, <1>1, <1>t DEF ChainInv, p
      <4> QED BY Zenon, <2>4, <3>2, <4>1, <4>2 DEF IsLeader
    <3> QED BY Zenon, <3>1, <3>2
  <2>6. ForkTail = {} => generic_qc'[r].hash = last
    BY Zenon, <1>1, <1>2, <1>4, <1>5, <1>t DEF ignored, TypeOK
  <2>7. ASSUME NEW q \in Replica, q = r PROVE AtNextPosition(q)'
    <3>1. certified'[last'] # {} BY Zenon, <1>2, <1>8, <1>9
    <3>2. q = Collector(last)' BY Zenon, <1>2, <2>3, <2>7 DEF r, p, Collector, NextLeader
    <3>3. /\ last' # 0
          /\ round'[q] = IF proposals'[last'].is_final THEN proposals'[last'].view + 1
                         ELSE proposals'[last'].view
          /\ ForkTail = {} => generic_qc'[q].hash = last'
      BY Zenon, <1>2, <1>9, <2>3, <2>4, <2>6, <2>7
    <3> QED BY Zenon, <3>1, <3>2, <3>3 DEF AtNextPosition, Certified
  <2>8. ~p.is_final => round' = round BY Zenon, <1>4
  <2>9. /\ \A q \in Replica : slot'[q] = IF /\ last' > 0 /\ proposals'[last'].sender = q
                                            /\ ~proposals'[last'].is_final
                                         THEN proposals'[last'].slot + 1 ELSE 0
        /\ last' > 0 /\ ~proposals'[last'].is_final =>
             round'[proposals'[last'].sender] = proposals'[last'].view
    BY Zenon, <1>2, <1>3, <1>9, <1>t, <2>3, <2>8 DEF TokenInv, p
  <2>10. \A q \in Replica : ready'[q] /\ pc'[q] # "send" =>
           VRFLeader[round'[q]] = q /\ AtNextPosition(q)'
    BY Zenon, <2>1, <2>5, <2>7
  <2> QED BY Zenon, <2>1, <2>2, <2>9, <2>10 DEF TokenInv, IsLeader
<1>15. ChainInv'
  <2>1. NoFork'
    <3>1. \A g \in Sent : g \in Hash BY Zenon, <1>t, CollectorType
    <3>2. \A g \in Sent : Certified(g) => Certified(g)' BY Zenon, <1>8, <3>1 DEF Certified
    <3>3. NoFork BY Zenon, <1>t DEF ChainInv
    <3>4. proposals' = proposals /\ Sent' = Sent BY Zenon, <1>3, <1>9
    <3> QED BY Zenon, <3>2, <3>3, <3>4 DEF NoFork, Before
  <2>2. LinearChain' BY Zenon, <1>3, <1>9, <1>t DEF ChainInv, LinearChain
  <2>3. \A g \in Sent' : /\ proposals'[g].view <= g /\ proposals'[g].slot < g
                         /\ proposals'[g].qc.hash < g
                         /\ KnownQC(proposals[g].qc)'
                         /\ IsLeader(proposals[g].sender, proposals[g].view)'
                         /\ g = 1 => proposals'[g].view = 1
    BY Zenon, <1>3, <1>9, <1>11, <1>t DEF ChainInv, KnownQC, IsLeader
  <2>4. ASSUME NEW q \in Replica
        PROVE  /\ round'[q] <= last + 1
               /\ IsQcOf(generic_qc'[q], proposals', certified')
               /\ IsQcOf(lock_qc'[q], proposals', certified') /\ lock_qc'[q].hash < last
               /\ NotAfter(lock_qc'[q], generic_qc'[q])
    <3>1. /\ KnownQC(generic_qc[q]) /\ KnownQC(lock_qc[q]) /\ NotAfter(lock_qc[q], generic_qc[q])
          /\ round[q] <= last + 1 /\ lock_qc[q].hash < last
      BY Zenon, <1>t, <1>z DEF ChainInv
    <3>2. round'[q] <= last + 1
      <4>0. \A g \in Sent : proposals[g].view <= g BY Zenon, <1>t DEF ChainInv
      <4>1. p.view <= last /\ p.view \in Nat
        BY <1>p, <1>z, <4>0
      <4>2. p.view + 1 <= last + 1 BY SMTT(30), <1>z, <4>1
      <4> QED BY Zenon, <1>4, <1>t, <3>1, <4>2 DEF TypeOK
    <3>3. NotAfter(lock_qc[r], qc)
      <4>1. KnownQC(generic_qc[r]) /\ KnownQC(lock_qc[r]) /\ NotAfter(lock_qc[r], generic_qc[r])
        BY Zenon, <1>1, <1>t DEF ChainInv
      <4>2. generic_qc[r] \in QC /\ lock_qc[r] \in QC BY Zenon, <1>1, <1>t DEF TypeOK
      <4>3. /\ generic_qc[r].view \in Nat /\ generic_qc[r].slot \in Nat
            /\ lock_qc[r].view \in Nat /\ lock_qc[r].slot \in Nat
        BY Zenon, <4>2, SMTT(20) DEF QC
      <4>4. generic_qc[r].view = 0 \/ Before(generic_qc[r], p) BY Zenon, <1>2
      <4>5. qc.view = p.view /\ qc.slot = p.slot BY Zenon, <1>5
      <4>6. CASE generic_qc[r].view = 0
        <5>1. lock_qc[r].view = 0 BY <4>1, <4>3, <4>6 DEF NotAfter
        <5>2. 0 < qc.view BY <1>p, <4>5
        <5> QED BY Zenon, <5>1, <5>2 DEF NotAfter
      <4>7. CASE Before(generic_qc[r], p)
        <5>1. p.view \in Nat /\ p.slot \in Nat BY SMTT(30), <1>p
        <5>2. /\ lock_qc[r].view < generic_qc[r].view
                 \/ (lock_qc[r].view = generic_qc[r].view /\ lock_qc[r].slot <= generic_qc[r].slot)
              /\ generic_qc[r].view < p.view
                 \/ (generic_qc[r].view = p.view /\ generic_qc[r].slot < p.slot)
          BY Zenon, <4>1, <4>7 DEF NotAfter, Before
        <5>3. lock_qc[r].view < p.view \/ (lock_qc[r].view = p.view /\ lock_qc[r].slot <= p.slot)
          <6>1. CASE generic_qc[r].view < p.view BY Zenon, <4>3, <5>1, <5>2, <6>1, SMTT(20)
          <6>2. CASE generic_qc[r].view = p.view /\ generic_qc[r].slot < p.slot
            BY Zenon, <4>3, <5>1, <5>2, <6>2, SMTT(20)
          <6> QED BY Zenon, <5>2, <6>1, <6>2
        <5> QED BY Zenon, <4>5, <5>3 DEF NotAfter
      <4> QED BY Zenon, <4>4, <4>6, <4>7
    <3>4. generic_qc'[q] = generic_qc[q] \/ (q = r /\ generic_qc'[q] = qc)
      BY Zenon, <1>4, <1>t DEF TypeOK
    <3> QED BY Zenon, <1>4, <1>11, <1>12, <3>1, <3>2, <3>3, <3>4
  <2>5. \A q \in Replica : /\ round'[q] <= last' + 1
                           /\ KnownQC(generic_qc[q])' /\ KnownQC(lock_qc[q])'
                           /\ (last' > 0 => lock_qc'[q].hash < last')
                           /\ NotAfter(lock_qc[q], generic_qc[q])'
    BY Zenon, <1>9, <2>4 DEF KnownQC, NotAfter
  <2> QED BY Zenon, <2>1, <2>2, <2>3, <2>5 DEF ChainInv
<1>16. VoteInv'
  <2>1. c \notin votes /\ c.hash = h /\ c \in Certificate BY Zenon, <1>t DEF VoteInv, h, TypeOK
  <2>2. \A d \in votes' \cup verifying' : d \in votes \cup verifying /\ d # c /\ d \in Certificate
    BY Zenon, <1>3, <1>t, <2>1 DEF TypeOK
  <2>3. \A d \in votes' \cup verifying' : d.hash = h => d.signer # c.signer
    <3>1. \A d \in Certificate : d.hash = c.hash /\ d.signer = c.signer => d = c
      BY Zenon, <2>1, SMTT(20) DEF Certificate
    <3> QED BY Zenon, <2>1, <2>2, <3>1
  <2>4. ASSUME NEW d \in votes' \cup verifying'
        PROVE  /\ d.hash \in Sent /\ d.hash \notin inbox[d.signer] /\ d.hash \in Hash
               /\ d.signer \notin receive'[Collector(d.hash)][d.hash]
               /\ d.signer \notin certified'[d.hash]
    <3>1. /\ d.hash \in Sent /\ d.hash \notin inbox[d.signer]
          /\ d.signer \notin receive[Collector(d.hash)][d.hash]
          /\ d.signer \notin certified[d.hash]
      BY Zenon, <1>t, <2>2 DEF VoteInv
    <3>2. Collector(d.hash) \in Replica /\ d.hash \in Hash BY Zenon, <1>t, <3>1, CollectorType
    <3>3. d.hash = h => d.signer \notin counted BY Zenon, <2>3, <3>1 DEF counted, r
    <3> QED BY Zenon, <1>7, <1>8, <3>1, <3>2, <3>3
  <2>5. ASSUME NEW q \in Replica, NEW g \in inbox[q]
        PROVE  /\ g \in Sent /\ q \notin certified'[g]
               /\ \A s \in Replica : q \notin receive'[s][g]
    <3>1. /\ g \in Sent /\ q \notin certified[g] /\ \A s \in Replica : q \notin receive[s][g]
          /\ g = h => q # c.signer
      BY Zenon, <1>t, <2>1 DEF VoteInv
    <3>2. g \in Hash BY Zenon, <1>t DEF TypeOK
    <3>3. g = h => q \notin counted BY Zenon, <1>1, <3>1 DEF counted
    <3> QED BY SMTT(30), <1>7, <1>8, <3>1, <3>2, <3>3
  <2>6. votes' \cap verifying' = {} BY Zenon, <1>3, <1>t DEF VoteInv
  <2> QED BY Zenon, <1>3, <1>9, <1>10, <2>4, <2>5, <2>6 DEF VoteInv
<1>17. CountInv'
  <2>0. IsQuorum(counted)
    <3>1. weight >= weight_threshold BY Zenon DEF Completes, weight, r, h
    <3> QED BY Zenon, <1>1, <3>1 DEF IsQuorum
  <2>1. \A g \in Hash : certified'[g] # {} => g \in Sent /\ IsQuorum(certified'[g])
    <3>1. \A g \in Hash : certified[g] # {} => g \in Sent /\ IsQuorum(certified[g])
      BY Zenon, <1>t DEF CountInv, Certified
    <3> QED BY Zenon, <1>1, <1>8, <2>0, <3>1
  <2>2. ASSUME NEW q \in Replica, NEW g \in Hash
        PROVE  /\ received_weight'[q][g] = Weight(receive'[q][g])
               /\ receive'[q][g] # {} => g \in Sent
    <3>1. /\ received_weight[q][g] = Weight(receive[q][g])
          /\ receive[q][g] # {} => g \in Sent
      BY Zenon, <1>t DEF CountInv
    <3> QED BY Zenon, <1>1, <1>7, <3>1, WeightEmpty
  <2>3. ASSUME NEW g \in Sent, certified'[g] # {}
        PROVE  \/ IsQuorum(receive'[Collector(g)][g])
               \/ receive'[Collector(g)][g] \cap certified'[g] = {}
    <3>1. Collector(g) \in Replica /\ g \in Hash BY Zenon, <1>t, CollectorType
    <3>2. CASE g = h BY Zenon, <1>6, <1>7, <2>0, <3>1, <3>2 DEF r
    <3>3. CASE g # h
      <4>1. certified'[g] = certified[g] BY Zenon, <1>8, <3>1, <3>3
      <4>2. \/ IsQuorum(receive[Collector(g)][g])
            \/ receive[Collector(g)][g] \cap certified[g] = {}
        BY Zenon, <1>t, <2>3, <4>1 DEF CountInv, Certified
      <4>3. receive'[Collector(g)][g] = receive[Collector(g)][g] \/ receive'[Collector(g)][g] = {}
        BY Zenon, <1>7, <3>1, <3>3
      <4> QED BY Zenon, <4>1, <4>2, <4>3
    <3> QED BY Zenon, <3>2, <3>3
  <2>4. \A g \in Sent : g \in Hash BY Zenon, <1>t, CollectorType
  <2> QED BY <1>9, <1>10, <2>1, <2>2, <2>3, <2>4 DEF CountInv, Certified
<1>18. CommitInv'
  <2>1. UNCHANGED <<proposals, inbox, local_block, commit_q>> BY Zenon, <1>3, <1>4
  <2>2. \A q \in Replica : \A i \in DOMAIN commit_q[q] : Certified(commit_q[q][i].hash)'
    <3> SUFFICES ASSUME NEW q \in Replica, NEW i \in DOMAIN commit_q[q]
        PROVE  certified'[commit_q[q][i].hash] # {}
      BY Zenon, <2>1 DEF Certified
    <3>1. Certified(commit_q[q][i].hash) BY Zenon, <1>t DEF CommitInv
    <3>2. commit_q[q] \in Seq([hash : Hash, next_primary : SUBSET Replica]) BY Zenon, <1>t DEF TypeOK
    <3>3. commit_q[q][i] \in [hash : Hash, next_primary : SUBSET Replica] BY Zenon, <3>2, EntryType
    <3>4. commit_q[q][i].hash \in Hash BY Zenon, <3>3
    <3> QED BY Zenon, <1>8, <3>1, <3>4 DEF Certified
  <2> QED BY Zenon, <1>9, <1>t, <2>1, <2>2 DEF CommitInv, NextLeader
<1>19. OrderInv'
  <2>1. \A g \in Hash : InFlight(g)' <=> InFlight(g) BY Zenon, <1>3, <1>9 DEF InFlight
  <2> QED BY Zenon, <1>3, <1>4, <1>t, <2>1, OrderFrame
<1> QED BY Zenon, <1>13, <1>14, <1>15, <1>16, <1>17, <1>18, <1>19 DEF IndInv
=============================================================================
