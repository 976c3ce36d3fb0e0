------------------------- MODULE TdHotstuff_proofs --------------------------
(***************************************************************************)
(* ReceiveProposal preserves IndInv, which is therefore an inductive       *)
(* invariant of TdHotstuff, for any replicas, weights and leaders; the     *)
(* safety properties follow from it, and what steps may do: QCs never      *)
(* regress, the fast path of ReceiveCertificate drops nothing that is      *)
(* needed, and TdHotstuff refines ReplicatedLog.                           *)
(***************************************************************************)
EXTENDS TdHotstuffSteps_proofs, TdHotstuffLog

-----------------------------------------------------------------------------
(* ReceiveProposal *)

\* An element of a sequence over a set is in the set.
LEMMA ElementOf == ASSUME NEW S, NEW s \in Seq(S), NEW k \in 1..Len(s) PROVE s[k] \in S
OBVIOUS

\* A proposal that no newer one has bypassed is newer than all that the
\* replica has handled, and it passes Verify.
LEMMA NotBypassed ==
  ASSUME IndInv, ForkTail = {}, NEW r \in Replica, NEW h \in inbox[r], h \notin bypassed[r]
  PROVE  (\A g \in Handled(r) : g < h) /\ Verify(r, proposals[h])
<1>t. TypeOK /\ ChainInv /\ CountInv /\ VoteInv /\ ReplicaOrder(r) BY Zenon DEF IndInv, OrderInv
<1>1. last \in Nat /\ Sent = 1..last /\ h \in Sent BY <1>t DEF TypeOK, last, Sent, VoteInv
<1>2. \A g \in Handled(r) : g < h
  <2> SUFFICES ASSUME NEW g \in Handled(r) PROVE g < h BY Zenon
  <2>1. ~(h < g) BY Zenon, <1>t DEF ReplicaOrder
  <2>2. g \in Sent /\ g # h BY Zenon DEF Handled
  <2> QED BY <1>1, <2>1, <2>2
<1>3. Verify(r, proposals[h])
  <2>1. CASE h = 1 BY Zenon, <1>1, <1>t, <2>1 DEF ChainInv, Verify
  <2>2. CASE h # 1
    <3>1. KnownQC(proposals[h].qc) /\ proposals[h].qc.hash = h - 1 /\ KnownQC(lock_qc[r])
      BY Zenon, <1>1, <1>t DEF ChainInv, LinearChain
    <3>2. lock_qc[r].hash \in Nat /\ NoQC.hash = 0 BY <1>t, <3>1, KnownType DEF QC, NoQC
    <3>3. lock_qc[r].hash = 0 \/ lock_qc[r].hash + 1 < h BY Zenon, <1>2, <1>t, <3>2 DEF ReplicaOrder
    <3>4. lock_qc[r].hash <= proposals[h].qc.hash BY <1>1, <2>2, <3>1, <3>2, <3>3
    <3>5. NotAfter(lock_qc[r], proposals[h].qc) BY Zenon, <1>t, <3>1, <3>4, KnownOrder
    <3>6. VerifyQC(proposals[h].qc) BY <1>1, <1>t, <2>2, <3>1, KnownVerifies
    <3> QED BY Zenon, <3>5, <3>6 DEF Verify, SafeNode
  <2> QED BY Zenon, <2>1, <2>2
<1> QED BY Zenon, <1>2, <1>3

\* What a replica has handled after ReceiveProposal.
LEMMA HandledNext ==
  ASSUME IndInv, NEW r \in Replica, NEW h \in inbox[r], ReceiveProposal(r, h)
  PROVE  /\ Handled(r)' = Handled(r) \cup {h} /\ h \notin Handled(r)
         /\ inbox'[r] = inbox[r] \ {h}
         /\ bypassed' \in [Replica -> SUBSET Hash]
         /\ bypassed'[r] = bypassed[r] \cup {g \in inbox[r] : g < h}
         /\ \A q \in Replica : q # r =>
              Handled(q)' = Handled(q) /\ inbox'[q] = inbox[q] /\ bypassed'[q] = bypassed[q]
<1>t. TypeOK /\ TokenInv /\ VoteInv BY Zenon DEF IndInv
<1>1. /\ inbox' = [inbox EXCEPT ![r] = @ \ {h}]
      /\ bypassed' = [bypassed EXCEPT ![r] = @ \cup {g \in inbox[r] : g < h}]
      /\ UNCHANGED <<proposals, pc>>
  BY Zenon DEF ReceiveProposal, senderVars
<1>2. /\ inbox'[r] = inbox[r] \ {h} /\ bypassed'[r] = bypassed[r] \cup {g \in inbox[r] : g < h}
      /\ \A q \in Replica : q # r => inbox'[q] = inbox[q] /\ bypassed'[q] = bypassed[q]
      /\ bypassed' \in [Replica -> SUBSET Hash]
  BY Zenon, <1>1, <1>t DEF TypeOK
<1>3. h \in Sent /\ ~InFlight(h)
  <2>1. \A q \in Replica : pc[q] = "send" => last \notin inbox[r] BY Zenon, <1>t DEF TokenInv
  <2> QED BY Zenon, <1>t, <2>1 DEF VoteInv, InFlight, last
<1>4. Sent' = Sent /\ \A g : InFlight(g)' <=> InFlight(g) BY Zenon, <1>1 DEF Sent, InFlight
<1>5. Handled(r)' = Handled(r) \cup {h} BY Zenon, <1>2, <1>3, <1>4 DEF Handled
<1>6. \A q \in Replica : q # r => Handled(q)' = Handled(q) BY Zenon, <1>2, <1>4 DEF Handled
<1> QED BY Zenon, <1>2, <1>5, <1>6 DEF Handled

\* A rejected proposal leaves the inbox and nothing else changes.
LEMMA RejectInv ==
  ASSUME IndInv, NEW r \in Replica, NEW h \in inbox[r], ReceiveProposal(r, h),
         ~Verify(r, proposals[h])
  PROVE  IndInv'
<1>0. /\ inbox' = [inbox EXCEPT ![r] = @ \ {h}]
      /\ UNCHANGED <<proposals, pc, outgoing, slot, round, generic_qc, lock_qc, local_block,
                     receive, received_weight, min_done, qc_done, certified, votes, verifying,
                     ready, commit_q, crashed>>
  BY Zenon DEF ReceiveProposal, senderVars, managerVars, collectVars
<1>t. TypeOK /\ TokenInv /\ ChainInv /\ VoteInv /\ CountInv /\ CommitInv /\ OrderInv
  BY Zenon DEF IndInv
<1>1. \A q \in Replica : inbox'[q] \in SUBSET inbox[q] BY Zenon, <1>0, <1>t DEF TypeOK
<1>2. TypeOK'
  <2>1. inbox' \in [Replica -> SUBSET Hash] BY Zenon, <1>0, <1>t DEF TypeOK
  <2>2. bypassed' \in [Replica -> SUBSET Hash] BY Zenon, HandledNext
  <2> QED BY Zenon, <1>0, <1>t, <2>1, <2>2 DEF TypeOK
<1>3. TokenInv'
  BY SMTT(30), <1>0, <1>1, <1>t DEF TokenInv, OneProposer, AtNextPosition, IsLeader, Certified, last,
     Collector, NextLeader
<1>4. VoteInv'
  <2>1. \A c \in votes \cup verifying : c.signer \in Replica BY Zenon, <1>t DEF TypeOK, Certificate
  <2> QED BY Zenon, <1>0, <1>1, <1>t, <2>1 DEF VoteInv, Sent, Collector, NextLeader
<1>5. CommitInv'
  BY Zenon, <1>0, <1>1, <1>t DEF CommitInv, Certified, Sent, NextLeader
<1>6. OrderInv'
  <2> SUFFICES ASSUME ForkTail = {}, NEW q \in Replica PROVE ReplicaOrder(q)' BY Zenon DEF OrderInv
  <2>1. ReplicaOrder(q) /\ CommittedBy(q)' = CommittedBy(q)
    BY Zenon, <1>0, <1>t DEF OrderInv, CommittedBy
  <2>2. CASE q # r
    <3>1. Handled(q)' = Handled(q) /\ inbox'[q] = inbox[q] /\ bypassed'[q] = bypassed[q]
      BY Zenon, <2>2, HandledNext
    <3> QED BY Zenon, <1>0, <2>1, <3>1 DEF ReplicaOrder, LosesOnlyBypassed
  <2>3. CASE q = r
    <3>1. h \in bypassed[r] BY Zenon, NotBypassed
    <3>2. /\ Handled(r)' = Handled(r) \cup {h} /\ inbox'[r] = inbox[r] \ {h}
          /\ bypassed'[r] = bypassed[r] \cup {g \in inbox[r] : g < h}
      BY Zenon, HandledNext
    <3>3. LosesOnlyBypassed(r)'
      <4>1. LosesOnlyBypassed(r) BY Zenon, <2>1, <2>3 DEF ReplicaOrder
      <4>2. \A k \in Handled(r)' : k > 1 /\ {k - 1, k} \cap bypassed'[r] = {} =>
              k \in Handled(r) /\ {k - 1, k} \cap bypassed[r] = {}
        BY Zenon, <3>1, <3>2
      <4>3. bypassed[r] \subseteq bypassed'[r] /\ commit_q' = commit_q BY Zenon, <1>0, <3>2
      <4> QED BY Zenon, <2>1, <2>3, <4>1, <4>2, <4>3 DEF LosesOnlyBypassed
    <3> QED BY Zenon, <1>0, <2>1, <2>3, <3>1, <3>2, <3>3 DEF ReplicaOrder
  <2> QED BY Zenon, <2>2, <2>3
<1> QED BY <1>0, <1>2, <1>3, <1>4, <1>5, <1>6, <1>t, ChainFrame, CountFrame DEF IndInv

\* An accepted proposal may commit its father and is voted for once.
LEMMA AcceptInv ==
  ASSUME IndInv, NEW r \in Replica, NEW h \in inbox[r], ReceiveProposal(r, h),
         Verify(r, proposals[h])
  PROVE  IndInv'
<1> DEFINE p      == proposals[h]
           newer  == NotAfter(generic_qc[r], p.qc)
           father == {p.qc.hash} \cap local_block[r]
           entry  == [hash |-> p.qc.hash,
                      next_primary |-> IF p.is_final THEN {NextLeader(p.view)} ELSE {}]
           vote   == [hash |-> h, signer |-> r]
<1>0. /\ inbox' = [inbox EXCEPT ![r] = @ \ {h}]
      /\ generic_qc' = IF newer THEN [generic_qc EXCEPT ![r] = p.qc] ELSE generic_qc
      /\ lock_qc' = IF newer THEN [lock_qc EXCEPT ![r] = p.qc] ELSE lock_qc
      /\ local_block' = [local_block EXCEPT ![r] = (@ \ father) \cup {h}]
      /\ commit_q' = IF father = {} THEN commit_q
                     ELSE [commit_q EXCEPT ![r] = Append(@, entry)]
      /\ votes' = votes \cup {vote}
      /\ UNCHANGED <<proposals, pc, outgoing, slot, round, receive, received_weight, min_done,
                     qc_done, certified, verifying, ready, crashed>>
  BY Zenon DEF ReceiveProposal, AddProposal, CommitProposal, GetProposal, Adopts, senderVars, collectVars
<1>t. TypeOK /\ TokenInv /\ ChainInv /\ VoteInv /\ CountInv /\ CommitInv /\ OrderInv
  BY Zenon DEF IndInv
<1>1. /\ h \in Sent /\ h \in Hash /\ p \in Proposal /\ last \in Nat /\ Sent = 1..last
      /\ KnownQC(p.qc) /\ p.qc.hash < h /\ p.qc.hash \in Nat /\ p.qc \in QC
  <2>1. h \in Sent BY Zenon, <1>t DEF VoteInv
  <2>2. h \in Hash /\ p \in Proposal /\ last \in Nat /\ Sent = 1..last
    BY <1>t, <2>1 DEF TypeOK, Sent, last
  <2>3. KnownQC(p.qc) /\ p.qc.hash < h BY Zenon, <1>t, <2>1 DEF ChainInv
  <2>4. p.qc \in QC BY Zenon, <2>2 DEF Proposal
  <2> QED BY <1>t, <2>1, <2>2, <2>3, <2>4, KnownType DEF QC
<1>2. last' = last /\ Sent' = Sent /\ \A g \in Hash : Collector(g)' = Collector(g)
  BY Zenon, <1>0 DEF last, Sent, Collector, NextLeader
<1>3. /\ \A q \in Replica : inbox'[q] \in SUBSET inbox[q]
      /\ h \notin inbox'[r]
  BY Zenon, <1>0, <1>t DEF TypeOK
<1>4. /\ \A q \in Replica : q # r => /\ generic_qc'[q] = generic_qc[q] /\ lock_qc'[q] = lock_qc[q]
                                     /\ local_block'[q] = local_block[q]
                                     /\ commit_q'[q] = commit_q[q] /\ inbox'[q] = inbox[q]
      /\ generic_qc'[r] = IF newer THEN p.qc ELSE generic_qc[r]
      /\ lock_qc'[r] = IF newer THEN p.qc ELSE lock_qc[r]
      /\ local_block'[r] = (local_block[r] \ father) \cup {h}
      /\ commit_q'[r] = IF father = {} THEN commit_q[r] ELSE Append(commit_q[r], entry)
      /\ inbox'[r] = inbox[r] \ {h}
  <2> HIDE DEF newer, father, entry
  <2> QED BY Zenon, <1>0, <1>t DEF TypeOK
<1>5. /\ father = {} \/ (father = {p.qc.hash} /\ p.qc.hash \in local_block[r])
      /\ entry.hash = p.qc.hash
      /\ entry.next_primary = IF p.is_final THEN {NextLeader(p.view)} ELSE {}
      /\ ForkTail = {} => p.qc.hash = h - 1
  BY Zenon, <1>1, <1>t DEF ChainInv, LinearChain
<1>6. father # {} => entry \in [hash : Hash, next_primary : SUBSET Replica]
  <2>1. NextLeader(p.view) \in Replica
    BY <1>1, ProtocolAssumption DEF NextLeader, Proposal, View
  <2> QED BY Zenon, <1>5, <1>t, <2>1 DEF TypeOK
<1>7. vote \in Certificate /\ vote.hash = h /\ vote.signer = r BY Zenon, <1>1 DEF Certificate
<1> HIDE DEF p, newer, father, entry, vote
<1>8. TypeOK'
  <2>1. inbox' \in [Replica -> SUBSET Hash] BY Zenon, <1>0, <1>t DEF TypeOK
  <2>2. generic_qc' \in [Replica -> QC] /\ lock_qc' \in [Replica -> QC]
    BY Zenon, <1>0, <1>1, <1>t DEF TypeOK
  <2>3. local_block' \in [Replica -> SUBSET Hash] BY Zenon, <1>0, <1>1, <1>t DEF TypeOK
  <2>4. commit_q' \in [Replica -> Seq([hash : Hash, next_primary : SUBSET Replica])]
    <3>1. CASE father = {} BY Zenon, <1>0, <1>t, <3>1 DEF TypeOK
    <3>2. CASE father # {}
      <4>1. commit_q[r] \in Seq([hash : Hash, next_primary : SUBSET Replica])
        BY Zenon, <1>t DEF TypeOK
      <4>2. Append(commit_q[r], entry) \in Seq([hash : Hash, next_primary : SUBSET Replica])
        BY <1>6, <3>2, <4>1
      <4> QED BY Zenon, <1>0, <1>t, <3>2, <4>2 DEF TypeOK
    <3> QED BY Zenon, <3>1, <3>2
  <2>5. votes' \subseteq Certificate BY Zenon, <1>0, <1>7, <1>t DEF TypeOK
  <2>6. bypassed' \in [Replica -> SUBSET Hash] BY Zenon, HandledNext
  <2> QED BY Zenon, <1>0, <1>t, <2>1, <2>2, <2>3, <2>4, <2>5, <2>6 DEF TypeOK
<1>9. TokenInv'
  <2>1. OneProposer' BY Zenon, <1>0, <1>t DEF TokenInv, OneProposer
  <2>2. \A q \in Replica : ready'[q] /\ pc'[q] # "send" =>
          IsLeader(q, round'[q]) /\ AtNextPosition(q)'
    <3> SUFFICES ASSUME NEW q \in Replica, ready[q], pc[q] # "send"
        PROVE  IsLeader(q, round[q]) /\ AtNextPosition(q)'
      BY Zenon, <1>0
    <3>1. IsLeader(q, round[q]) /\ AtNextPosition(q) BY Zenon, <1>t DEF TokenInv
    <3>2. last # 0 /\ last \in Hash BY <1>1, <1>t, ProtocolAssumption DEF TypeOK, Hash, last
    <3>3. ForkTail = {} /\ q = r => ~newer
      <4> SUFFICES ASSUME ForkTail = {}, q = r PROVE ~newer BY Zenon
      <4>1. generic_qc[r].hash = last BY Zenon, <3>1, <3>2 DEF AtNextPosition
      <4>2. KnownQC(generic_qc[r]) BY Zenon, <1>t DEF ChainInv
      <4>3. ~NotAfter(generic_qc[r], p.qc) BY <1>1, <1>t, <4>1, <4>2, KnownOrder
      <4> QED BY Zenon, <4>3 DEF newer
    <3>4. ForkTail = {} => generic_qc'[q] = generic_qc[q] BY Zenon, <1>4, <3>3
    <3> QED BY Zenon, <1>0, <1>2, <3>1, <3>2, <3>4 DEF AtNextPosition, Certified
  <2>3. \A q \in Replica : pc[q] = "send" => h # last
    BY <1>t DEF TokenInv
  <2>4. \A q, s \in Replica : pc[q] = "send" => last \notin local_block'[s]
    BY <1>4, <1>t, <2>3 DEF TokenInv
  <2>5. \A q \in Replica : pc[q] = "send" => \A c \in votes' \cup verifying' : c.hash # last
    BY Zenon, <1>0, <1>7, <1>t, <2>3 DEF TokenInv
  <2>6. \A q \in Replica : pc'[q] = "send" =>
       /\ last' > 0 /\ outgoing'[q] = last' /\ proposals'[last'].sender = q
       /\ ~Certified(last)'
       /\ \A s \in Replica : /\ last' \notin inbox'[s] /\ last' \notin local_block'[s]
                             /\ receive'[s][last'] = {}
       /\ \A c \in votes' \cup verifying' : c.hash # last'
    BY SMTT(30), <1>0, <1>2, <1>3, <1>t, <2>4, <2>5 DEF TokenInv, Certified
  <2> QED BY Zenon, <1>0, <1>2, <1>t, <2>1, <2>2, <2>6 DEF TokenInv, IsLeader
<1>10. ChainInv'
  <2>1. NoFork' /\ LinearChain'
    <3>1. NoFork /\ LinearChain BY Zenon, <1>t DEF ChainInv
    <3>2. proposals' = proposals /\ certified' = certified BY Zenon, <1>0
    <3>3. NoFork' BY <1>2, <3>1, <3>2 DEF NoFork, Certified, Before
    <3>4. LinearChain' BY Zenon, <1>2, <3>1, <3>2 DEF LinearChain
    <3> QED BY Zenon, <3>3, <3>4
  <2>2. \A q \in Replica : /\ KnownQC(generic_qc'[q]) /\ KnownQC(lock_qc'[q])
                           /\ lock_qc'[q].hash < last
                           /\ NotAfter(lock_qc'[q], generic_qc'[q])
    <3> SUFFICES ASSUME NEW q \in Replica
        PROVE  /\ KnownQC(generic_qc'[q]) /\ KnownQC(lock_qc'[q])
               /\ lock_qc'[q].hash < last /\ NotAfter(lock_qc'[q], generic_qc'[q])
      BY Zenon
    <3>1. /\ KnownQC(generic_qc[q]) /\ KnownQC(lock_qc[q]) /\ lock_qc[q].hash < last
          /\ NotAfter(lock_qc[q], generic_qc[q])
      BY <1>1, <1>t DEF ChainInv
    <3>2. NotAfter(p.qc, p.qc) BY <1>1 DEF NotAfter, QC
    <3>3. p.qc.hash < last BY SMTT(30), <1>1
    <3> QED BY Zenon, <1>1, <1>4, <3>1, <3>2, <3>3
  <2> QED BY <1>0, <1>2, <1>t, <2>1, <2>2 DEF ChainInv, KnownQC, IsLeader, NotAfter
<1>11. VoteInv'
  <2>1. vote \notin verifying BY Zenon, <1>7, <1>t DEF VoteInv
  <2>2. /\ r \notin receive[Collector(h)][h] /\ r \notin certified[h]
    <3>1. Collector(h) \in Replica
      BY <1>1, ProtocolAssumption DEF Collector, NextLeader, Proposal, View, p
    <3> QED BY Zenon, <1>t, <3>1 DEF VoteInv
  <2>3. \A c \in votes \cup verifying : c.signer \in Replica /\ c.hash \in Hash
    BY Zenon, <1>t DEF TypeOK, Certificate
  <2>4. \A c \in votes' \cup verifying' :
          /\ c.hash \in Sent /\ c.hash \notin inbox'[c.signer] /\ c.hash \in Hash
          /\ c.signer \notin receive[Collector(c.hash)][c.hash]
          /\ c.signer \notin certified[c.hash]
    <3>1. \A c \in votes \cup verifying :
            /\ c.hash \in Sent /\ c.hash \notin inbox'[c.signer]
            /\ c.signer \notin receive[Collector(c.hash)][c.hash]
            /\ c.signer \notin certified[c.hash]
      BY Zenon, <1>3, <1>t, <2>3 DEF VoteInv
    <3> QED BY Zenon, <1>0, <1>1, <1>3, <1>7, <2>2, <2>3, <3>1
  <2>5. \A q \in Replica : \A g \in inbox'[q] :
          /\ g \in Sent /\ q \notin certified[g]
          /\ \A s \in Replica : q \notin receive[s][g]
    BY Zenon, <1>3, <1>t DEF VoteInv
  <2>6. votes' \cap verifying' = {} BY Zenon, <1>0, <1>t, <2>1 DEF VoteInv
  <2> QED BY SMTT(30), <1>0, <1>2, <2>4, <2>5, <2>6 DEF VoteInv
<1>12. CommitInv'
  <2>1. \A q \in Replica : \A g \in local_block'[q] : g \in Sent /\ g \notin inbox'[q]
    <3>1. \A q \in Replica : \A g \in local_block[q] : g \in Sent /\ g \notin inbox[q]
      BY Zenon, <1>t DEF CommitInv
    <3>2. \A q \in Replica : q # r => local_block'[q] = local_block[q] BY Zenon, <1>4
    <3>3. \A g \in local_block'[r] : g \in local_block[r] \/ g = h BY Zenon, <1>4
    <3> QED BY Zenon, <1>1, <1>3, <3>1, <3>2, <3>3
  <2>2. \A q \in Replica : \A i \in DOMAIN commit_q[q] :
          /\ Certified(commit_q[q][i].hash)
          /\ commit_q[q][i].hash \notin inbox[q] /\ commit_q[q][i].hash \notin local_block[q]
          /\ ForkTail = {} =>
               /\ commit_q[q][i].hash + 1 \in Sent
               /\ commit_q[q][i].next_primary =
                    IF proposals[commit_q[q][i].hash + 1].is_final
                    THEN {NextLeader(proposals[commit_q[q][i].hash + 1].view)} ELSE {}
    BY Zenon, <1>t DEF CommitInv
  <2>3. father # {} => /\ Certified(entry.hash) /\ entry.hash \notin inbox'[r]
                       /\ entry.hash \notin local_block'[r] /\ entry.hash \in local_block[r]
                       /\ ForkTail = {} =>
                            /\ entry.hash + 1 \in Sent
                            /\ entry.next_primary = IF proposals[entry.hash + 1].is_final
                                 THEN {NextLeader(proposals[entry.hash + 1].view)} ELSE {}
    <3> SUFFICES ASSUME father # {}
        PROVE  /\ Certified(entry.hash) /\ entry.hash \notin inbox'[r]
               /\ entry.hash \notin local_block'[r] /\ entry.hash \in local_block[r]
               /\ ForkTail = {} =>
                    /\ entry.hash + 1 \in Sent
                    /\ entry.next_primary = IF proposals[entry.hash + 1].is_final
                         THEN {NextLeader(proposals[entry.hash + 1].view)} ELSE {}
      BY Zenon
    <3>1. entry.hash = p.qc.hash /\ father = {p.qc.hash} /\ p.qc.hash \in local_block[r] BY Zenon, <1>5
    <3>2. p.qc.hash # 0 BY <1>t, <3>1 DEF TypeOK, Hash
    <3>3. Certified(p.qc.hash) BY Zenon, <1>1, <1>t, <3>2, KnownType
    <3>4. p.qc.hash \notin inbox'[r] BY Zenon, <1>3, <1>t, <3>1 DEF CommitInv
    <3>5. p.qc.hash \notin local_block'[r] BY <1>1, <1>4, <3>1
    <3>6. ForkTail = {} => entry.hash + 1 = h
      <4>1. h \in Nat BY <1>1 DEF Hash
      <4>2. ForkTail = {} => p.qc.hash = h - 1 BY Zenon, <1>5
      <4> QED BY <3>1, <4>1, <4>2
    <3> QED BY Zenon, <1>1, <1>5, <3>1, <3>3, <3>4, <3>5, <3>6 DEF p
  <2>4. \A i \in DOMAIN commit_q[r] : /\ commit_q[r][i].hash \notin inbox'[r]
                                      /\ commit_q[r][i].hash \notin local_block'[r]
    <3>1. \A g \in local_block'[r] : g \in local_block[r] \/ g \in inbox[r] BY Zenon, <1>4
    <3> QED BY Zenon, <1>3, <2>2, <3>1
  <2> DEFINE Entries(q) ==
               /\ \A i \in DOMAIN commit_q'[q] :
                    /\ Certified(commit_q'[q][i].hash)
                    /\ commit_q'[q][i].hash \notin inbox'[q]
                    /\ commit_q'[q][i].hash \notin local_block'[q]
                    /\ ForkTail = {} =>
                         /\ commit_q'[q][i].hash + 1 \in Sent
                         /\ commit_q'[q][i].next_primary =
                              IF proposals[commit_q'[q][i].hash + 1].is_final
                              THEN {NextLeader(proposals[commit_q'[q][i].hash + 1].view)} ELSE {}
               /\ \A i, j \in DOMAIN commit_q'[q] :
                    commit_q'[q][i].hash = commit_q'[q][j].hash => i = j
  <2>5. ASSUME NEW q \in Replica, q # r PROVE Entries(q)
    <3>1. commit_q'[q] = commit_q[q] /\ local_block'[q] = local_block[q] /\ inbox'[q] = inbox[q]
      BY Zenon, <1>4, <2>5
    <3>2. \A i, j \in DOMAIN commit_q[q] : commit_q[q][i].hash = commit_q[q][j].hash => i = j
      BY Zenon, <1>t DEF CommitInv
    <3> QED BY Zenon, <2>2, <3>1, <3>2
  <2>6. Entries(r)
    <3>1. \A i, j \in DOMAIN commit_q[r] : commit_q[r][i].hash = commit_q[r][j].hash => i = j
      BY Zenon, <1>t DEF CommitInv
    <3>2. CASE father = {}
      <4>1. commit_q'[r] = commit_q[r] BY Zenon, <1>4, <3>2
      <4> QED BY Zenon, <2>2, <2>4, <3>1, <4>1
    <3>3. CASE father # {}
      <4>1. commit_q'[r] = Append(commit_q[r], entry) BY Zenon, <1>4, <3>3
      <4>2. commit_q[r] \in Seq([hash : Hash, next_primary : SUBSET Replica])
        BY Zenon, <1>t DEF TypeOK
      <4>3. /\ DOMAIN commit_q'[r] = DOMAIN commit_q[r] \cup {Len(commit_q[r]) + 1}
            /\ \A i \in DOMAIN commit_q[r] : commit_q'[r][i] = commit_q[r][i]
            /\ commit_q'[r][Len(commit_q[r]) + 1] = entry
        BY SMTT(30), <1>6, <3>3, <4>1, <4>2
      <4>4. \A i \in DOMAIN commit_q[r] : commit_q[r][i].hash # entry.hash
        BY Zenon, <2>2, <2>3, <3>3
      <4> QED BY Zenon, <2>2, <2>3, <2>4, <3>1, <3>3, <4>3, <4>4
    <3> QED BY Zenon, <3>2, <3>3
  <2> HIDE DEF Entries
  <2>7. \A q \in Replica : Entries(q) BY Zenon, <2>5, <2>6
  <2>8. proposals' = proposals /\ certified' = certified /\ Sent' = Sent BY Zenon, <1>0, <1>2
  <2> QED BY <2>1, <2>7, <2>8 DEF CommitInv, Certified, NextLeader, Entries
<1>13. OrderInv'
  <2> SUFFICES ASSUME ForkTail = {}, NEW q \in Replica PROVE ReplicaOrder(q)' BY Zenon DEF OrderInv
  <2>1. CASE q # r
    <3>1. Handled(q)' = Handled(q) /\ inbox'[q] = inbox[q] /\ bypassed'[q] = bypassed[q]
      BY Zenon, <2>1, HandledNext
    <3>2. /\ commit_q'[q] = commit_q[q] /\ local_block'[q] = local_block[q]
          /\ lock_qc'[q] = lock_qc[q] /\ CommittedBy(q)' = CommittedBy(q)
      BY Zenon, <1>4, <2>1 DEF CommittedBy
    <3>3. ReplicaOrder(q) BY Zenon, <1>t DEF OrderInv
    <3> QED BY Zenon, <3>1, <3>2, <3>3 DEF ReplicaOrder, LosesOnlyBypassed
  <2>2. CASE q = r
    <3> DEFINE B == bypassed[r] \cup {g \in inbox[r] : g < h}
               n == Len(commit_q[r])
    <3>1. /\ Handled(r)' = Handled(r) \cup {h} /\ inbox'[r] = inbox[r] \ {h} /\ bypassed'[r] = B
      BY Zenon, HandledNext
    <3>2. ReplicaOrder(r) BY Zenon, <1>t DEF OrderInv
    <3>3. p.qc.hash = h - 1 /\ h \in Nat /\ (h - 1) + 1 = h BY <1>1, <1>5 DEF Hash
    <3>4. commit_q[r] \in Seq([hash : Hash, next_primary : SUBSET Replica]) /\ n \in Nat
          /\ DOMAIN commit_q[r] = 1..n
      <4>1. commit_q[r] \in Seq([hash : Hash, next_primary : SUBSET Replica])
        BY Zenon, <1>t DEF TypeOK
      <4> QED BY <4>1
    <3>5. \/ father = {} /\ commit_q'[r] = commit_q[r] /\ CommittedBy(r)' = CommittedBy(r)
          \/ /\ father = {h - 1} /\ CommittedBy(r)' = CommittedBy(r) \cup {h - 1}
             /\ DOMAIN commit_q'[r] = 1..(n + 1)
             /\ \A i \in 1..n : commit_q'[r][i] = commit_q[r][i]
             /\ commit_q'[r][n + 1].hash = h - 1
      <4>1. CASE father = {}
        <5>1. commit_q'[r] = commit_q[r] BY Zenon, <1>4, <4>1
        <5> QED BY Zenon, <4>1, <5>1 DEF CommittedBy
      <4>2. CASE father # {}
        <5>1. father = {h - 1} /\ entry.hash = h - 1
          BY Zenon, <1>5, <3>3, <4>2
        <5>2. commit_q'[r] = Append(commit_q[r], entry) BY Zenon, <1>4, <4>2
        <5>3. /\ DOMAIN commit_q'[r] = 1..(n + 1)
              /\ \A i \in 1..n : commit_q'[r][i] = commit_q[r][i]
              /\ commit_q'[r][n + 1] = entry
          BY <1>6, <3>4, <4>2, <5>2
        <5>4. \A i : i \in 1..(n + 1) <=> i \in 1..n \/ i = n + 1 BY <3>4
        <5>5. CommittedBy(r)' = CommittedBy(r) \cup {h - 1}
          BY Zenon, <3>4, <5>1, <5>3, <5>4 DEF CommittedBy
        <5> QED BY Zenon, <5>1, <5>3, <5>5
      <4> QED BY Zenon, <4>1, <4>2
    <3>6. /\ local_block[r] \cup CommittedBy(r) \in SUBSET (local_block'[r] \cup CommittedBy(r)')
          /\ h \in local_block'[r] /\ CommittedBy(r) \in SUBSET CommittedBy(r)'
          /\ h - 1 \in local_block[r] => h - 1 \in CommittedBy(r)'
      <4>1. local_block'[r] = (local_block[r] \ father) \cup {h} BY Zenon, <1>4
      <4>2. h - 1 \in local_block[r] => father # {} BY Zenon, <3>3 DEF father
      <4> QED BY Zenon, <3>5, <4>1, <4>2
    <3>7. h \notin bypassed[r] => \A g \in Handled(r) : g < h BY Zenon, NotBypassed
    <3>8. \A k \in Handled(r)' :
            /\ \A g \in inbox'[r] : g < k => g \in B
            /\ k \notin B => k \in local_block'[r] \cup CommittedBy(r)'
      <4>1. \A k \in Handled(r) : /\ \A g \in inbox[r] : g < k => g \in bypassed[r]
                                  /\ k \notin bypassed[r] => k \in local_block[r] \cup CommittedBy(r)
        BY Zenon, <3>2 DEF ReplicaOrder
      <4> QED BY Zenon, <3>1, <3>6, <4>1
    <3>9. ASSUME NEW k \in Handled(r)', k > 1, {k - 1, k} \cap B = {}
          PROVE  k - 1 \in CommittedBy(r)'
      <4>1. CASE k \in Handled(r)
        <5>1. {k - 1, k} \cap bypassed[r] = {} BY Zenon, <3>9
        <5>2. k - 1 \in CommittedBy(r) BY Zenon, <3>2, <3>9, <4>1, <5>1 DEF ReplicaOrder, LosesOnlyBypassed
        <5> QED BY Zenon, <3>6, <5>2
      <4>2. CASE k = h
        <5>1. h - 1 \in Sent /\ h - 1 < h /\ h - 1 # last BY <1>1, <3>3, <3>9, <4>2
        <5>2. h - 1 \notin inbox[r] /\ h - 1 \notin bypassed[r] BY Zenon, <3>9, <4>2, <5>1
        <5>3. h - 1 \in Handled(r) BY Zenon, <5>1, <5>2 DEF Handled, InFlight, last
        <5>4. h - 1 \in local_block[r] \cup CommittedBy(r) BY Zenon, <3>2, <5>2, <5>3 DEF ReplicaOrder
        <5> QED BY Zenon, <3>6, <4>2, <5>4
      <4> QED BY Zenon, <3>1, <4>1, <4>2
    <3>10. ASSUME NEW i \in DOMAIN commit_q'[r], NEW j \in DOMAIN commit_q'[r], i < j,
                  commit_q'[r][j].hash < commit_q'[r][i].hash
           PROVE  commit_q'[r][j].hash + 1 \in B
      <4>1. CASE i \in DOMAIN commit_q[r] /\ j \in DOMAIN commit_q[r]
        <5>1. commit_q'[r][i] = commit_q[r][i] /\ commit_q'[r][j] = commit_q[r][j]
          BY Zenon, <3>4, <3>5, <4>1
        <5> QED BY Zenon, <3>2, <3>10, <4>1, <5>1 DEF ReplicaOrder, LosesOnlyBypassed
      <4>2. CASE ~(i \in DOMAIN commit_q[r] /\ j \in DOMAIN commit_q[r])
        <5>1. /\ \A k \in 1..n : commit_q'[r][k] = commit_q[r][k]
              /\ DOMAIN commit_q'[r] = 1..(n + 1) /\ commit_q'[r][n + 1].hash = h - 1
          BY Zenon, <3>5, <4>2
        <5>2. i \in 1..n /\ j = n + 1 BY <3>4, <3>10, <4>2, <5>1
        <5>3. commit_q[r][i].hash \in CommittedBy(r) BY Zenon, <3>4, <5>2 DEF CommittedBy
        <5>4. commit_q[r][i].hash + 1 \in Handled(r) BY Zenon, <3>2, <5>3 DEF ReplicaOrder
        <5>5. commit_q[r][i].hash \in Nat
          <6>1. commit_q[r][i] \in [hash : Hash, next_primary : SUBSET Replica]
            BY Zenon, <3>4, <5>2, ElementOf
          <6> QED BY <6>1 DEF Hash
        <5>6. h - 1 < commit_q[r][i].hash BY Zenon, <3>10, <5>1, <5>2
        <5>7. ~(commit_q[r][i].hash + 1 < h) BY <3>3, <5>5, <5>6
        <5>8. h \in bypassed[r] BY Zenon, <3>7, <5>4, <5>7
        <5> QED BY Zenon, <3>3, <5>1, <5>2, <5>8
      <4> QED BY Zenon, <4>1, <4>2
    <3>11. lock_qc'[r] # NoQC => lock_qc'[r].hash + 1 \in Handled(r)'
      BY Zenon, <1>4, <3>1, <3>2, <3>3 DEF ReplicaOrder
    <3>12. \A g \in CommittedBy(r)' : g + 1 \in Handled(r)'
      BY Zenon, <3>1, <3>2, <3>3, <3>5 DEF ReplicaOrder
    <3>13. ASSUME B = {}, NEW i \in DOMAIN commit_q'[r]
           PROVE  commit_q'[r][i].hash = i
      <4>1. bypassed[r] = {} /\ h \notin bypassed[r] BY Zenon, <3>13
      <4>2. \A k \in 1..n : commit_q[r][k].hash = k BY Zenon, <3>2, <3>4, <4>1 DEF ReplicaOrder
      <4>3. CASE i \in 1..n BY Zenon, <3>5, <4>2, <4>3
      <4>4. CASE i \notin 1..n
        <5>1. /\ father = {h - 1} /\ DOMAIN commit_q'[r] = 1..(n + 1)
              /\ commit_q'[r][n + 1].hash = h - 1
          BY Zenon, <3>4, <3>5, <4>4
        <5>2. i = n + 1 BY <3>4, <4>4, <5>1
        <5>3. h - 1 \in Hash /\ h - 1 \in Handled(r)
          <6>1. h - 1 \in local_block[r] BY Zenon, <5>1 DEF father
          <6>2. h - 1 \in Sent /\ h - 1 \notin inbox[r] BY Zenon, <1>t, <6>1 DEF CommitInv
          <6>3. h - 1 # last BY <1>1, <3>3
          <6>4. h - 1 \in Handled(r) BY Zenon, <6>2, <6>3 DEF Handled, InFlight, last
          <6> QED BY Zenon, <1>t, <6>1, <6>4 DEF TypeOK
        <5>4. n < h - 1
          <6>1. CASE n = 0 BY <5>3, <6>1 DEF Hash
          <6>2. CASE n # 0
            <7>1. n \in 1..n BY <3>4, <6>2
            <7>2. n \in CommittedBy(r) BY Zenon, <3>4, <4>2, <7>1 DEF CommittedBy
            <7>3. n + 1 < h BY Zenon, <3>2, <3>7, <4>1, <7>2 DEF ReplicaOrder
            <7> QED BY <3>3, <3>4, <7>3
          <6> QED BY Zenon, <6>1, <6>2
        <5>5. h - 1 > 1 => h - 2 \in 1..n
          <6> SUFFICES ASSUME h - 1 > 1 PROVE h - 2 \in 1..n BY Zenon
          <6>1. {(h - 1) - 1, h - 1} \cap bypassed[r] = {} BY Zenon, <4>1
          <6>2. (h - 1) - 1 \in CommittedBy(r)
            BY Zenon, <3>2, <5>3, <6>1 DEF ReplicaOrder, LosesOnlyBypassed
          <6>3. (h - 1) - 1 = h - 2 BY <3>3
          <6>4. PICK k \in 1..n : commit_q[r][k].hash = h - 2
            BY Zenon, <3>4, <6>2, <6>3 DEF CommittedBy
          <6> QED BY Zenon, <4>2, <6>4
        <5>6. n + 1 = h - 1 BY <3>3, <3>4, <5>3, <5>4, <5>5 DEF Hash
        <5> QED BY Zenon, <5>1, <5>2, <5>6
      <4> QED BY Zenon, <4>3, <4>4
    <3> HIDE DEF B
    <3>14. LosesOnlyBypassed(r)' BY Zenon, <3>1, <3>9, <3>10 DEF LosesOnlyBypassed
    <3> QED BY Zenon, <2>2, <3>1, <3>8, <3>11, <3>12, <3>13, <3>14 DEF ReplicaOrder
  <2> QED BY Zenon, <2>1, <2>2
<1>14. CountInv' BY Zenon, <1>0, <1>t, CountFrame
<1> QED BY Zenon, <1>8, <1>9, <1>10, <1>11, <1>12, <1>13, <1>14 DEF IndInv

-----------------------------------------------------------------------------
(* The theorems *)

\* Every step preserves the invariant.
LEMMA NextInv == IndInv /\ [Next]_vars => IndInv'
<1> SUFFICES ASSUME IndInv, [Next]_vars PROVE IndInv' BY Zenon
<1>1. CASE \E r \in Replica : WaitReady(r) BY Zenon, <1>1, WaitReadyInv
<1>2. CASE \E r \in Replica, is_final \in BOOLEAN : BuildProposal(r, is_final)
  BY Zenon, <1>2, BuildInv
<1>3. CASE \E r \in Replica : SendProposal(r) BY Zenon, <1>3, SendInv
<1>4. CASE \E r \in Replica : \E h \in inbox[r] : ReceiveProposal(r, h)
  BY Zenon, <1>4, AcceptInv, RejectInv
<1>5. CASE \E c \in votes : CheckCertificate(c) BY Zenon, <1>5, CheckInv
<1>6. ASSUME NEW c \in verifying, CollectCertificate(c) PROVE IndInv'
  <2> DEFINE h == c.hash
             r == Collector(h)
  <2>1. h \in Sent /\ c.signer \in Replica BY Zenon DEF IndInv, VoteInv, TypeOK, Certificate
  <2>2. received_weight[r][h] \in Nat /\ weights[c.signer] \in Nat /\ weight_threshold \in Nat
    <3>1. r \in Replica /\ h \in Hash BY Zenon, <2>1, CollectorType DEF IndInv
    <3>2. received_weight[r][h] \in Nat BY <3>1 DEF IndInv, TypeOK
    <3> QED BY Zenon, <2>1, <3>2, ThresholdType, WeightsAssumption
  <2>3. CASE received_weight[r][h] >= weight_threshold \/ c.signer \in receive[r][h]
    <3>1. UNCHANGED <<managerVars, collectVars, ready>>
      BY Zenon, <1>6, <2>2, <2>3 DEF CollectCertificate, Reached, signer_weight
    <3>2. /\ verifying' = verifying \ {c}
          /\ UNCHANGED <<senderVars, inbox, votes, commit_q, bypassed, crashed>>
      BY Zenon, <1>6 DEF CollectCertificate, Reached, signer_weight
    <3> QED BY Zenon, <3>1, <3>2, IgnoreInv
  <2>4. CASE /\ received_weight[r][h] < weight_threshold /\ c.signer \notin receive[r][h]
             /\ received_weight[r][h] + weights[c.signer] < weight_threshold
    BY Zenon, <1>6, <2>4, CountOneInv DEF CountsOnly
  <2>5. CASE /\ received_weight[r][h] < weight_threshold /\ c.signer \notin receive[r][h]
             /\ received_weight[r][h] + weights[c.signer] >= weight_threshold
    BY Zenon, <1>6, <2>5, FormInv DEF Completes
  <2> QED BY <2>2, <2>3, <2>4, <2>5
<1>7. CASE \E r \in Replica : Crash(r) BY Zenon, <1>7, CrashInv
<1>8. CASE UNCHANGED vars
  <2>1. UNCHANGED <<proposals, pc, outgoing, slot, round, generic_qc, lock_qc, local_block,
                    receive, received_weight, min_done, qc_done, certified, inbox, votes,
                    verifying, ready, commit_q, bypassed, crashed>>
    BY Zenon, <1>8 DEF vars, senderVars, managerVars, collectVars
  <2>2. TypeOK' BY Zenon, <2>1 DEF IndInv, TypeOK
  <2>3. \A h \in Hash : InFlight(h)' <=> InFlight(h) BY Zenon, <2>1 DEF InFlight, last
  <2> QED BY <2>1, <2>2, <2>3, ChainFrame, CountFrame, VoteFrame, CommitFrame, OrderFrame,
             TokenFrame DEF IndInv
<1> QED BY Zenon, <1>1, <1>2, <1>3, <1>4, <1>5, <1>6, <1>7, <1>8 DEF Next

\* IndInv holds in every reachable state, for every number of replicas, every
\* assignment of positive weights, every sequence of leaders and every bound.
THEOREM Invariance == Spec => []IndInv
BY InitInv, NextInv, PTL DEF Spec

\* The implementation's variables keep their types: in particular round_ and
\* slot never run past the chain.
THEOREM TypeCorrect == Spec => []TypeOK
<1>1. IndInv => TypeOK BY Zenon DEF IndInv
<1> QED BY <1>1, Invariance, PTL

\* ready_ is never set at two replicas although it is cleared outside mutex_.
THEOREM AtMostOneProposer == Spec => []OneProposer
<1>1. IndInv => OneProposer BY DEF IndInv, TokenInv
<1> QED BY <1>1, Invariance, PTL

\* No position is proposed twice, and a proposal is generated only when all
\* earlier ones are certified.
THEOREM NeverForks == Spec => []NoFork
<1>1. IndInv => NoFork BY Zenon DEF IndInv, ChainInv
<1> QED BY <1>1, Invariance, PTL

\* Without a tail-forking leader the proposals form a single chain.
THEOREM OneChain == Spec => []LinearChain
<1>1. IndInv => LinearChain BY Zenon DEF IndInv, ChainInv
<1> QED BY <1>1, Invariance, PTL

\* What a replica commits is certified by a weighted quorum, and is committed
\* once, in whatever order the proposals arrive.
THEOREM CommitSafety == Spec => []CommitsCertified
<1>1. IndInv => CommitsCertified
  <2> SUFFICES ASSUME IndInv PROVE CommitsCertified BY Zenon
  <2>t. TypeOK /\ CountInv /\ CommitInv BY Zenon DEF IndInv
  <2>1. ASSUME NEW r \in Replica, NEW i \in DOMAIN commit_q[r]
        PROVE  IsQuorum(certified[commit_q[r][i].hash])
    <3>1. commit_q[r] \in Seq([hash : Hash, next_primary : SUBSET Replica]) BY Zenon, <2>t DEF TypeOK
    <3>2. commit_q[r][i] \in [hash : Hash, next_primary : SUBSET Replica] BY Zenon, <3>1, EntryType
    <3>3. Certified(commit_q[r][i].hash) BY Zenon, <2>t DEF CommitInv
    <3> QED BY Zenon, <2>t, <3>2, <3>3 DEF CountInv
  <2> QED BY Zenon, <2>1, <2>t DEF CommitsCertified, CommitInv
<1> QED BY <1>1, Invariance, PTL

\* Two replicas never name different next primaries for the same proposal.
LEMMA EntriesAgree == IndInv => SameNextPrimary
<1> SUFFICES ASSUME IndInv, ForkTail = {},
                    NEW r \in Replica, NEW q \in Replica,
                    NEW i \in DOMAIN commit_q[r], NEW j \in DOMAIN commit_q[q],
                    commit_q[r][i].hash = commit_q[q][j].hash
    PROVE  commit_q[r][i] = commit_q[q][j]
  BY Zenon DEF SameNextPrimary
<1>1. \A s \in Replica : \A k \in DOMAIN commit_q[s] :
        commit_q[s][k].next_primary =
          IF proposals[commit_q[s][k].hash + 1].is_final
          THEN {NextLeader(proposals[commit_q[s][k].hash + 1].view)} ELSE {}
  BY Zenon DEF IndInv, CommitInv
<1>2. \A s \in Replica : \A k \in DOMAIN commit_q[s] :
        commit_q[s][k] \in [hash : Hash, next_primary : SUBSET Replica]
  <2> SUFFICES ASSUME NEW s \in Replica, NEW k \in DOMAIN commit_q[s]
      PROVE  commit_q[s][k] \in [hash : Hash, next_primary : SUBSET Replica]
    BY Zenon
  <2>1. commit_q[s] \in Seq([hash : Hash, next_primary : SUBSET Replica])
    BY Zenon DEF IndInv, TypeOK
  <2> QED BY Zenon, <2>1, EntryType
<1>3. commit_q[r][i].next_primary = commit_q[q][j].next_primary BY Zenon, <1>1
<1> QED BY <1>2, <1>3

\* The client hears the same next primary from every replica.
THEOREM NextPrimaryAgreement == Spec => []SameNextPrimary
BY EntriesAgree, Invariance, PTL

\* The newest proposal is never rejected, whatever the weights.
THEOREM NewestIsAccepted == Spec => []NewestAccepted
<1>1. IndInv => NewestAccepted
  <2> SUFFICES ASSUME IndInv, ForkTail = {}, NEW r \in Replica, last \in inbox[r]
      PROVE  Verify(r, proposals[last])
    BY Zenon DEF NewestAccepted, last
  <2>t. TypeOK /\ ChainInv /\ VoteInv /\ CountInv BY Zenon DEF IndInv
  <2>1. last \in Sent /\ last \in Nat /\ last > 0
    <3>1. last \in Sent BY Zenon, <2>t DEF VoteInv
    <3> QED BY <2>t, <3>1 DEF TypeOK, last, Sent
  <2>2. /\ KnownQC(proposals[last].qc) /\ proposals[last].qc.hash = last - 1
        /\ KnownQC(lock_qc[r]) /\ lock_qc[r].hash < last
        /\ last = 1 => proposals[last].view = 1
    BY Zenon, <2>1, <2>t DEF ChainInv, LinearChain
  <2>3. lock_qc[r].hash \in Nat BY <2>t DEF TypeOK, QC
  <2>4. NotAfter(lock_qc[r], proposals[last].qc) BY <2>1, <2>2, <2>3, <2>t, KnownOrder
  <2>5. last # 1 => VerifyQC(proposals[last].qc) BY <2>1, <2>2, <2>t, KnownVerifies
  <2> QED BY Zenon, <2>2, <2>4, <2>5 DEF Verify, SafeNode
<1> QED BY <1>1, Invariance, PTL

\* Two replicas that handle proposals in the order they were sent commit the
\* same sequence, up to the length they have reached, in whatever order the
\* other replicas handle theirs.
THEOREM Agreement == Spec => []PrefixAgreement
<1>1. IndInv => PrefixAgreement
  <2> SUFFICES ASSUME IndInv, ForkTail = {}, NEW r \in Replica, NEW q \in Replica,
                      bypassed[r] = {}, bypassed[q] = {},
                      NEW i \in DOMAIN commit_q[r] \cap DOMAIN commit_q[q]
      PROVE  commit_q[r][i] = commit_q[q][i]
    BY Zenon DEF PrefixAgreement
  <2>1. commit_q[r][i].hash = i /\ commit_q[q][i].hash = i
    BY Zenon DEF IndInv, OrderInv, ReplicaOrder
  <2>2. SameNextPrimary BY Zenon, EntriesAgree
  <2> QED BY <2>1, <2>2 DEF SameNextPrimary
<1> QED BY <1>1, Invariance, PTL

\* Worker threads that hand proposals to ReceiveProposal in another order cost
\* a replica only the commits of the proposals that were overtaken and of
\* their fathers; everything else it commits, and in the order of the chain.
THEOREM LossIsLocal == Spec => []OnlyBypassedLost
<1>1. IndInv => OnlyBypassedLost BY Zenon DEF IndInv, OrderInv, ReplicaOrder, OnlyBypassedLost
<1> QED BY <1>1, Invariance, PTL

-----------------------------------------------------------------------------
(* What a step may never do *)

\* A step leaves generic_qc_ and lock_qc_ alone, or is an accepted proposal
\* or a new QC.
LEMMA StepQcs ==
  ASSUME IndInv, [Next]_vars
  PROVE  \/ UNCHANGED <<generic_qc, lock_qc, certified>>
         \/ \E r \in Replica : \E h \in inbox[r] :
              ReceiveProposal(r, h) /\ AddProposal(r, h) /\ UNCHANGED certified
         \/ \E c \in verifying :
              /\ CollectCertificate(c)
              /\ received_weight[Collector(c.hash)][c.hash] < weight_threshold
              /\ c.signer \notin receive[Collector(c.hash)][c.hash]
              /\ received_weight[Collector(c.hash)][c.hash] + weights[c.signer] >= weight_threshold
              /\ FormQC(Collector(c.hash), c.hash, receive[Collector(c.hash)][c.hash] \cup {c.signer})
<1> USE DEF senderVars, managerVars, collectVars
<1>1. CASE \E r \in Replica : WaitReady(r) BY Zenon, <1>1 DEF WaitReady
<1>2. CASE \E r \in Replica, is_final \in BOOLEAN : BuildProposal(r, is_final)
  BY Zenon, <1>2 DEF BuildProposal
<1>3. CASE \E r \in Replica : SendProposal(r) BY Zenon, <1>3 DEF SendProposal
<1>4. CASE \E r \in Replica : \E h \in inbox[r] : ReceiveProposal(r, h)
  BY Zenon, <1>4 DEF ReceiveProposal
<1>5. CASE \E c \in votes : CheckCertificate(c) BY Zenon, <1>5 DEF CheckCertificate
<1>6. CASE \E c \in verifying : CollectCertificate(c)
  <2>0. PICK c \in verifying : CollectCertificate(c) BY Zenon, <1>6
  <2>1. c.hash \in Sent BY Zenon DEF IndInv, VoteInv
  <2>2. received_weight[Collector(c.hash)][c.hash] \in Nat
    <3>1. Collector(c.hash) \in Replica /\ c.hash \in Hash
      BY Zenon, <2>1, CollectorType DEF IndInv
    <3> QED BY <3>1 DEF IndInv, TypeOK
  <2>3. ~Reached(Collector(c.hash), c.hash) =>
          received_weight[Collector(c.hash)][c.hash] < weight_threshold
    BY SMTT(30), <2>2, ThresholdType DEF Reached
  <2> QED BY Zenon, <2>0, <2>3 DEF CollectCertificate, signer_weight
<1>7. CASE \E r \in Replica : Crash(r) BY Zenon, <1>7 DEF Crash
<1>8. CASE UNCHANGED vars BY Zenon, <1>8 DEF vars
<1> QED BY Zenon, <1>1, <1>2, <1>3, <1>4, <1>5, <1>6, <1>7, <1>8 DEF Next

\* No proposal is certified twice, although its count may be collected as
\* garbage while certificates for it are still between the two locks.
THEOREM NoSecondCertificate == Spec => CertifiedOnce
<1>1. IndInv /\ [Next]_vars =>
        [\A h \in Hash : Certified(h) => certified'[h] = certified[h]]_vars
  <2> SUFFICES ASSUME IndInv, [Next]_vars, NEW h \in Hash, Certified(h)
      PROVE  certified'[h] = certified[h]
    BY Zenon
  <2>1. CASE UNCHANGED certified BY Zenon, <2>1
  <2>2. ASSUME NEW c \in verifying,
               received_weight[Collector(c.hash)][c.hash] < weight_threshold,
               c.signer \notin receive[Collector(c.hash)][c.hash],
               received_weight[Collector(c.hash)][c.hash] + weights[c.signer] >= weight_threshold,
               FormQC(Collector(c.hash), c.hash,
                      receive[Collector(c.hash)][c.hash] \cup {c.signer})
        PROVE  certified'[h] = certified[h]
    <3>1. c.hash # h BY Zenon, <2>2, FormFacts
    <3> QED BY Zenon, <2>2, <3>1 DEF FormQC, IndInv, TypeOK
  <2> QED BY Zenon, <2>1, <2>2, StepQcs
<1> QED BY <1>1, Invariance, PTL DEF Spec, CertifiedOnce

\* lock_qc_ and generic_qc_ only move forward.
THEOREM NoRegress == Spec => QcsNeverRegress
<1>1. IndInv /\ [Next]_vars =>
        [\A r \in Replica : /\ NotAfter(lock_qc[r], lock_qc'[r])
                            /\ NotAfter(generic_qc[r], generic_qc'[r])]_vars
  <2> SUFFICES ASSUME IndInv, [Next]_vars, NEW q \in Replica
      PROVE  NotAfter(lock_qc[q], lock_qc'[q]) /\ NotAfter(generic_qc[q], generic_qc'[q])
    BY Zenon
  <2>t. TypeOK /\ ChainInv /\ VoteInv BY Zenon DEF IndInv
  <2>0. lock_qc[q] \in QC /\ generic_qc[q] \in QC BY Zenon, <2>t DEF TypeOK
  <2>s. NotAfter(lock_qc[q], lock_qc[q]) /\ NotAfter(generic_qc[q], generic_qc[q])
    BY <2>0 DEF NotAfter, QC
  <2>1. CASE UNCHANGED <<generic_qc, lock_qc>> BY Zenon, <2>1, <2>s
  <2>2. ASSUME NEW r \in Replica, NEW h \in inbox[r], AddProposal(r, h)
        PROVE  NotAfter(lock_qc[q], lock_qc'[q]) /\ NotAfter(generic_qc[q], generic_qc'[q])
    <3>1. CASE lock_qc'[q] = lock_qc[q] /\ generic_qc'[q] = generic_qc[q] BY Zenon, <2>s, <3>1
    <3>2. CASE /\ NotAfter(generic_qc[q], proposals[h].qc)
               /\ lock_qc'[q] = proposals[h].qc /\ generic_qc'[q] = proposals[h].qc
      <4>1. h \in Sent /\ proposals[h] \in Proposal
        BY Zenon, <2>t, CollectorType DEF VoteInv
      <4>2. proposals[h].qc \in QC /\ NotAfter(lock_qc[q], generic_qc[q])
        BY Zenon, <2>t, <4>1 DEF Proposal, ChainInv
      <4>3. NotAfter(lock_qc[q], proposals[h].qc)
        BY SMTT(30), <2>0, <3>2, <4>2 DEF NotAfter, QC
      <4> QED BY Zenon, <3>2, <4>3
    <3> QED BY Zenon, <2>2, <2>t, <3>1, <3>2 DEF AddProposal, Adopts, TypeOK
  <2>3. ASSUME NEW c \in verifying, c.hash \in Sent,
               FormQC(Collector(c.hash), c.hash,
                      receive[Collector(c.hash)][c.hash] \cup {c.signer})
        PROVE  NotAfter(lock_qc[q], lock_qc'[q]) /\ NotAfter(generic_qc[q], generic_qc'[q])
    <3> DEFINE qc == [hash |-> c.hash, view |-> proposals[c.hash].view,
                      slot |-> proposals[c.hash].slot,
                      is_final |-> proposals[c.hash].is_final,
                      signatures |-> receive[Collector(c.hash)][c.hash] \cup {c.signer}]
    <3>1. proposals[c.hash] \in Proposal BY Zenon, <2>3, <2>t, CollectorType
    <3>2. lock_qc' = lock_qc BY Zenon, <2>3 DEF FormQC, AddQC, Newer, managerVars
    <3>3. \/ generic_qc'[q] = generic_qc[q]
          \/ /\ generic_qc'[q] = qc
             /\ generic_qc[q].view = 0 \/ Before(generic_qc[q], qc)
      BY Zenon, <2>3, <2>t DEF FormQC, AddQC, Newer, managerVars, TypeOK
    <3>4. CASE generic_qc[q].view = 0 \/ Before(generic_qc[q], qc)
      <4>1. /\ qc.view = proposals[c.hash].view /\ qc.slot = proposals[c.hash].slot
            /\ qc.view \in Nat /\ qc.view >= 1 /\ qc.slot \in Nat
        BY <3>1 DEF Proposal
      <4>2. generic_qc[q].view \in Nat /\ generic_qc[q].slot \in Nat BY <2>0 DEF QC
      <4> HIDE DEF qc
      <4>3. NotAfter(generic_qc[q], qc) BY SMTT(30), <3>4, <4>1, <4>2 DEF NotAfter, Before
      <4> QED BY Zenon, <2>s, <3>2, <3>3, <4>3
    <3> QED BY Zenon, <2>s, <3>2, <3>3, <3>4
  <2>4. \A c \in verifying : c.hash \in Sent BY Zenon, <2>t DEF VoteInv
  <2> QED BY Zenon, <2>1, <2>2, <2>3, <2>4, StepQcs
<1> QED BY <1>1, Invariance, PTL DEF Spec, QcsNeverRegress

-----------------------------------------------------------------------------
(* The fast path *)

\* A step that keeps the finished positions and every certified proposal keeps
\* where the finished positions come from.
LEMMA DoneFrame ==
  ASSUME DoneInv, UNCHANGED <<min_done, qc_done, certified>>,
         \A g \in Sent : g \in Sent' /\ proposals'[g] = proposals[g]
  PROVE  DoneInv'
<1>1. \A g \in Sent : Certified(g) => Certified(g)' BY Zenon DEF Certified
<1>2. ASSUME NEW r \in Replica, min_done[r].view # 0
      PROVE  \E g \in Sent' : Certified(g)' /\
               min_done[r] = [view |-> proposals'[g].view, slot |-> proposals'[g].slot]
  BY Zenon, <1>1, <1>2 DEF DoneInv
<1>3. ASSUME NEW r \in Replica, NEW k \in qc_done[r]
      PROVE  \E g \in Sent' : Certified(g)' /\ k = QcKey(proposals'[g].view, proposals'[g].slot)
  BY SMTT(30), <1>1 DEF DoneInv
<1> QED BY Zenon, <1>2, <1>3 DEF DoneInv

\* What the fast path compares with keeps coming from certified proposals.
LEMMA DoneStep ==
  ASSUME IndInv, DoneInv, [Next]_vars
  PROVE  DoneInv'
<1>t. TypeOK BY Zenon DEF IndInv
<1>1. CASE /\ UNCHANGED <<min_done, qc_done, certified>>
           /\ proposals' = proposals \/ \E p : proposals' = Append(proposals, p)
  <2>1. \A g \in Sent : g \in Sent' /\ proposals'[g] = proposals[g]
    <3>1. CASE proposals' = proposals BY Zenon, <3>1 DEF Sent
    <3>2. CASE \E p : proposals' = Append(proposals, p)
      <4>1. proposals \in Seq(Proposal) BY Zenon, <1>t DEF TypeOK
      <4>2. PICK p : proposals' = Append(proposals, p) BY Zenon, <3>2
      <4>3. /\ Len(Append(proposals, p)) = Len(proposals) + 1 /\ Len(proposals) \in Nat
            /\ \A g \in 1..Len(proposals) : Append(proposals, p)[g] = proposals[g]
        BY SMTT(30), <4>1
      <4> QED BY <4>2, <4>3 DEF Sent
    <3> QED BY Zenon, <1>1, <3>1, <3>2
  <2> QED BY Zenon, <1>1, <2>1, DoneFrame
<1>2. ASSUME NEW c \in verifying, CollectCertificate(c),
             FormQC(Collector(c.hash), c.hash, receive[Collector(c.hash)][c.hash] \cup {c.signer})
      PROVE  DoneInv'
  <2> DEFINE h == c.hash
             r == Collector(h)
             p == proposals[h]
  <2>1. h \in Sent /\ r \in Replica /\ h \in Hash
    <3>1. h \in Sent BY SMTT(30) DEF IndInv, VoteInv
    <3> QED BY <3>1, <1>t, CollectorType
  <2>2. proposals' = proposals /\ Sent' = Sent
    BY <1>2 DEF CollectCertificate, senderVars, Sent
  <2>3. certified' = [certified EXCEPT ![h] = receive[r][h] \cup {c.signer}]
    BY Zenon, <1>2 DEF FormQC
  <2>4. \A g \in Sent : Certified(g) \/ g = h => Certified(g)'
    <3>1. \A g \in Sent : g \in Hash BY <1>t, CollectorType
    <3> QED BY Zenon, <1>t, <2>1, <2>3, <3>1 DEF Certified, TypeOK
  <2>5. \A q \in Replica : min_done'[q] = min_done[q] \/ min_done'[q] = [view |-> p.view, slot |-> p.slot]
    BY Zenon, <1>2, <1>t DEF FormQC, TypeOK
  <2>6. \A q \in Replica : \A k \in qc_done'[q] : k \in qc_done[q] \/ k = QcKey(p.view, p.slot)
    BY Zenon, <1>2, <1>t DEF FormQC, TypeOK
  <2>7. ASSUME NEW q \in Replica
        PROVE  min_done'[q].view = 0 \/ \E g \in Sent' :
                 Certified(g)' /\ min_done'[q] = [view |-> proposals'[g].view, slot |-> proposals'[g].slot]
    BY SMTT(30), <2>1, <2>2, <2>4, <2>5 DEF DoneInv
  <2>8. ASSUME NEW q \in Replica, NEW k \in qc_done'[q]
        PROVE  \E g \in Sent' : Certified(g)' /\ k = QcKey(proposals'[g].view, proposals'[g].slot)
    BY <2>1, <2>2, <2>4, <2>6 DEF DoneInv
  <2> QED BY <2>7, <2>8 DEF DoneInv
<1> USE DEF senderVars, managerVars, collectVars
<1>3. CASE \E r \in Replica : WaitReady(r) BY SMTT(30), <1>1, <1>3 DEF WaitReady
<1>4. CASE \E r \in Replica, is_final \in BOOLEAN : BuildProposal(r, is_final)
  BY <1>1, <1>4 DEF BuildProposal
<1>5. CASE \E r \in Replica : SendProposal(r) BY SMTT(30), <1>1, <1>5 DEF SendProposal
<1>6. CASE \E r \in Replica : \E h \in inbox[r] : ReceiveProposal(r, h)
  BY <1>1, <1>6 DEF ReceiveProposal
<1>7. CASE \E c \in votes : CheckCertificate(c) BY Zenon, <1>1, <1>7 DEF CheckCertificate
<1>8. CASE \E c \in verifying : CollectCertificate(c)
  BY Zenon, <1>1, <1>2, <1>8 DEF CollectCertificate
<1>9. CASE \E r \in Replica : Crash(r) BY <1>1, <1>9 DEF Crash
<1>10. CASE UNCHANGED vars BY <1>1, <1>10 DEF vars
<1> QED BY <1>3, <1>4, <1>5, <1>6, <1>7, <1>8, <1>9, <1>10 DEF Next

\* A finished position is one whose proposal has its QC: positions are not
\* proposed twice, and slots below 100000 give distinct keys.
LEMMA FinishedCertified ==
  ASSUME IndInv, DoneInv, MaxProposals <= 100000, NEW h \in Sent, NEW r \in Replica,
         Finished(r, proposals[h])
  PROVE  Certified(h)
<1>t. TypeOK /\ ChainInv BY SMTT(30) DEF IndInv
<1>1. \A g \in Sent : /\ proposals[g].view \in Nat /\ proposals[g].view >= 1
                      /\ proposals[g].slot \in Nat /\ proposals[g].slot < 100000
  <2> SUFFICES ASSUME NEW g \in Sent
      PROVE  /\ proposals[g].view \in Nat /\ proposals[g].view >= 1
             /\ proposals[g].slot \in Nat /\ proposals[g].slot < 100000
    OBVIOUS
  <2>1. proposals[g] \in Proposal /\ g \in Hash BY SMTT(30), <1>t, CollectorType
  <2>2. proposals[g].slot < g BY <1>t DEF ChainInv
  <2>3. proposals[g].view \in 1..MaxProposals /\ proposals[g].slot \in 0..MaxProposals
    BY <2>1 DEF Proposal
  <2> QED BY <2>1, <2>2, <2>3, ProtocolAssumption DEF Hash
<1>2. \A g \in Sent : Certified(g) /\ NotAfter(proposals[h], proposals[g]) => Certified(h)
  <2> SUFFICES ASSUME NEW g \in Sent, Certified(g), NotAfter(proposals[h], proposals[g])
      PROVE  Certified(h)
    OBVIOUS
  <2>1. g \in Int /\ h \in Int BY DEF Sent
  <2>2. CASE g = h BY SMTT(30), <2>2
  <2>3. CASE h < g BY <2>3, <1>t DEF ChainInv, NoFork
  <2>4. CASE g < h
    <3>1. Before(proposals[g], proposals[h]) BY SMTT(30), <2>4, <1>t DEF ChainInv, NoFork
    <3> QED BY SMTT(30), <3>1, <1>1 DEF Before, NotAfter
  <2> QED BY <2>1, <2>2, <2>3, <2>4
<1>3. CASE NotAfter(proposals[h], min_done[r])
  <2>1. CASE min_done[r].view = 0
    BY SMTT(30), <1>1, <1>3, <2>1 DEF NotAfter
  <2>2. CASE \E g \in Sent : Certified(g) /\ min_done[r] = [view |-> proposals[g].view, slot |-> proposals[g].slot]
    <3>1. PICK g \in Sent : Certified(g) /\ min_done[r] = [view |-> proposals[g].view, slot |-> proposals[g].slot]
      BY SMTT(30), <2>2
    <3>2. NotAfter(proposals[h], proposals[g]) BY <1>3, <3>1 DEF NotAfter
    <3> QED BY <1>2, <3>1, <3>2
  <2> QED BY <2>1, <2>2 DEF DoneInv
<1>4. CASE QcKey(proposals[h].view, proposals[h].slot) \in qc_done[r]
  <2>1. PICK g \in Sent : /\ Certified(g)
                         /\ QcKey(proposals[h].view, proposals[h].slot)
                              = QcKey(proposals[g].view, proposals[g].slot)
    BY <1>4 DEF DoneInv
  <2>2. ASSUME NEW v \in Nat, NEW w \in Nat, NEW a \in Nat, NEW b \in Nat,
               a < 100000, b < 100000, v * 100000 + a = w * 100000 + b
        PROVE  v = w /\ a = b
    BY SMTT(30), <2>2
  <2>3. proposals[h].view = proposals[g].view /\ proposals[h].slot = proposals[g].slot
    <3>1. proposals[h].view * 100000 + proposals[h].slot
            = proposals[g].view * 100000 + proposals[g].slot
      BY <2>1 DEF QcKey
    <3> QED BY <1>1, <2>2, <3>1
  <2>4. NotAfter(proposals[h], proposals[g]) BY <1>1, <2>3 DEF NotAfter
  <2> QED BY SMTT(30), <1>2, <2>1, <2>4
<1> QED BY <1>3, <1>4 DEF Finished

\* The fast path drops only certificates of proposals that have their QC, as
\* long as no view has 100000 slots (key = view * 100000 + slot).
THEOREM FastPathDropsNothingNeeded ==
  ASSUME MaxProposals <= 100000
  PROVE  Spec => FastPathSound
<1>1. Init => DoneInv
  BY DEF Init, DoneInv
<1>2. IndInv /\ DoneInv /\ [Next]_vars => DoneInv' BY SMTT(30), DoneStep
<1>3. IndInv /\ DoneInv /\ [Next]_vars =>
        [\A c \in votes : c \notin votes' \cup verifying' => Certified(c.hash)]_vars
  <2> SUFFICES ASSUME IndInv, DoneInv, [Next]_vars, NEW c \in votes,
                      c \notin votes' \cup verifying'
      PROVE  Certified(c.hash)
    OBVIOUS
  <2>0. c.hash \in Sent BY DEF IndInv, VoteInv
  <2>n. Next \/ UNCHANGED vars OBVIOUS
  <2>1. CASE \E r \in Replica : WaitReady(r) BY <2>1 DEF WaitReady
  <2>2. CASE \E r \in Replica, is_final \in BOOLEAN : BuildProposal(r, is_final)
    BY <2>2 DEF BuildProposal
  <2>3. CASE \E r \in Replica : SendProposal(r) BY <2>3 DEF SendProposal
  <2>4. CASE \E r \in Replica : \E h \in inbox[r] : ReceiveProposal(r, h)
    BY SMTT(30), <2>4 DEF ReceiveProposal
  <2>5. CASE \E d \in votes : CheckCertificate(d)
    <3>1. PICK d \in votes : CheckCertificate(d) BY <2>5
    <3>2. d = c /\ Finished(Collector(c.hash), proposals[c.hash])
      BY <3>1 DEF CheckCertificate
    <3>3. Collector(c.hash) \in Replica BY <2>0, CollectorType DEF IndInv
    <3> QED BY <2>0, <3>2, <3>3, FinishedCertified
  <2>6. CASE \E d \in verifying : CollectCertificate(d)
    <3>1. PICK d \in verifying : CollectCertificate(d) BY SMTT(30), <2>6
    <3>2. votes' = votes BY <3>1, SMTT(20) DEF CollectCertificate
    <3> QED BY <3>2
  <2>7. CASE \E r \in Replica : Crash(r) BY <2>7 DEF Crash
  <2>8. CASE UNCHANGED vars BY <2>8 DEF vars
  <2> QED BY <2>n, <2>1, <2>2, <2>3, <2>4, <2>5, <2>6, <2>7, <2>8, SMTT(20) DEF Next
<1> QED BY <1>1, <1>2, <1>3, Invariance, PTL DEF Spec, FastPathSound

-----------------------------------------------------------------------------
(* TdHotstuff refines ReplicatedLog: a step of the sender that generates a   *)
(* proposal decides the one before it, a replica that handles a proposal     *)
(* commits the next decided one, and every other step stutters.              *)

\* The decided entries form a sequence, one shorter than the chain.
LEMMA DecidedSeq ==
  ASSUME NEW ps \in Seq(Proposal), Len(ps) > 0
  PROVE  LET d == [h \in 1..(Len(ps) - 1) |-> Committed(h, ps[h + 1])]
         IN  Len(d) = Len(ps) - 1 /\ d = [h \in 1..Len(d) |-> Committed(h, ps[h + 1])]
<1> DEFINE d == [h \in 1..(Len(ps) - 1) |-> Committed(h, ps[h + 1])]
<1>1. Len(ps) - 1 \in Nat OBVIOUS
<1>2. DOMAIN d = 1..(Len(ps) - 1) BY Zenon
<1>3. Len(d) = Len(ps) - 1 BY <1>1, <1>2
<1> QED BY Zenon, <1>3

\* Generating a proposal decides the one before it; the first proposal of the
\* chain decides nothing.
LEMMA BuildDecides ==
  ASSUME IndInv, NEW r \in Replica, NEW is_final \in BOOLEAN, BuildProposal(r, is_final)
  PROVE  decided' = decided \/ \E e \in Entry : decided' = Append(decided, e)
<1> DEFINE p == [view |-> round[r], slot |-> slot[r], is_final |-> is_final,
                 qc |-> generic_qc[r], sender |-> r]
           n == Len(proposals)
<1>1. proposals \in Seq(Proposal) /\ n \in Nat /\ n < MaxProposals
  BY SMTT(30) DEF IndInv, TypeOK, BuildProposal
<1>2. proposals' = Append(proposals, p) BY Zenon DEF BuildProposal
<1>3. Len(proposals') = n + 1 /\ proposals'[n + 1] = p
      /\ \A h \in 1..n : proposals'[h] = proposals[h]
  <2> HIDE DEF p
  <2>1. Len(Append(proposals, p)) = n + 1 BY <1>1
  <2>2. Append(proposals, p)[n + 1] = p BY <1>1
  <2>3. \A h \in 1..n : Append(proposals, p)[h] = proposals[h] BY <1>1
  <2> QED BY Zenon, <1>2, <2>1, <2>2, <2>3
<1>4. CASE n = 0
  <2>1. decided = [h \in {} |-> Committed(h, proposals[h + 1])] BY <1>4 DEF decided
  <2>2. decided' = [h \in {} |-> Committed(h, proposals'[h + 1])]
    <3>1. Len(proposals') - 1 = 0 BY <1>1, <1>3, <1>4
    <3>2. 1..0 = {} OBVIOUS
    <3>3. decided' = [h \in 1..0 |-> Committed(h, proposals'[h + 1])] BY Zenon, <3>1 DEF decided
    <3> QED BY Zenon, <3>2, <3>3
  <2> QED BY Zenon, <2>1, <2>2
<1>5. CASE n # 0
  <2> DEFINE e == Committed(n, p)
  <2>1. n \in Hash /\ round[r] \in View /\ NextLeader(round[r]) \in Replica
    <3>1. n \in Hash BY <1>1, <1>5, ProtocolAssumption DEF Hash
    <3>2. IndInv' BY Zenon, BuildInv
    <3>3. proposals' \in Seq(Proposal) BY Zenon, <3>2 DEF IndInv, TypeOK
    <3>4. p \in Proposal
      <4>1. n + 1 \in 1..Len(proposals') BY <1>1, <1>3
      <4>2. proposals'[n + 1] \in Proposal BY SMTT(30), <3>3, <4>1
      <4> QED BY Zenon, <1>3, <4>2
    <3>5. round[r] \in 1..MaxProposals BY Zenon, <3>4 DEF Proposal
    <3>6. round[r] + 1 \in View /\ round[r] \in View
      BY SMTT(30), <3>5, ProtocolAssumption DEF View
    <3> QED BY Zenon, <3>1, <3>6, ProtocolAssumption DEF NextLeader
  <2>2. e \in Entry BY Zenon, <2>1 DEF Entry, Committed
  <2>3. Len(decided) = n - 1 /\ decided = [h \in 1..(n - 1) |-> Committed(h, proposals[h + 1])]
    BY SMTT(30), <1>1, <1>5, DecidedSeq DEF decided
  <2>4. decided' = [h \in 1..n |-> Committed(h, proposals'[h + 1])]
    BY SMTT(30), <1>1, <1>3 DEF decided
  <2>5. Append(decided, e) = [h \in 1..n |-> IF h = n THEN e ELSE decided[h]]
    <3>1. n = Len(decided) + 1 BY SMTT(30), <1>1, <2>3
    <3>2. Append(decided, e) = [h \in 1..(Len(decided) + 1) |->
                                  IF h = Len(decided) + 1 THEN e ELSE decided[h]]
      <4> DEFINE E == {decided[h] : h \in 1..(n - 1)}
      <4>1. decided \in [1..(n - 1) -> E] BY Zenon, <2>3
      <4>2. n - 1 \in Nat BY <1>1, <1>5
      <4>3. decided \in Seq(E) BY SMTT(30), <4>1, <4>2
      <4> QED BY <4>3
    <3> QED BY Zenon, <3>1, <3>2
  <2>6. \A h \in 1..n : Committed(h, proposals'[h + 1]) = IF h = n THEN e ELSE decided[h]
    <3> SUFFICES ASSUME NEW h \in 1..n
        PROVE  Committed(h, proposals'[h + 1]) = IF h = n THEN e ELSE decided[h]
      BY Zenon
    <3>1. CASE h = n BY Zenon, <1>3, <3>1
    <3>2. CASE h # n
      <4>1. h + 1 \in 1..n /\ h \in 1..(n - 1) BY SMTT(30), <1>1, <3>2
      <4>2. proposals'[h + 1] = proposals[h + 1] BY Zenon, <1>3, <4>1
      <4> QED BY Zenon, <2>3, <3>2, <4>1, <4>2
    <3> QED BY Zenon, <3>1, <3>2
  <2>7. decided' = Append(decided, e) BY Zenon, <2>4, <2>5, <2>6
  <2> QED BY Zenon, <2>2, <2>7
<1> QED BY Zenon, <1>4, <1>5

\* Handling a proposal hands on a decided entry that was not handed on before,
\* the next one unless the replica is out of order, or nothing.
LEMMA ReceiveCommits ==
  ASSUME IndInv, ForkTail = {}, NEW r \in Replica, NEW h \in inbox[r], ReceiveProposal(r, h)
  PROVE  [Log!Next]_(Log!logVars)
<1> DEFINE p == proposals[h]
           D == {q \in Replica : bypassed[q] # {}}
           D2 == {q \in Replica : bypassed'[q] # {}}
<1>t. TypeOK /\ ChainInv /\ VoteInv /\ CommitInv BY Zenon DEF IndInv
<1>1. h \in Sent /\ p.qc.hash = h - 1 BY Zenon, <1>t DEF VoteInv, ChainInv, LinearChain
<1>2. UNCHANGED decided BY Zenon DEF ReceiveProposal, senderVars, decided
<1>3. D2 = D \/ D2 = D \cup {r} BY Zenon, HandledNext
<1>4. CASE GetProposal(r, p.qc.hash) = {} \/ ~Verify(r, p)
  <2>1. UNCHANGED commit_q BY Zenon, <1>4 DEF ReceiveProposal, CommitProposal
  <2> QED BY Zenon, <1>2, <1>3, <2>1 DEF Log!Next, Log!Disorder, Log!logVars
<1>5. CASE GetProposal(r, p.qc.hash) # {} /\ Verify(r, p)
  <2>1. commit_q' = [commit_q EXCEPT ![r] = Append(@, Committed(h - 1, p))]
    BY Zenon, <1>1, <1>5 DEF ReceiveProposal, CommitProposal, Committed
  <2>2. h - 1 \in local_block[r] BY Zenon, <1>1, <1>5 DEF GetProposal
  <2>3. proposals \in Seq(Proposal) /\ Len(proposals) \in Nat /\ h \in 1..Len(proposals)
    BY SMTT(30), <1>1, <1>t DEF TypeOK, Sent
  <2>4. h - 1 \in Nat \ {0} BY <1>t, <2>2 DEF TypeOK, Hash
  <2>5. Len(decided) = Len(proposals) - 1 /\
        decided = [g \in 1..(Len(proposals) - 1) |-> Committed(g, proposals[g + 1])]
    BY <2>3, DecidedSeq DEF decided
  <2>6. h - 1 \in 1..Len(decided) BY <2>3, <2>4, <2>5
  <2>7. decided[h - 1] = Committed(h - 1, p)
    <3>1. (h - 1) + 1 = h BY <2>3
    <3> QED BY Zenon, <2>5, <2>6, <3>1
  <2>8. \A k \in DOMAIN commit_q[r] : commit_q[r][k] # decided[h - 1]
    <3>1. \A k \in DOMAIN commit_q[r] : commit_q[r][k].hash # h - 1
      BY Zenon, <1>t, <2>2 DEF CommitInv
    <3>2. decided[h - 1].hash = h - 1 BY <2>7 DEF Committed
    <3> QED BY Zenon, <3>1, <3>2
  <2>9. r \in D2 \/ h - 1 = Len(commit_q[r]) + 1
    <3> SUFFICES ASSUME bypassed'[r] = {} PROVE h - 1 = Len(commit_q[r]) + 1 BY Zenon
    <3>1. ReplicaOrder(r)'
      <4>1. IndInv' BY Zenon, AcceptInv, RejectInv
      <4> QED BY Zenon, <4>1 DEF IndInv, OrderInv
    <3>2. commit_q[r] \in Seq([hash : Hash, next_primary : SUBSET Replica]) BY Zenon, <1>t DEF TypeOK
    <3>3. commit_q'[r] = Append(commit_q[r], decided[h - 1]) BY Zenon, <1>t, <2>1, <2>7 DEF TypeOK
    <3>4. decided[h - 1] \in [hash : Hash, next_primary : SUBSET Replica]
      <4>1. IndInv' BY Zenon, AcceptInv, RejectInv
      <4>2. commit_q'[r] \in Seq([hash : Hash, next_primary : SUBSET Replica])
        BY Zenon, <4>1 DEF IndInv, TypeOK
      <4>3. Len(commit_q[r]) \in Nat BY <3>2
      <4>4. /\ Len(commit_q[r]) + 1 \in 1..Len(commit_q'[r])
            /\ commit_q'[r][Len(commit_q[r]) + 1] = decided[h - 1]
        BY <3>2, <3>3, <4>3
      <4> QED BY Zenon, <4>2, <4>4, ElementOf
    <3>5. /\ Len(commit_q[r]) + 1 \in DOMAIN commit_q'[r]
          /\ commit_q'[r][Len(commit_q[r]) + 1] = decided[h - 1]
      BY <3>2, <3>3, <3>4
    <3>6. commit_q'[r][Len(commit_q[r]) + 1].hash = Len(commit_q[r]) + 1
      BY Zenon, <3>1, <3>5 DEF ReplicaOrder
    <3>7. decided[h - 1].hash = h - 1 BY <2>7 DEF Committed
    <3> QED BY Zenon, <3>5, <3>6, <3>7
  <2>10. Log!Commit(r, h - 1)
    <3>1. commit_q' = [commit_q EXCEPT ![r] = Append(@, decided[h - 1])] BY Zenon, <2>1, <2>7
    <3>2. D2 = D \cup {r} \/ (D2 = D /\ (r \in D \/ h - 1 = Len(commit_q[r]) + 1))
      BY Zenon, <1>3, <2>9
    <3> QED BY Zenon, <1>2, <2>8, <3>1, <3>2 DEF Log!Commit, Log!Disorder
  <2> QED BY Zenon, <2>6, <2>10 DEF Log!Next
<1> QED BY Zenon, <1>4, <1>5

\* Every step of the protocol is a step of the abstract log or a stutter.
LEMMA StepRefines ==
  ASSUME IndInv, ForkTail = {}, [Next]_vars
  PROVE  [Log!Next]_(Log!logVars)
<1> USE DEF senderVars, managerVars, collectVars
<1>0. CASE UNCHANGED <<proposals, commit_q, bypassed>> BY Zenon, <1>0 DEF Log!logVars, decided
<1>1. CASE \E r \in Replica : WaitReady(r) BY Zenon, <1>0, <1>1 DEF WaitReady
<1>2. CASE \E r \in Replica, is_final \in BOOLEAN : BuildProposal(r, is_final)
  <2>1. PICK r \in Replica, is_final \in BOOLEAN : BuildProposal(r, is_final) BY Zenon, <1>2
  <2>2. UNCHANGED <<commit_q, bypassed>> BY Zenon, <2>1 DEF BuildProposal
  <2>3. decided' = decided \/ \E e \in Entry : decided' = Append(decided, e)
    BY Zenon, <2>1, BuildDecides
  <2> QED BY Zenon, <2>2, <2>3 DEF Log!Next, Log!Decide, Log!logVars
<1>3. CASE \E r \in Replica : SendProposal(r) BY Zenon, <1>0, <1>3 DEF SendProposal
<1>4. CASE \E r \in Replica : \E h \in inbox[r] : ReceiveProposal(r, h)
  BY Zenon, <1>4, ReceiveCommits
<1>5. CASE \E c \in votes : CheckCertificate(c) BY Zenon, <1>0, <1>5 DEF CheckCertificate
<1>6. CASE \E c \in verifying : CollectCertificate(c) BY Zenon, <1>0, <1>6 DEF CollectCertificate
<1>7. CASE \E r \in Replica : Crash(r) BY Zenon, <1>0, <1>7 DEF Crash
<1>8. CASE UNCHANGED vars BY Zenon, <1>0, <1>8 DEF vars
<1> QED BY Zenon, <1>1, <1>2, <1>3, <1>4, <1>5, <1>6, <1>7, <1>8 DEF Next

\* When no leader forks the tail, what the replicas push on commit_q_ is what
\* ReplicatedLog allows, in whatever order they handle the proposals.
THEOREM RefinesLog == ForkTail = {} => (Spec => ImplementsLog)
<1> SUFFICES ASSUME ForkTail = {} PROVE Spec => ImplementsLog BY Zenon
<1>1. Init => Log!Init
  <2> SUFFICES ASSUME Init PROVE Log!Init BY Zenon
  <2>1. Len(proposals) = 0 BY Zenon DEF Init
  <2>2. decided = [h \in {} |-> Committed(h, proposals[h + 1])] BY <2>1 DEF decided
  <2>3. decided = <<>> BY <2>2
  <2> QED BY Zenon, <2>3 DEF Init, Log!Init
<1>2. IndInv /\ [Next]_vars => [Log!Next]_(Log!logVars) BY Zenon, StepRefines
<1> QED BY <1>1, <1>2, Invariance, PTL DEF Spec, ImplementsLog, Log!Spec
=============================================================================
