--------------------------- MODULE TdHotstuffInv ----------------------------
(***************************************************************************)
(* The inductive invariant of TdHotstuff.  The right to propose is a token *)
(* that alternates between one ready replica and one proposal in flight;   *)
(* the other parts say what the certificates still on their way can do.    *)
(***************************************************************************)
EXTENDS TdHotstuff

last == Len(proposals)

\* A QC is known if it is the empty one or certifies one of the proposals ps
\* with the signers cert.
IsQcOf(qc, ps, cert) ==
  \/ qc = NoQC
  \/ /\ qc.hash \in 1..Len(ps)
     /\ cert[qc.hash] # {}
     /\ qc = [hash |-> qc.hash, view |-> ps[qc.hash].view, slot |-> ps[qc.hash].slot,
              is_final |-> ps[qc.hash].is_final, signatures |-> cert[qc.hash]]

KnownQC(qc) == IsQcOf(qc, proposals, certified)

\* The position that follows the last proposal is the one r would propose.
AtNextPosition(r) ==
  IF last = 0 THEN round[r] = 1
  ELSE /\ Certified(last)
       /\ r = Collector(last)
       /\ round[r] = IF proposals[last].is_final THEN proposals[last].view + 1
                     ELSE proposals[last].view
       /\ ForkTail = {} => generic_qc[r].hash = last

TokenInv ==
  /\ OneProposer
  /\ \A r \in Replica : ready[r] /\ pc[r] # "send" =>
       IsLeader(r, round[r]) /\ AtNextPosition(r)
  /\ \A r \in Replica : pc[r] = "send" =>
       /\ last > 0 /\ outgoing[r] = last /\ proposals[last].sender = r
       /\ ~Certified(last)
       /\ \A q \in Replica : /\ last \notin inbox[q] /\ last \notin local_block[q]
                             /\ receive[q][last] = {}
       /\ \A c \in votes \cup verifying : c.hash # last
  /\ \A r \in Replica :
       slot[r] = IF last > 0 /\ proposals[last].sender = r /\ ~proposals[last].is_final
                 THEN proposals[last].slot + 1 ELSE 0
  /\ last > 0 /\ ~proposals[last].is_final =>
       round[proposals[last].sender] = proposals[last].view

ChainInv ==
  /\ NoFork
  /\ LinearChain
  /\ \A h \in Sent : /\ proposals[h].view <= h /\ proposals[h].slot < h
                     /\ proposals[h].qc.hash < h
                     /\ KnownQC(proposals[h].qc)
                     /\ IsLeader(proposals[h].sender, proposals[h].view)
                     /\ h = 1 => proposals[h].view = 1
  /\ \A r \in Replica : /\ round[r] <= last + 1
                        /\ KnownQC(generic_qc[r])
                        /\ KnownQC(lock_qc[r]) /\ (last > 0 => lock_qc[r].hash < last)
                        /\ NotAfter(lock_qc[r], generic_qc[r])

VoteInv ==
  /\ votes \cap verifying = {}
  /\ \A c \in votes \cup verifying :
       /\ c.hash \in Sent
       /\ c.hash \notin inbox[c.signer]
       /\ c.signer \notin receive[Collector(c.hash)][c.hash]
       /\ c.signer \notin certified[c.hash]
  /\ \A r \in Replica : \A h \in inbox[r] :
       /\ h \in Sent
       /\ r \notin certified[h]
       /\ \A q \in Replica : r \notin receive[q][h]

CountInv ==
  /\ \A h \in Hash : Certified(h) => h \in Sent /\ IsQuorum(certified[h])
  /\ \A r \in Replica, h \in Hash : /\ received_weight[r][h] = Weight(receive[r][h])
                                    /\ receive[r][h] # {} => h \in Sent
  /\ \A h \in Sent : Certified(h) =>
       \/ IsQuorum(receive[Collector(h)][h])
       \/ receive[Collector(h)][h] \cap certified[h] = {}

CommitInv ==
  \A r \in Replica :
    /\ \A h \in local_block[r] : h \in Sent /\ h \notin inbox[r]
    /\ \A i \in DOMAIN commit_q[r] :
         LET e == commit_q[r][i]
         IN  /\ Certified(e.hash) /\ e.hash \notin inbox[r] /\ e.hash \notin local_block[r]
             /\ ForkTail = {} =>
                  /\ e.hash + 1 \in Sent
                  /\ e.next_primary = IF proposals[e.hash + 1].is_final
                                      THEN {NextLeader(proposals[e.hash + 1].view)} ELSE {}
    /\ \A i, j \in DOMAIN commit_q[r] :
         commit_q[r][i].hash = commit_q[r][j].hash => i = j

\* What a replica has handled is stored or committed unless it was bypassed,
\* a commit and a lock come from a proposal it has handled, and without a
\* bypass it has committed a prefix of the chain.
ReplicaOrder(r) ==
  /\ \A h \in Handled(r) :
       /\ \A g \in inbox[r] : g < h => g \in bypassed[r]
       /\ h \notin bypassed[r] => h \in local_block[r] \cup CommittedBy(r)
  /\ LosesOnlyBypassed(r)
  /\ lock_qc[r] # NoQC => lock_qc[r].hash + 1 \in Handled(r)
  /\ \A g \in CommittedBy(r) : g + 1 \in Handled(r)
  /\ bypassed[r] = {} => \A i \in DOMAIN commit_q[r] : commit_q[r][i].hash = i

OrderInv == ForkTail = {} => \A r \in Replica : ReplicaOrder(r)

\* What the fast path compares with comes from certified proposals.
DoneInv ==
  \A r \in Replica :
    /\ min_done[r].view = 0 \/ \E g \in Sent :
         Certified(g) /\ min_done[r] = [view |-> proposals[g].view, slot |-> proposals[g].slot]
    /\ \A k \in qc_done[r] : \E g \in Sent :
         Certified(g) /\ k = QcKey(proposals[g].view, proposals[g].slot)

\* The inductive invariant.
IndInv == TypeOK /\ TokenInv /\ ChainInv /\ VoteInv /\ CountInv /\ CommitInv /\ OrderInv
=============================================================================
