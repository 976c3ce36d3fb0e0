----------------------------- MODULE TdHotstuff -----------------------------
(***************************************************************************)
(* The TD-HotStuff protocol (td_hotstuff/algorithm): replicas that hand a  *)
(* chain of proposals from leader to leader.  A proposal is identified by  *)
(* its hash, here its index in the history `proposals`; hashes do not      *)
(* collide.  The threads of one replica are interleaved where the code     *)
(* releases its locks: AsyncSend takes three steps and ReceiveCertificate  *)
(* two.  ReceiveProposal holds mutex_ from verification to commit.         *)
(***************************************************************************)
EXTENDS WeightedQuorum, Sequences

CONSTANTS
  VRFLeader,    \* VRFLeader[view]: the elected leader (module LeaderElection)
  ForkTail,     \* leaders with id < 3*fork_tail_num_ and id % 3 = 1
  MayCrash,     \* replicas that may stop for good
  MaxProposals  \* bound on the length of the chain

Hash == 1..MaxProposals
View == 1..(MaxProposals + 1)

ASSUME ProtocolAssumption ==
  /\ MaxProposals \in Nat
  /\ VRFLeader \in [View -> Replica]
  /\ ForkTail \subseteq Replica
  /\ MayCrash \subseteq Replica

VARIABLES
  proposals,        \* every proposal generated so far; its index is its hash
  inbox,            \* hashes sent to a replica that it has not handled yet
  votes,            \* certificates on their way to their collector
  verifying,        \* certificates past the fast path, before rec_mutex_
  pc,               \* where the AsyncSend thread of a replica stands
  outgoing,         \* the proposal AsyncSend is about to send, 0 if none
  slot,             \* local variable slot of AsyncSend
  ready,            \* ready_
  round,            \* round_
  generic_qc,       \* generic_qc_
  lock_qc,          \* lock_qc_
  local_block,      \* keys of local_block_
  receive,          \* receive_: the signers counted for each hash
  received_weight,  \* received_weight_, 0 for an absent entry
  min_done,         \* <<min_view_, min_slot_>>
  qc_done,          \* qc_done_
  commit_q,         \* everything pushed on commit_q_, in order
  certified,        \* history: the signers of the QC formed for each hash
  bypassed,         \* history: the hashes a replica had when it handled a newer one
  crashed           \* replicas that stopped

managerVars == <<round, generic_qc, lock_qc, local_block>>
senderVars  == <<proposals, pc, outgoing, slot>>
collectVars == <<receive, received_weight, min_done, qc_done, certified>>
vars == <<senderVars, managerVars, collectVars, inbox, votes, verifying,
          ready, commit_q, bypassed, crashed>>

NoQC == [hash |-> 0, view |-> 0, slot |-> 0, is_final |-> FALSE, signatures |-> {}]

QC == [hash : 0..MaxProposals, view : 0..MaxProposals, slot : 0..MaxProposals,
       is_final : BOOLEAN, signatures : SUBSET Replica]

Proposal == [view : 1..MaxProposals, slot : 0..MaxProposals, is_final : BOOLEAN,
             qc : QC, sender : Replica]

Certificate == [hash : Hash, signer : Replica]

\* Position (view, slot) of a proposal or of the proposal a QC certifies.
Before(a, b)  == a.view < b.view \/ (a.view = b.view /\ a.slot < b.slot)
NotAfter(a, b) == a.view < b.view \/ (a.view = b.view /\ a.slot <= b.slot)

NextLeader(view) == VRFLeader[view + 1]

IsLeader(r, view) == VRFLeader[view] = r

Ready(r) == IsLeader(r, round[r]) /\ ready[r]

\* ReceiveProposal sends its vote to the next leader once the view is over.
Collector(h) == IF proposals[h].is_final THEN NextLeader(proposals[h].view)
                ELSE proposals[h].sender

QcKey(view, s) == view * 100000 + s

Init ==
  /\ proposals = <<>>
  /\ inbox = [r \in Replica |-> {}]
  /\ votes = {}
  /\ verifying = {}
  /\ pc = [r \in Replica |-> "wait"]
  /\ outgoing = [r \in Replica |-> 0]
  /\ slot = [r \in Replica |-> 0]
  /\ ready = [r \in Replica |-> IsLeader(r, 1)]
  /\ round = [r \in Replica |-> 1]
  /\ generic_qc = [r \in Replica |-> NoQC]
  /\ lock_qc = [r \in Replica |-> NoQC]
  /\ local_block = [r \in Replica |-> {}]
  /\ receive = [r \in Replica |-> [h \in Hash |-> {}]]
  /\ received_weight = [r \in Replica |-> [h \in Hash |-> 0]]
  /\ min_done = [r \in Replica |-> [view |-> 0, slot |-> 0]]
  /\ qc_done = [r \in Replica |-> {}]
  /\ commit_q = [r \in Replica |-> <<>>]
  /\ certified = [h \in Hash |-> {}]
  /\ bypassed = [r \in Replica |-> {}]
  /\ crashed = {}

-----------------------------------------------------------------------------
(* AsyncSend *)

\* The loop that waits on vote_cv_ until the replica leads and is ready.
WaitReady(r) ==
  /\ r \notin crashed
  /\ pc[r] = "wait"
  /\ Ready(r)
  /\ pc' = [pc EXCEPT ![r] = "build"]
  /\ UNCHANGED <<proposals, outgoing, slot, managerVars, collectVars, inbox,
                 votes, verifying, ready, commit_q, bypassed, crashed>>

\* GenerateProposal under mutex_.  Whether the view's timer has run out is
\* left open; the transaction popped before is identified with the proposal.
BuildProposal(r, is_final) ==
  /\ r \notin crashed
  /\ pc[r] = "build"
  /\ Len(proposals) < MaxProposals
  /\ proposals' = Append(proposals,
       [view |-> round[r], slot |-> slot[r], is_final |-> is_final,
        qc |-> generic_qc[r], sender |-> r])
  /\ slot' = [slot EXCEPT ![r] = IF is_final THEN 0 ELSE @ + 1]
  /\ outgoing' = [outgoing EXCEPT ![r] = Len(proposals) + 1]
  /\ pc' = [pc EXCEPT ![r] = "send"]
  /\ UNCHANGED <<managerVars, collectVars, inbox, votes, verifying, ready,
                 commit_q, bypassed, crashed>>

\* ready_ is cleared only here, after mutex_ was released; then the broadcast.
SendProposal(r) ==
  /\ r \notin crashed
  /\ pc[r] = "send"
  /\ ready' = [ready EXCEPT ![r] = FALSE]
  /\ inbox' = [q \in Replica |-> inbox[q] \cup {outgoing[r]}]
  /\ outgoing' = [outgoing EXCEPT ![r] = 0]
  /\ pc' = [pc EXCEPT ![r] = "wait"]
  /\ UNCHANGED <<proposals, slot, managerVars, collectVars, votes, verifying,
                 commit_q, bypassed, crashed>>

-----------------------------------------------------------------------------
(* ReceiveProposal *)

SafeNode(r, p) == NotAfter(lock_qc[r], p.qc)

\* Mutant: as many signatures as the threshold has units of weight.
VerifyQCUnits(qc) == Cardinality(qc.signatures) >= weight_threshold
VerifyQC(qc) == Cardinality(qc.signatures) >= min_sigs

Verify(r, p) == p.view = 1 \/ (SafeNode(r, p) /\ VerifyQC(p.qc))

\* A proposal's QC replaces generic_qc_ and lock_qc_ unless it is older.
\* Mutant: it always does.
AdoptsAlways(r, qc) == TRUE
Adopts(r, qc) == NotAfter(generic_qc[r], qc)

GetProposal(r, hash) == {hash} \cap local_block[r]

\* The father is committed; when the child is final, the father's transactions
\* name the next leader for the client.
\* Mutant: the leader after round_.
CommitOwnRound(r, p) ==
  commit_q' = IF GetProposal(r, p.qc.hash) = {} THEN commit_q
              ELSE [commit_q EXCEPT ![r] = Append(@,
                     [hash |-> p.qc.hash,
                      next_primary |-> IF p.is_final THEN {NextLeader(round[r])} ELSE {}])]
CommitProposal(r, p) ==
  commit_q' = IF GetProposal(r, p.qc.hash) = {} THEN commit_q
              ELSE [commit_q EXCEPT ![r] = Append(@,
                     [hash |-> p.qc.hash,
                      next_primary |-> IF p.is_final THEN {NextLeader(p.view)} ELSE {}])]

\* A father found in local_block_ leaves it.
AddProposal(r, h) ==
  LET p     == proposals[h]
      newer == Adopts(r, p.qc)
  IN  /\ generic_qc' = IF newer THEN [generic_qc EXCEPT ![r] = p.qc] ELSE generic_qc
      /\ lock_qc' = IF newer THEN [lock_qc EXCEPT ![r] = p.qc] ELSE lock_qc
      /\ local_block' = [local_block EXCEPT ![r] = (@ \ GetProposal(r, p.qc.hash)) \cup {h}]
      /\ UNCHANGED round

\* The worker threads of a replica take messages from one queue, and any of
\* them may get mutex_ first: proposals are handled in any order.
ReceiveProposal(r, h) ==
  /\ r \notin crashed
  /\ h \in inbox[r]
  /\ inbox' = [inbox EXCEPT ![r] = @ \ {h}]
  /\ bypassed' = [bypassed EXCEPT ![r] = @ \cup {g \in inbox[r] : g < h}]
  /\ \/ /\ Verify(r, proposals[h])
        /\ AddProposal(r, h)
        /\ CommitProposal(r, proposals[h])
        /\ votes' = votes \cup {[hash |-> h, signer |-> r]}
     \/ /\ ~Verify(r, proposals[h])
        /\ UNCHANGED <<managerVars, commit_q, votes>>
  /\ UNCHANGED <<senderVars, collectVars, verifying, ready, crashed>>

-----------------------------------------------------------------------------
(* ReceiveCertificate *)

\* A position is finished at r if it is not after the one of the latest QC
\* or if its key is among those of earlier ones.
\* Mutant: a QC finishes all slots of its view.
FinishedView(r, p) == p.view <= min_done[r].view \/ QcKey(p.view, p.slot) \in qc_done[r]
Finished(r, p) == NotAfter(p, min_done[r]) \/ QcKey(p.view, p.slot) \in qc_done[r]

\* Fast path under rec_mutex2_: drop a certificate of a finished position.
CheckCertificate(c) ==
  LET r == Collector(c.hash)
  IN  /\ r \notin crashed
      /\ c \in votes
      /\ votes' = votes \ {c}
      /\ verifying' = IF Finished(r, proposals[c.hash]) THEN verifying ELSE verifying \cup {c}
      /\ UNCHANGED <<senderVars, managerVars, collectVars, inbox, ready,
                     commit_q, bypassed, crashed>>

\* A QC the replica formed is taken if it is newer than generic_qc_.
\* Mutant: slots are not compared.
NewerView(r, qc) == generic_qc[r].view = 0 \/ generic_qc[r].view < qc.view
Newer(r, qc) == generic_qc[r].view = 0 \/ Before(generic_qc[r], qc)

\* The next leader of a tail-forked view ignores its final QC but moves on.
AddQC(r, qc) ==
  IF Newer(r, qc)
  THEN /\ generic_qc' = IF VRFLeader[qc.view] \in ForkTail /\ qc.is_final
                        THEN generic_qc ELSE [generic_qc EXCEPT ![r] = qc]
       /\ round' = IF qc.is_final THEN [round EXCEPT ![r] = qc.view + 1] ELSE round
       /\ UNCHANGED <<lock_qc, local_block>>
  ELSE UNCHANGED managerVars

\* The hashes whose entries are dropped when a QC forms: those of view - 2.
Collected(h) == LET v == proposals[h].view
                IN  IF v > 2 THEN {g \in 1..Len(proposals) : proposals[g].view = v - 2}
                    ELSE {}

FormQC(r, h, signers) ==
  LET p == proposals[h]
      qc == [hash |-> h, view |-> p.view, slot |-> p.slot,
             is_final |-> p.is_final, signatures |-> signers]
  IN  /\ min_done' = [min_done EXCEPT ![r] = [view |-> p.view, slot |-> p.slot]]
      /\ qc_done' = [qc_done EXCEPT ![r] =
           {k \in @ \cup {QcKey(p.view, p.slot)} :
              p.view > 2 => k >= QcKey(p.view - 2, 0)}]
      /\ AddQC(r, qc)
      /\ ready' = [ready EXCEPT ![r] = TRUE]
      /\ certified' = [certified EXCEPT ![h] = signers]

\* The QC for h was formed while the certificate was verified.
\* Mutant: no second look after the lock is taken.
NeverReached(r, h) == FALSE
Reached(r, h) == received_weight[r][h] >= weight_threshold

\* Mutant: the largest weight for every signer.
LargestWeight(c) == max_weight
signer_weight(c) == weights[c.signer]

\* The second critical section, under rec_mutex_.
CollectCertificate(c) ==
  LET h == c.hash
      r == Collector(h)
      counted == receive[r][h] \cup {c.signer}
      current_weight == received_weight[r][h] + signer_weight(c)
      gc == IF current_weight >= weight_threshold THEN Collected(h) ELSE {}
  IN  /\ r \notin crashed
      /\ c \in verifying
      /\ verifying' = verifying \ {c}
      /\ \/ /\ Reached(r, h) \/ c.signer \in receive[r][h]
            /\ UNCHANGED <<managerVars, collectVars, ready>>
         \/ /\ ~Reached(r, h)
            /\ c.signer \notin receive[r][h]
            /\ receive' = [receive EXCEPT ![r] =
                 [g \in Hash |-> IF g \in gc THEN {} ELSE IF g = h THEN counted ELSE @[g]]]
            /\ received_weight' = [received_weight EXCEPT ![r] =
                 [g \in Hash |-> IF g \in gc THEN 0 ELSE IF g = h THEN current_weight ELSE @[g]]]
            /\ \/ /\ current_weight >= weight_threshold
                  /\ FormQC(r, h, counted)
               \/ /\ current_weight < weight_threshold
                  /\ UNCHANGED <<managerVars, min_done, qc_done, certified, ready>>
      /\ UNCHANGED <<senderVars, inbox, votes, commit_q, bypassed, crashed>>

-----------------------------------------------------------------------------
\* A replica stops; nothing of the protocol's state survives a restart.
Crash(r) ==
  /\ r \in MayCrash \ crashed
  /\ crashed' = crashed \cup {r}
  /\ UNCHANGED <<senderVars, managerVars, collectVars, inbox, votes, verifying,
                 ready, commit_q, bypassed>>

Next ==
  \/ \E r \in Replica : WaitReady(r)
  \/ \E r \in Replica, is_final \in BOOLEAN : BuildProposal(r, is_final)
  \/ \E r \in Replica : SendProposal(r)
  \/ \E r \in Replica : \E h \in inbox[r] : ReceiveProposal(r, h)
  \/ \E c \in votes : CheckCertificate(c)
  \/ \E c \in verifying : CollectCertificate(c)
  \/ \E r \in Replica : Crash(r)

Spec == Init /\ [][Next]_vars

\* The threads of a live replica keep running and its queues are served: the
\* sender loop, the worker threads and the links to a live replica are fair.
Fairness ==
  /\ \A r \in Replica :
       /\ WF_vars(WaitReady(r))
       /\ WF_vars(\E is_final \in BOOLEAN : BuildProposal(r, is_final))
       /\ WF_vars(SendProposal(r))
       /\ WF_vars(\E h \in inbox[r] : ReceiveProposal(r, h))
       /\ WF_vars(\E c \in votes : Collector(c.hash) = r /\ CheckCertificate(c))
       /\ WF_vars(\E c \in verifying : Collector(c.hash) = r /\ CollectCertificate(c))

FairSpec == Spec /\ Fairness

-----------------------------------------------------------------------------
(* Properties *)

Sent == 1..Len(proposals)
Certified(h) == certified[h] # {}
InFlight(h) == \E r \in Replica : pc[r] = "send" /\ h = Len(proposals)
Handled(r) == {h \in Sent : h \notin inbox[r] /\ ~InFlight(h)}
CommittedBy(r) == {commit_q[r][i].hash : i \in DOMAIN commit_q[r]}

\* Every variable has its type.
TypeOK ==
  /\ proposals \in Seq(Proposal) /\ Len(proposals) <= MaxProposals
  /\ inbox \in [Replica -> SUBSET Hash]
  /\ votes \subseteq Certificate
  /\ verifying \subseteq Certificate
  /\ pc \in [Replica -> {"wait", "build", "send"}]
  /\ outgoing \in [Replica -> 0..MaxProposals]
  /\ slot \in [Replica -> 0..MaxProposals]
  /\ ready \in [Replica -> BOOLEAN]
  /\ round \in [Replica -> View]
  /\ generic_qc \in [Replica -> QC]
  /\ lock_qc \in [Replica -> QC]
  /\ local_block \in [Replica -> SUBSET Hash]
  /\ receive \in [Replica -> [Hash -> SUBSET Replica]]
  /\ received_weight \in [Replica -> [Hash -> Nat]]
  /\ min_done \in [Replica -> [view : 0..MaxProposals, slot : 0..MaxProposals]]
  /\ qc_done \in [Replica -> SUBSET Nat]
  /\ commit_q \in [Replica -> Seq([hash : Hash, next_primary : SUBSET Replica])]
  /\ certified \in [Hash -> SUBSET Replica]
  /\ bypassed \in [Replica -> SUBSET Hash]
  /\ crashed \subseteq MayCrash

\* At most one replica may propose at any time: ready_, which AsyncSend clears
\* after it has released mutex_, is never set at two replicas, and a replica
\* that is past the wait loop is the one that is ready.
OneProposer ==
  /\ \A r, q \in Replica : ready[r] /\ ready[q] => r = q
  /\ \A r \in Replica : pc[r] # "wait" => ready[r]

\* A proposal is generated only once the one before it is certified, and the
\* positions (view, slot) of the proposals strictly increase: no position is
\* ever proposed twice.
NoFork ==
  \A g, h \in Sent : g < h => Certified(g) /\ Before(proposals[g], proposals[h])

\* Without a tail-forking leader, every proposal carries the QC of the one
\* generated just before it: the proposals form one chain.
LinearChain ==
  ForkTail = {} => \A h \in Sent : proposals[h].qc.hash = h - 1

\* A replica commits a proposal only if a weighted quorum certified it, and
\* commits no proposal twice.
CommitsCertified ==
  \A r \in Replica :
    /\ \A i \in DOMAIN commit_q[r] : IsQuorum(certified[commit_q[r][i].hash])
    /\ \A i, j \in DOMAIN commit_q[r] :
         commit_q[r][i].hash = commit_q[r][j].hash => i = j

\* Two replicas that commit the same proposal name the same next primary to
\* the client, in whatever order they handled the proposals.
SameNextPrimary ==
  ForkTail = {} =>
    \A r, q \in Replica :
      \A i \in DOMAIN commit_q[r], j \in DOMAIN commit_q[q] :
        commit_q[r][i].hash = commit_q[q][j].hash => commit_q[r][i] = commit_q[q][j]

\* The newest proposal passes Verify at every replica, however far behind or
\* ahead that replica is: its QC is not older than any lock and has enough
\* signatures, although VerifyQC counts signatures and ReceiveCertificate weight.
NewestAccepted ==
  ForkTail = {} =>
    \A r \in Replica : Len(proposals) \in inbox[r] => Verify(r, proposals[Len(proposals)])

\* The commit queues of two replicas that each handled the proposals in the
\* order they were sent agree position by position, whatever the others did.
PrefixAgreement ==
  ForkTail = {} =>
    \A r, q \in Replica : bypassed[r] = {} /\ bypassed[q] = {} =>
      \A i \in DOMAIN commit_q[r] \cap DOMAIN commit_q[q] : commit_q[r][i] = commit_q[q][i]

\* A replica that handles proposals out of order loses, or commits late, only
\* what the reordering was about: it has committed the father of a proposal it
\* handled unless it handled a newer one before one of the two, and commits a
\* proposal after a later one only if it handled its child late.
LosesOnlyBypassed(r) ==
  /\ \A h \in Handled(r) :
       h > 1 /\ {h - 1, h} \cap bypassed[r] = {} => h - 1 \in CommittedBy(r)
  /\ \A i, j \in DOMAIN commit_q[r] :
       i < j /\ commit_q[r][j].hash < commit_q[r][i].hash
         => commit_q[r][j].hash + 1 \in bypassed[r]
OnlyBypassedLost == ForkTail = {} => \A r \in Replica : LosesOnlyBypassed(r)

\* The lock and the highest known QC of a replica never move backwards.
QcsNeverRegress ==
  [][\A r \in Replica : /\ NotAfter(lock_qc[r], lock_qc'[r])
                        /\ NotAfter(generic_qc[r], generic_qc'[r])]_vars

\* A QC forms at most once for a proposal, although the counts of view - 2 are
\* garbage-collected while certificates of that view may still be in a thread
\* between the two critical sections of ReceiveCertificate.
CertifiedOnce ==
  [][\A h \in Hash : Certified(h) => certified'[h] = certified[h]]_vars

\* The fast path never drops a certificate that is still needed: whatever it
\* drops belongs to a proposal that has its QC.
FastPathSound ==
  [][\A c \in votes : c \notin votes' \cup verifying' => Certified(c.hash)]_vars

\* While no replica stops, every proposal that was generated is certified and
\* the chain grows up to the bound.
ChainGrows ==
  /\ \A h \in Hash : (h \in Sent) ~> Certified(h)
  /\ <>(Len(proposals) = MaxProposals)

\* A leader that stops is detected and replaced: the chain still grows up to
\* the bound.  This is what the comments on GetDynamicTimeout announce.
LeaderReplaced ==
  \A r \in Replica : r \in crashed ~> Len(proposals) = MaxProposals
=============================================================================
