--------------------------- MODULE TdHotstuffLog ----------------------------
(***************************************************************************)
(* TdHotstuff implements ReplicatedLog when no leader forks the tail.  An  *)
(* entry is decided when the next proposal is generated: that proposal     *)
(* carries the QC and, if it is final, fixes the next primary the client   *)
(* will hear of.                                                           *)
(***************************************************************************)
EXTENDS TdHotstuffInv

Entry == [hash : Hash, next_primary : SUBSET Replica]

\* What receiving the child proposal p commits (CommitProposal).
Committed(h, p) == [hash |-> h,
                    next_primary |-> IF p.is_final THEN {NextLeader(p.view)} ELSE {}]

decided == [h \in 1..(Len(proposals) - 1) |-> Committed(h, proposals[h + 1])]

Log == INSTANCE ReplicatedLog WITH log <- decided, committed <- commit_q,
         disordered <- {r \in Replica : bypassed[r] # {}}

\* Every replica pushes decided proposals on commit_q_, each at most once and
\* with the same next primary; as long as it handles proposals in the order
\* they were sent, in that order and without a gap.
ImplementsLog == Log!Spec
=============================================================================
