---------------------------- MODULE MCTdHotstuff ----------------------------
(* Instance of TdHotstuff for the weights BuildWeights gives 4 replicas.     *)
EXTENDS TdHotstuffLog, TLC

CONSTANTS r1, r2, r3, r4

MCReplica == {r1, r2, r3, r4}
MCWeights == [r \in MCReplica |-> IF r = r1 THEN 3 ELSE 2]

\* The leaders SHA256("1:view") elects for these weights in views 1, 2, ...
MCLeaders == <<r1, r4, r1, r1, r4, r1, r2, r2>>
MCVRFLeader == [v \in View |-> MCLeaders[v]]

\* Another sequence: replica 1 collects three times in a row, so that the
\* counts of view 1 are garbage-collected at the replica that collected them.
MCRepeatLeader == [v \in View |-> IF v = 1 THEN r4 ELSE r1]

MCNone == {}
MCOne == {r1}
MCTwo == {r2}
MCFour == {r4}

\* Replicas 2 and 3 weigh the same and lead none of the first six views.
MCFollowers == Permutations({r2, r3})
=============================================================================
