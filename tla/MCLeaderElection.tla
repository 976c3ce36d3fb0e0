-------------------------- MODULE MCLeaderElection --------------------------
(* Instance of LeaderElection; hashes up to 14 reach every position of up to *)
(* 7 replicas (total weight 14) and wrap around.                             *)
EXTENDS LeaderElection

\* The weight of a set, counted in units, is the sum the code computes.
ASSUME WeightIsSum ==
  \A n \in 1..MaxReplicas : \A S \in SUBSET (1..n) :
    W(BuildWeights(n))!Weight(S) = FoldFunctionOnSet(+, 0, BuildWeights(n), S)
=============================================================================
