--------------------------- MODULE WeightedQuorum ---------------------------
(***************************************************************************)
(* Weighted quorums of TD-HotStuff.  Every replica has a trust weight; a   *)
(* quorum certificate (QC) forms once the signers' weight reaches          *)
(* floor(2W/3)+1.  A replica is seen as a bundle of weight units, so the   *)
(* weight of a set of replicas is the number of its units: this is the     *)
(* sum the code accumulates (checked in MCLeaderElection), in a form from  *)
(* which quorum intersection follows without induction.                    *)
(***************************************************************************)
EXTENDS Integers, FiniteSets

CONSTANTS
  Replica,   \* the replicas that sign certificates
  weights    \* weights_[i]: the trust weight of each replica

\* The last conjunct says the weights have a maximum, as on any finite set.
ASSUME WeightsAssumption ==
  /\ IsFiniteSet(Replica)
  /\ weights \in [Replica -> Nat \ {0}]
  /\ \E r \in Replica : \A q \in Replica : weights[q] <= weights[r]

max_weight == CHOOSE w \in {weights[r] : r \in Replica} :
                \A q \in Replica : weights[q] <= w

Units(S) == {u \in S \X (1..max_weight) : u[2] <= weights[u[1]]}

Weight(S) == Cardinality(Units(S))

total_weight == Weight(Replica)

weight_threshold == (2 * total_weight) \div 3 + 1

IsQuorum(S) == Weight(S) >= weight_threshold

\* VerifyQC asks for ceil(weight_threshold / max_weight) signatures.
min_sigs == (weight_threshold + max_weight - 1) \div max_weight
=============================================================================
