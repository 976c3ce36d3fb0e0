--------------------------- MODULE LeaderElection ---------------------------
(***************************************************************************)
(* Trust weights and the weighted leader election of TD-HotStuff.          *)
(* BuildWeights assigns the weights when a node starts and checks them.    *)
(* The election maps a hash of the view to a replica; the algorithm is     *)
(* written three times in the code: in TdHotstuff and in ProposalManager,  *)
(* each with its own leader_cache_, and in the client's                    *)
(* TdHotstuffPerformanceManager for view 1.                                *)
(***************************************************************************)
EXTENDS Integers, FiniteSets, SequencesExt

CONSTANTS
  MaxReplicas,  \* bound on total_num_
  MaxView,      \* bound on the views asked for
  MaxHash       \* bound on the first 4 bytes of SHA256("epoch:view")

ASSUME ElectionAssumption ==
  /\ MaxReplicas \in Nat \ {0}
  /\ MaxView \in Nat \ {0}
  /\ MaxHash \in Nat

VARIABLES
  total_num,        \* replicas in the configuration
  weights,          \* what the constructor of Consensus got from BuildWeights
  hash_val,         \* hash_val[view]: what SHA256 yields for the view
  leader_cache,     \* leader_cache_ of TdHotstuff, 0 for an absent entry
  pm_leader_cache,  \* leader_cache_ of ProposalManager
  primary           \* primary_ of the client, 0 before its constructor ran

vars == <<total_num, weights, hash_val, leader_cache, pm_leader_cache, primary>>

Views == 1..MaxView

-----------------------------------------------------------------------------
(* BuildWeights *)

faults(n) == (n - 1) \div 3

\* Mutant: the heavier replica is kept at every size.
AlwaysHeavy(n) == [i \in 1..n |-> IF n >= 4 /\ i = 1 THEN 3 ELSE 2]
BuildWeights(n) == [i \in 1..n |-> IF n >= 4 /\ faults(n) = 1 /\ i = 1 THEN 3 ELSE 2]

\* The running sums, of VRFLeader's intervals and of the f largest weights.
prefix_weights(w) ==
  LET prefix[i \in 0..Len(w)] == IF i = 0 THEN 0 ELSE prefix[i - 1] + w[i]
  IN  prefix

W(w) == INSTANCE WeightedQuorum WITH Replica <- DOMAIN w, weights <- w

\* std::sort over the reverse iterators: position i holds the weight that fewer
\* than i weights exceed and at least i weights reach.
\* Mutant: sorted the other way round.
rising(w) ==
  [i \in 1..Len(w) |->
     CHOOSE v \in {w[j] : j \in 1..Len(w)} :
       /\ Cardinality({j \in 1..Len(w) : w[j] < v}) < i
       /\ Cardinality({j \in 1..Len(w) : w[j] <= v}) >= i]
sorted_w(w) ==
  [i \in 1..Len(w) |->
     CHOOSE v \in {w[j] : j \in 1..Len(w)} :
       /\ Cardinality({j \in 1..Len(w) : w[j] > v}) < i
       /\ Cardinality({j \in 1..Len(w) : w[j] >= v}) >= i]

\* The sum of the f largest weights.
top_f_sum(w) == prefix_weights(sorted_w(w))[faults(Len(w))]

bft_safe(w) == W(w)!total_weight - top_f_sum(w) >= W(w)!weight_threshold

-----------------------------------------------------------------------------
(* VRFLeader *)

\* Mutant: the upper end belongs to the interval.
InClosedInterval(w, i, position) ==
  prefix_weights(w)[i - 1] <= position /\ position <= prefix_weights(w)[i]
InInterval(w, i, position) ==
  prefix_weights(w)[i - 1] <= position /\ position < prefix_weights(w)[i]

\* The first interval that contains the position; replica 1 if none does.
LeaderAt(w, position) ==
  IF \E i \in 1..Len(w) : InInterval(w, i, position)
  THEN CHOOSE i \in 1..Len(w) : /\ InInterval(w, i, position)
                                /\ \A j \in 1..(i - 1) : ~InInterval(w, j, position)
  ELSE 1

\* The copies in TdHotstuff, ProposalManager and the performance manager.
\* Mutants: the position taken for the replica; replicas weigh the same.
ElectPosition(w, hash) == (hash % W(w)!total_weight) + 1
ElectUnweighted(w, hash) == (hash % Len(w)) + 1
Elect(w, hash) == LeaderAt(w, hash % W(w)!total_weight)
PmElect(w, hash) == LeaderAt(w, hash % W(w)!total_weight)
ClientElect(w, hash) == LeaderAt(w, hash % W(w)!total_weight)

Init ==
  /\ total_num \in 1..MaxReplicas
  /\ weights = <<>>
  /\ hash_val \in [Views -> 0..MaxHash]
  /\ leader_cache = [v \in Views |-> 0]
  /\ pm_leader_cache = [v \in Views |-> 0]
  /\ primary = 0

\* The constructor of Consensus, which hands the weights to the other parts.
Construct ==
  /\ weights = <<>>
  /\ weights' = BuildWeights(total_num)
  /\ UNCHANGED <<total_num, hash_val, leader_cache, pm_leader_cache, primary>>

\* TdHotstuff::VRFLeader; an entry that is present is returned as it is.
VRFLeader(view) ==
  /\ weights # <<>>
  /\ leader_cache[view] = 0
  /\ leader_cache' = [leader_cache EXCEPT ![view] = Elect(weights, hash_val[view])]
  /\ UNCHANGED <<total_num, weights, hash_val, pm_leader_cache, primary>>

\* ProposalManager::VRFLeader, which AddQC asks through GetLeader.
GetLeader(view) ==
  /\ weights # <<>>
  /\ pm_leader_cache[view] = 0
  /\ pm_leader_cache' = [pm_leader_cache EXCEPT ![view] = PmElect(weights, hash_val[view])]
  /\ UNCHANGED <<total_num, weights, hash_val, leader_cache, primary>>

\* The constructor of TdHotstuffPerformanceManager.
StartClient ==
  /\ weights # <<>>
  /\ primary = 0
  /\ primary' = ClientElect(weights, hash_val[1])
  /\ UNCHANGED <<total_num, weights, hash_val, leader_cache, pm_leader_cache>>

Next ==
  \/ Construct
  \/ \E view \in Views : VRFLeader(view)
  \/ \E view \in Views : GetLeader(view)
  \/ StartClient

Spec == Init /\ [][Next]_vars

-----------------------------------------------------------------------------
(* Properties *)

\* Every variable has its type: an elected leader is a replica.
TypeOK ==
  /\ total_num \in 1..MaxReplicas
  /\ weights \in {<<>>, BuildWeights(total_num)}
  /\ hash_val \in [Views -> 0..MaxHash]
  /\ leader_cache \in [Views -> 0..total_num]
  /\ pm_leader_cache \in [Views -> 0..total_num]
  /\ primary \in 0..total_num

\* The three copies of the election agree on every view they were asked for,
\* however their caches were filled: AddQC, the votes and the client's first
\* request all mean the same leader.
SameLeader ==
  /\ \A v \in Views : leader_cache[v] # 0 /\ pm_leader_cache[v] # 0 =>
       leader_cache[v] = pm_leader_cache[v]
  /\ primary # 0 /\ leader_cache[1] # 0 => primary = leader_cache[1]
  /\ primary # 0 /\ pm_leader_cache[1] # 0 => primary = pm_leader_cache[1]

\* The prefix sums cut [0, W) into intervals that elect every replica at as
\* many positions as it has weight.
Proportional ==
  \A i \in DOMAIN weights :
    Cardinality({p \in 0..(W(weights)!total_weight - 1) : LeaderAt(weights, p) = i}) = weights[i]

\* The BFT constraint of BuildWeights: whichever f replicas are removed, the
\* weight of the others reaches the threshold.
BftSafe(w) ==
  \A S \in SUBSET DOMAIN w :
    Cardinality(S) <= faults(Len(w)) => W(w)!IsQuorum(DOMAIN w \ S)

\* The startup check, which only looks at the f largest weights, gives the
\* verdict of the constraint itself.
SelfCheckExact == weights # <<>> => (bft_safe(weights) <=> BftSafe(weights))

\* The weights satisfy the constraint for every number of replicas but 4.
SafeExceptFour == weights # <<>> /\ total_num # 4 => BftSafe(weights)

\* What BuildWeights says of 4 to 6 replicas: one of them may have weight 3.
SafeWithOneHeavy == weights # <<>> /\ total_num \in 4..6 => BftSafe(weights)
=============================================================================
