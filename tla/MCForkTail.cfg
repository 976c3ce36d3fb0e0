SPECIFICATION Spec
CONSTANTS
  r1 = r1  r2 = r2  r3 = r3  r4 = r4
  Replica <- MCReplica
  weights <- MCWeights
  VRFLeader <- MCRepeatLeader
  ForkTail <- MCOne
  MayCrash <- MCNone
  MaxProposals = 3
INVARIANTS NoFork CommitsCertified
PROPERTY CertifiedOnce
SYMMETRY MCFollowers
CHECK_DEADLOCK FALSE
