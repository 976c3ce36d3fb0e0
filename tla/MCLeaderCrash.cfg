SPECIFICATION FairSpec
CONSTANTS
  r1 = r1  r2 = r2  r3 = r3  r4 = r4
  Replica <- MCReplica
  weights <- MCWeights
  VRFLeader <- MCVRFLeader
  ForkTail <- MCNone
  MayCrash <- MCFour
  MaxProposals = 2
PROPERTIES LeaderReplaced
CHECK_DEADLOCK FALSE
