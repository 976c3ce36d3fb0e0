SPECIFICATION FairSpec
CONSTANTS
  r1 = r1  r2 = r2  r3 = r3  r4 = r4
  Replica <- MCReplica
  weights <- MCWeights
  VRFLeader <- MCVRFLeader
  ForkTail <- MCNone
  MayCrash <- MCTwo
  MaxProposals = 2
PROPERTIES ChainGrows
CHECK_DEADLOCK FALSE
