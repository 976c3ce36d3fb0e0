SPECIFICATION Spec
CONSTANTS
  r1 = r1  r2 = r2  r3 = r3  r4 = r4
  Replica <- MCReplica
  weights <- MCWeights
  VRFLeader <- MCVRFLeader
  ForkTail <- MCNone
  MayCrash <- MCNone
  MaxProposals = 3
INVARIANTS IndInv OneProposer NoFork LinearChain CommitsCertified SameNextPrimary NewestAccepted
INVARIANTS PrefixAgreement OnlyBypassedLost
PROPERTIES QcsNeverRegress FastPathSound ImplementsLog
SYMMETRY MCFollowers
CHECK_DEADLOCK FALSE
