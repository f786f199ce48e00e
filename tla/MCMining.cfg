SPECIFICATION FairSpec
CONSTANTS
  U256_MAX = 15
  PreHashes <- MCPreHashes
  Difficulties <- MCDifficulties
  Nonces = {0, 1, 2, 3}
  NONCE_MAX = 3
  Sha3 <- MCSha3
  Undecodable = Undecodable
  NoBuild = NoBuild
  NoProposal = NoProposal
INVARIANTS
  TypeOK
  SealsMatchParents
  
  BuildFitsItsParent
PROPERTIES
  MiningResumes
  SolutionFound
CHECK_DEADLOCK FALSE
