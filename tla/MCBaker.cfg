CONSTANTS
  Proposals <- MCRivals
  Genesis <- MCGenesis
  OwnRounds <- MCOwnNext
  Filesystem = TRUE
  PromptSigning = TRUE
  MaxTime = 3
  MaxFaults = 0
  MaxEvents = 1
SPECIFICATION FairSpec
CHECK_DEADLOCK FALSE
INVARIANTS
  AttestsAfterPrequorum
  LockCoversAttestations
  PreattestsRespectLock
  WaitsForCurrentRound
  DiskCoversLock
PROPERTIES
  TimeoutsCatchUp
