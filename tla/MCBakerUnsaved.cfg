CONSTANTS
  Proposals <- MCBranches
  Genesis <- MCGenesis
  OwnRounds <- MCOwnNext
  Filesystem = TRUE
  PromptSigning = TRUE
  MaxTime = 4
  MaxFaults = 0
  MaxEvents = 1
SPECIFICATION Spec
CHECK_DEADLOCK FALSE
INVARIANT DiskCoversLock
