CONSTANTS
  Proposals <- MCReproposal
  Genesis <- MCGenesis
  OwnRounds <- MCOwnLater
  Filesystem = TRUE
  PromptSigning = TRUE
  MaxTime = 3
  MaxFaults = 0
  MaxEvents = 1
SPECIFICATION Spec
CHECK_DEADLOCK FALSE
PROPERTY ElectedIsBetween
