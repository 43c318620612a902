CONSTANTS
  Proposals <- MCProposals
  Genesis <- MCGenesis
  OwnRounds <- MCOwnRounds
  Filesystem = TRUE
  PromptSigning = FALSE
  MaxTime = 2
  MaxFaults = 0
  MaxEvents = 1
SPECIFICATION Spec
CHECK_DEADLOCK FALSE
INVARIANT AttestsAfterPrequorum
