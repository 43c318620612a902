CONSTANTS
  Proposals <- MCProposals
  Genesis <- MCGenesis
  OwnRounds <- MCOwnRounds
  Filesystem = TRUE
  PromptSigning = TRUE
  MaxTime = 2
  MaxFaults = 1
  MaxEvents = 1
SPECIFICATION Spec
CHECK_DEADLOCK FALSE
INVARIANTS
  NoDoubleSigning
  QuorumIsWatched
