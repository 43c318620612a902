CONSTANTS
  Proposals <- MCProposals
  Genesis <- MCGenesis
  OwnRounds <- MCOwnRounds
  Filesystem = TRUE
  PromptSigning = TRUE
  MaxTime = 2
  MaxFaults = 1
  MaxEvents = 1
  WorkerSlots <- MCWorkerSlots
  Owned <- MCOwned
  Ops <- MCOps
  Candidates <- MCCandidates
  Heads <- MCHeads
  Tags = {"dal1", "dal2"}
  consensus_threshold = 3
  MaxBatch = 2
  MaxWatches = 2
  MaxStreams = 2
SPECIFICATION MCSpec
CHECK_DEADLOCK FALSE
INVARIANT PowerIsOfReceived
