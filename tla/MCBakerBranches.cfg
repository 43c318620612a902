CONSTANTS
  Proposals <- MCBranches
  Genesis <- MCGenesis
  OwnRounds <- MCOwnNext
  Filesystem = TRUE
  PromptSigning = TRUE
  MaxTime = 4
  MaxFaults = 0
  MaxEvents = 1
  WorkerSlots <- MCWorkerSlots
  Owned <- MCOwned
  Ops <- MCOps
  Candidates <- MCCandidates
  Heads <- MCHeads
  Tags = {"t1"}
  consensus_threshold = 3
  MaxBatch = 2
  MaxWatches = 2
  MaxStreams = 2
SPECIFICATION MCSpec
CHECK_DEADLOCK FALSE
INVARIANTS
  AttestableCoversLock
  PowerIsOfReceived
  QuorumIsBacked
  QuorumIsNotified
  NoPooledVoteMissed
PROPERTIES
  LockNeverDecreases
