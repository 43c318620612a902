CONSTANTS
  None = None
  s1 = s1
  s2 = s2
  t1 = t1
  t2 = t2
  t3 = t3
  d1 = d1
  d2 = d2
  k1 = k1
  k2 = k2
  DelayedTimeout = 2
  DelayedMinLevels = 1
  MaxForced = 2
  Menus <- MCMenus
  StorageVersions <- MCStorageVersions
  FirstKernel = k1
  FirstSequencer = s1
  ForceDelay = 1
  InboxTicks = 2
  RunTicks = 3
  TxTicks <- MCTxTicks
  Outcome <- MCOutcome
  Withdraws <- MCWithdraws
  MaxReboots = 2
  OutboxRoom = 1
  MaxLevel = 3
  LastLevel = 5
  MaxPerLevel = 3
  MaxBlocks = 2
CONSTANTS
  PrLarge <- MCPrLarge
  PrMessages <- MCPrMessages
  PrSimMessages <- MCPrSim
  MAX_SIZE_PER_CHUNK = 2
  PrMaxReads = 3
  PrMaxLevels = 2
  GpWidth = 8
  GpMantissa = 4
  GpBias = 15
  SPEED_LIMIT = 2
  TOLERANCE = 3
  GpExp <- MCGpExp
  GpMinimums = {17, 100}
  GpTicks = {1, 5, 9}
  GpTimes = {0, 1, 4}
  GpMaxBlocks = 3
  EvNonces = {0, 1, 2}
  EvFees = {1, 3}
  EvLimits = {1, 6}
  EvDaFees = {0, 5}
  EvPrices = {1, 3}
  EvBalances = {0, 7, 18}
  EvGas = {0, 2}
  EvMinimum = 1
  EthRadix = 16
  EthWord = 2
  EthShort = 1
  EthHash = 2
  EthAddress = 1
  EthTxs <- MCEthTxs
  EthKeys <- MCEthKeys
  EthStored <- MCEthStored
  EthNoise <- MCEthNoise
  PcGas = {0, 59, 60, 3000, 50000}
  PcAllocated = {0, 130000, 2000000, 2000000000}
  PcSizes = {0, 1, 64, 191, 192, 213}
  PcLengths = {0, 1, 33}
  PcBytes = {0, 1, 3}
  PcMaxLen = 4
CONSTANTS
  TxHalfBuffer = 5
  TxSizes = {1, 3, 5, 6}
  TxMaxOps = 4
  TxAddresses = {1, 2}
  TxTickets = {10, 11}
  TxAmountMax = 3
  TxOps <- MCTxOps
  TxOpSize <- MCTxOpSize
  TxInboxes <- MCTxInboxes
  TxPerRun = 2
  TxReboots = 3
  TxMaxLevels = 3
CONSTANTS
  PATH_MAX_SIZE = 5
  SdkIndexBytes = 1
  SdkProbe = 6
  SdkPaths <- MCSdkPaths
  SdkSources <- MCSdkSources
  SdkOffsets = {0, 1}
  MAX_FILE_CHUNK_SIZE = 2
  SdkMaxDepth = 2
  SdkMaxLen = 3
  SdkIndexes = 3
  SdkQueueMax = 2
  MAX_OUTPUTS_PER_LEVEL = 2
  MAXIMUM_REBOOTS_PER_INPUT = 2
  SdkMaxQueued = 4
  SdkLevels = 3
  MAX_CONTENT_SIZE = 2
  MAX_HASHES_PER_PAGE = 3
  MAX_TOP_LEVEL_HASHES = 2
  MAX_DAC_LEVELS = 3
  SdkContents = {1, 2, 3, 6, 7, 11, 12, 13, 18, 19}
  SdkCommittee = 2
  SdkKernel <- MCSdkKernel
  SdkSetups <- MCSdkSetups
  SdkMaxRuns = 3
  SdkIds = {11, 12}
  SdkField = 21
  SdkFieldValues <- MCSdkFields
  SdkMaxLayers = 3
  SdkMaxAborts = 1
CONSTANTS
  RvLoadStart = 2
  RvLoadEnd = 14
  RvOffsets = {0, 1, 2, 4}
  RvSizes = {0, 1, 4}
  RvMaxHeaders = 2
  RvMaxRelocs = 2
  RvPointer = 2
  RvInitrds = {2}
  RvDtb = 2
  StLeaves <- MCStLeaves
  StMaxLeaves = 3
  StMaxWrites = 2
  StByte = 2
  SbLengths = {3}
  SbMaxMessages = 2
  SbMaxLevels = 3
  SbBuffers = {0, 3}
  SbMaxNones = 2
SPECIFICATION MCSpec
INVARIANTS
  BlocksSound
  EffectsOnce
  ProxyInboxExact
  FeeMarketSound
  EthCodecExact
  PrecompilesExact
  TxKernelSound
  StoreSound
  HostExchangesExact
  InstallationSound
  LayersSound
  RvSandboxSound
PROPERTIES
  TakenInEnds
  DelayedKept
  StoreImplementsMap
