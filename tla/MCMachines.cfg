CONSTANTS
  MAX_EP_LEN = 3
  HASH_SIZE = 2
  KEY_SIZE = 3
  SIG_SIZE = 4
  FR_ORDER = 11
  FR_SIZE = 1
  MUTEZ_MAX = 40
  Themes <- MCThemes
  Scripts <- MCScripts
  SelfEps <- MCSelfEps
  KnownContracts <- MCKnownContracts
  BigMaps <- MCBigMaps
  Ctx <- MCCtx
  LzHandles = {1, 2}
  LzKeys = {0}
  LzValues = {5, 6}
  LzMaxIds = 3
CONSTANTS
  RvScenarios <- MCScenarios
  RvMemStart = 8
  RvMemEnd = 28
  RvByteBits = 1
  RvOperands <- MCOperands
  RvDevices = 8
  RvMemory = 24
  RvRegs = {0, 21, 31}
  RvImms <- MCImms
CONSTANTS
  None = None
  Addresses <- MCAddresses
  Caller = "user"
  Pool = "d"
  PrecompileAddresses <- MCPrecompiles
  Inputs <- MCInputs
  InitialWorld <- MCWorld
  Transactions <- MCTransactions
  Targets <- MCTargets
  NewAddress <- MCNewAddress
  OpGas <- MCOpGas
  Stipend = 2300
  StackLimit = 2
  AllButOne = 64
  TicksAllocated = 40000000
  Price = 3
  DaFee = 2500
  DepositAmount = 5
  MaxCalls = 3
  Depositors <- MCDepositors
CONSTANTS
  SdkStampBytes = 1
  SdkStamps = {0, 1, 127, 128, 129, 255}
  SdkChars = {37, 45, 97, 95}
  SdkNoise = {0, 3, 9, 32, 64, 255}
SPECIFICATION MCSpec
INVARIANTS
  MirSound
  RvHartSound
  RvInstructionsExact
  EvmExecutionSound
  SdkEncodingsAgree
PROPERTIES
  MirGasMonotone
  RvConfined
