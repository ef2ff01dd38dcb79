\* Verified boot, update_engine's helpers, the switch of systems, minijail, autox and the metrics file, each on its own.
SPECIFICATION MCSpec
CONSTANTS
  Sha1Block = 5
  Sha256Block = 5
  Sha512Block = 7
  LengthField = 2
  LongLengthField = 3
  WordSize = 12
  MaxMessage = 18
  MaxPieces = 3
  RsaWord = 4
  RsaWords = 3
  SignKeys = {"k0", "k1", "k2"}
  KeyAlgorithm <- MCKeyAlgorithm
  RootKey = "root"
  Versions = {1, 2}
  DataLengths = {1, 2}
  MaxEdits = 2
  ExecTags = {1, 2}
  NoTag = NoTag
  BlockBytes = 2
  DeviceBlocks = 3
  SparseHole = 99
  TokenBytes = 3
  OutputBuffer = 2
  MaxFileBlocks = 3
  MaxTokens = 2
  MaxWrite = 3
  UpdaterRuns = {"loop", "user"}
  MaxFaults = 2
  JailUids = {1}
  JailGids = {2}
  NotGiven = NotGiven
  BootNumbers <- MCBootNumbers
  MaxPowerFailures = 2
  MaxUpdates = 3
  Keyboards <- MCKeyboards
  Texts <- MCTexts
  Combos <- MCCombos
  KeyNames = {"a", "A", "1", "Shift_L", "bad"}
  MaxCommands = 3
  NetworkStates = {"online", "offline"}
  OtherStates = {"carrier"}
  Clients = {"client"}
  TicksPerSecond = 2
  IntMax = 3
  MaxClock = 2
  MaxSignals = 3
  MaxReads = 2
  MaxShortWrites = 1
\* A digest, a signature and a jail come to their end.
CHECK_DEADLOCK FALSE
INVARIANTS
  CryptoMatchesReference
  VerifiedIsSigned
  CallbacksInTurn
  ExtentsHoldStream
  UpdatesInTurn
  JailHolds
  BootsCompleteSystem
  ScriptTypesAsWritten
  MetricsArrive
PROPERTIES
  LocksAreGot
