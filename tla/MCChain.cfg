SPECIFICATION ChainSpec
CONSTANTS
  ChainParts = {"pool", "tx", "seen", "cursor", "poll", "clock", "domain", "escrow"}
  PoolCalls = {c1, c2}
  Endpoints = 3
  Down = {0}
  RequestTimeout = 3
  MaxRetries = 1
  MaxRotations = 3
  TxCalls = {c1, c2, c3}
  BaseFees = {1, 3}
  PriorityFee = 1
  FeePercent = 120
  MaxGasPrice = 3
  TxFaults = 3
  NoCall = NoCall
  Nodes = {n1, n2, n3}
  Faulty = n1
  Silent = {n1, n2}
  BlockReaders = {c1, c2}
  AheadBy = {3}
  BehindBy = {2}
  StartHead = 4
  AgreeWithin = 1
  WeekOfBlocks = 2
  CheckEvery = 1
  MaxTime = 2
  Agreements = {1, 2}
  EndedHere = {2}
  Poison = {1}
  Changes = 2
  SubgraphPage = 1
  MaxPages = 2
  Buffer = 1
  ReorgDepth = 1
  MaxCursorHold = 1
  StartBlock = 2
  MaxBlock = 6
  CursorFaults = 1
  FastInterval = 1
  SlowInterval = 3
  BackoffBase = 1
  BackoffSteps = 2
  SendHangs = 1
  SweepPolls = 2
  PollHorizon = 4
  PollFaults = 1
  SkewTolerance = 3
  DriftTolerance = 1
  AcceptBy = 2
  ExpiryGrace = 1
  ClockEnd = 5
  ClockFaults = 3
  Rcas = {r1}
  MaxUpgrades = 2
  LaggingReads = 1
  CallRetries = 1
  Providers = {"p1", "p2", "p3"}
  Slot <- MCSlot
  EscAgreements = {e1}
  SweepInterval = 1
  Period = 2
  BatchSize = 1
  PerSweep = 1
  EscHorizon = 2
  EscFaults = 1
  EscChanges = 2
SYMMETRY Alike
INVARIANTS
  SlotsSafe
  UpkeepKept
PROPERTIES
  ReadsSafe
  CursorSafe
  ListenerOnTime
CHECK_DEADLOCK FALSE
