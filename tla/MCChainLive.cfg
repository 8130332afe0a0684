SPECIFICATION ChainFairSpec
CONSTANTS
  ChainParts = {"tx", "seen", "cursor", "domain", "escrow"}
  PoolCalls = {c1}
  Endpoints = 1
  Down = {}
  RequestTimeout = 1
  MaxRetries = 0
  MaxRotations = 1
  TxCalls = {c1, c2}
  BaseFees = {1, 3}
  PriorityFee = 1
  FeePercent = 120
  MaxGasPrice = 3
  TxFaults = 2
  NoCall = NoCall
  Nodes = {n1, n2, n3}
  Faulty = n1
  Silent = {n1}
  BlockReaders = {c1}
  AheadBy = {3}
  BehindBy = {2}
  StartHead = 4
  AgreeWithin = 1
  WeekOfBlocks = 2
  CheckEvery = 1
  MaxTime = 1
  Agreements = {1, 2}
  EndedHere = {}
  Poison = {1}
  Changes = 2
  SubgraphPage = 1
  MaxPages = 2
  Buffer = 1
  ReorgDepth = 1
  MaxCursorHold = 1
  StartBlock = 2
  MaxBlock = 4
  CursorFaults = 1
  FastInterval = 1
  SlowInterval = 3
  BackoffBase = 1
  BackoffSteps = 2
  SendHangs = 1
  SweepPolls = 2
  PollHorizon = 1
  PollFaults = 1
  SkewTolerance = 3
  DriftTolerance = 1
  AcceptBy = 2
  ExpiryGrace = 1
  ClockEnd = 1
  ClockFaults = 3
  Rcas = {r1}
  MaxUpgrades = 1
  LaggingReads = 1
  CallRetries = 1
  Providers = {"p1", "p2"}
  Slot <- MCSlot
  EscAgreements = {e1, e2}
  SweepInterval = 1
  Period = 2
  BatchSize = 1
  PerSweep = 1
  EscHorizon = 1
  EscFaults = 1
  EscChanges = 1
PROPERTIES
  ClientRecovers
  ChangesReached
  UpkeepDone
CHECK_DEADLOCK FALSE
