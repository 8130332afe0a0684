SPECIFICATION ServicesFairSpec
CONSTANTS
  ServiceParts = {"selection", "caches", "alerts", "emitter"}
  Watched = {i1}
  CyclesPerDay = 2
  MaxTolerance = 2
  TripPercent = 50
  TripMin = 2
  MaxCycles = 15
  LiveFaults = 1
  DipsIndexers = {i1}
  AlertAfter = 1
  DenylistAfter = 2
  BlockFor = 3
  PauseMin = 2
  DipsHorizon = 5
  DipsChanges = 2
  DipsFaults = 1
  NumRequests = 2
  Pickable = {k1}
  Wanted = 1
  TransientFor = 1
  UncertainFor = 1
  PriceFor = 1
  StandardFor = 2
  UnresponsiveFor = 1
  CacheFor = 1
  SnapshotFor = 1
  TripFraction = 50
  ResetFraction = 25
  PeriodSeconds = 3
  Grain = 2
  FloatError = 1
  MaxU128 = 100
  PriceCap = 10
  EntityCap = 4
  HasTable = FALSE
  TablePrice = 1
  TableEntityPrice = 0
  Quotes <- MCQuotes
  TopUpBatch = 1
  FailedPushes = 1
  TopUpsPerDay = 1
  SelChanges = 0
  SelFaults = 1
  LastId = 2
  PageSize = 1
  SubgraphChanges = 1
  PageFaults = 1
  Events = {e1, e2}
  AlertQueue = 1
  AlertWindow = 2
  MaxRaised = 2
  MaxMissed = 2
  EventKeys = {"k1", "k2"}
  KeyHash <- MCKeyHash
  TopicPartitions = 2
  EventQueue = 2
  MaxEvents = 2
  Markers = {d1}
  MarkerKey <- MCMarkerKey
  StopOrder <- MCStopOrder
  DomainRetries = 1
  UrlRetries = 1
  IisaTries = 2
  AllowEmpty = FALSE
  TeardownGrace = 2
  ReconnectLimit = 3
  FailureWindow = 3
  SubscribeTimeout = 2
  BaseDelay = 1
  MaxDelay = 3
  MaxDoublings = 2
  StablePeriod = 3
  WarnCooldown = 3
  NetChanges = 2
  Loops = {l1, l2}
  MaxPool = 8
  Background = 1
  JobTimeout = 1
  AcquireTimeout = 1
  TickTime = 1
  Threshold = 3
  MaxEdits = 2
  Estimates = {21000, 150000}
  IisaTimeout = 30
  IisaRetries = 3
  RpcTimeout = 240
  RpcRetries = 3
  HandlerBackstop = 420
  ChainTime = 300
  MaxSurplus = 2
  Windows = {30}
  RunLengths = {0, 60, 420}
  DroppedBase = 5
  TransientBase = 30
  LongDelay = 300
  BudgetCap = 12
  DefaultRetries = 2
PROPERTIES
  ShortReassessed
  TasksFinish
CHECK_DEADLOCK FALSE
