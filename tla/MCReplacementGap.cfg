SPECIFICATION Spec
CONSTANTS
  k1 = k1
  Requests = {r1}
  KeyOf <- OneKey
  Indexers = {1, 2}
  Agreements = {a1, a2}
  Runners = {w1}
  None = None
  Targets = {1}
  GlobalCap = 1
  PerIndexerCap = 1
  Events = {"expire"}
  MaxFaults = 0
PROPERTY OldStaysUntilReplaced
CHECK_DEADLOCK FALSE
