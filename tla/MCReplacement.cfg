SPECIFICATION Spec
CONSTANTS
  k1 = k1
  Requests = {r1}
  KeyOf <- OneKey
  Indexers = {1, 2}
  Agreements = {a1, a2}
  Runners = {w1, w2}
  None = None
  Targets = {0, 1}
  GlobalCap = 1
  PerIndexerCap = 1
  Events = {"decline", "expire", "end", "abandon", "reopen"}
  MaxFaults = 1
SYMMETRY Identities
INVARIANTS
  TypeOK
  OneOfferPerIndexer
  WindowRespected
  KeepsEnough
CHECK_DEADLOCK FALSE
