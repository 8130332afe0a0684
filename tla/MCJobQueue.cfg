SPECIFICATION FairSpec
CONSTANTS
  ja = ja
  jb = jb
  Jobs = {ja, jb}
  Loops = {l1, l2}
  NoLoop = NoLoop
  NoJob = NoJob
  Priority <- MCPriority
  MaxAttempts <- MCMaxAttempts
  MaxFaults = 2
INVARIANTS
  TypeOK
  LockDiscipline
  AttemptBudget
PROPERTIES
  OnlyTheHolderSettles
  LedgerSpec
  JobsEnd
  StopDrains
