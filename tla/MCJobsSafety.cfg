CONSTANTS
  NoJob = NoJob
  Free = Free
  Boot = boot
  Jobs = {j1}
  Requests = {r1}
  Tasks = {t1, boot}
  MaxRetries = 1
  AgentStatus = {"running", "done"}
  MaxTools = 2
  MaxCrashes = 1
SPECIFICATION Spec
SYMMETRY Symm
INVARIANTS
  TypeOK
  OneRunner
  ResumingOwned
  RetryBudget
PROPERTIES
  LockSpec
  AttemptsOnlyLostToHandlers
  LoopRespectsHandoff
