CONSTANTS
  NoJob = NoJob
  Free = Free
  Boot = boot
  Jobs = {j1}
  Requests = {r1}
  Tasks = {t1, boot}
  MaxRetries = 1
  AgentStatus = {"running"}
  MaxTools = 0
  MaxCrashes = 0
SPECIFICATION FairSpec
PROPERTIES
  ScheduledRetryHappens
