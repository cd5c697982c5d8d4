CONSTANTS
  NoJob = NoJob
  Free = Free
  Boot = boot
  Jobs = {j1, j2}
  Requests = {}
  Tasks = {t1, boot}
  MaxRetries = 1
  AgentStatus = {"running"}
  MaxTools = 1
  MaxCrashes = 2
SPECIFICATION FairSpec
PROPERTIES
  ResumeEnds
  RestartResumes
CHECK_DEADLOCK FALSE
