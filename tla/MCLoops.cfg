CONSTANTS
  None = None
  LoopIds = {x1, x2}
  Clients = {c1, c2}
  Daemons = {d1, d2}
  MaxLoops = 1
  Interval = 1
  MaxNow = 2
SPECIFICATION FairSpec
CHECK_DEADLOCK FALSE
INVARIANTS
  TypeOK
  CapHolds
  ToldIsFile
  OneDaemon
PROPERTIES
  Paced
  DueFires
