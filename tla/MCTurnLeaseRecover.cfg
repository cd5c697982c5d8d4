CONSTANTS
  None = None
  Gone = Gone
  Lost = Lost
  Interactive = {i1}
  LoopTurns = {l1, l2}
  LongTurns = {i1, l1, l2}
  MaxCrashes = 1
SPECIFICATION FairSpec
PROPERTIES
  LoopsGoOn
