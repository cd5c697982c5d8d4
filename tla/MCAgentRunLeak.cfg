CONSTANTS
  None = None
  Runs = {r1, r2}
  CallIds = {1, 2, 3}
  MaxCalls = 3
  TurnCalls = 2
  SessionCalls = 3
  MaxTurns = 2
  MaxHistory = 1
  KeepRecent = 1
  SaveKeep = 3
  Few = 1
  ToolMin = 3
  ClientIds = {1}
  MaxSeed = 1
SPECIFICATION Spec
SYMMETRY Symm
INVARIANTS
  TurnsAreSealed
