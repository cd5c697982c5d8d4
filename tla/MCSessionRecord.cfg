CONSTANTS
  None = None
  Gone = Gone
  Lost = Lost
  Repl = Repl
  Interactive = {i1, i2}
  LoopTurns = {l1, l2}
  LongTurns = {l2}
  MaxCrashes = 1
SPECIFICATION RecordSpec
SYMMETRY Symm
INVARIANTS
  TypeOK
  OneTurn
  NoLeak
  SavedIsKept
PROPERTIES
  LockSpec
  ReleaseOnlyOwn
