CONSTANTS
  None = None
  Absent = Absent
  Files = {f1, f2}
  Contents = {text, large, bin}
  Large = {large}
  Binary = {bin}
  Replaced = text
  Turns = {t1, t2}
  Reviewers = {r1, r2}
  ScanLimit = 1
  MaxEdits = 2
SPECIFICATION Spec
SYMMETRY Symm
CHECK_DEADLOCK FALSE
INVARIANTS
  TypeOK
  RecordedIsRestored
  RestoredIsRecorded
PROPERTIES
  RevertUndoes
  LedgerGrows
