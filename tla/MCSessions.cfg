CONSTANTS
  None = None
  s1 = s1
  s2 = s2
  SessionIds = {s1, s2}
  Extends <- OneExtends
  Chats = {q1, q2}
  Others = {o1}
  CutAlways = FALSE
  MaxAtOnce = 2
  MaxCrashes = 1
SPECIFICATION Spec
SYMMETRY Symm
INVARIANTS
  TypeOK
  
  OneInside

  
CHECK_DEADLOCK FALSE
