CONSTANTS
  None = None
  Gone = Gone
  Callers = {k1, k2, k3}
  MaxQueue = 3
SPECIFICATION FairSpec
PROPERTIES
  HungRecovers
