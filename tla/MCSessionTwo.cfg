SPECIFICATION Spec
CONSTANTS
  NoSid = NoSid
  Sids = {s1, s2}
  PipeCap = 1
  ConnCap = 1
  Versions = {1}
  Schemes = {"same"}
  MaxHearts = 0
  Outside = {"gone"}
SYMMETRY Symmetry
INVARIANTS
  TypeOK
  LiveStreamReachable
  NoDeadlineOnDataWrite
CHECK_DEADLOCK FALSE
