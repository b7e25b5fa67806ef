SPECIFICATION FairSpec
CONSTANTS
  NoSid = NoSid
  Sids = {s1}
  PipeCap = 1
  ConnCap = 1
  Versions = {2}
  Schemes = {"stale"}
  MaxHearts = 1
  Outside = {"admin"}
INVARIANTS
  OutboundReleased
PROPERTIES
  ImplementsStreamLife
  RecvLoopEnds
  HandlersEnd
  PeerLearnsClose
CHECK_DEADLOCK FALSE
