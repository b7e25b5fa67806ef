SPECIFICATION Spec
CONSTANTS
  Callers = {c1}
  MaxSessions = 2
  MaxStreams = 3
  MaxFaults = 1
  MinIdle = 1
INVARIANTS
  TypeOK
  NoSessionLost
  ArmedIsNewest
PROPERTIES
  ImplementsPool
CHECK_DEADLOCK FALSE
