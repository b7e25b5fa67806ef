SPECIFICATION FairSpec
CONSTANTS
  MaxBuf = 3
  MaxWrite = 4
  MaxRead = 2
  MaxBytes = 7
INVARIANTS
  TypeOK
  BackingBounded
  NoLostWakeups
  EofMeansComplete
PROPERTIES
  ImplementsByteStream
  ReadReturns
  WriteGoesOn
