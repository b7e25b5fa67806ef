SPECIFICATION FairSpec
CONSTANTS
  a = a
  b = b
  a2 = a2
  A = A
  B = B
  Sessions = {c1, c2}
  Uuids = {a, b, a2}
  Ids = {A, B}
  NoId = NoId
  Lists <- AllLists
INVARIANTS
  TypeOK
  RegistryHoldsNoClosed
  StoreIsList
  OnlyRevokedClosed
PROPERTIES
  RevokedGetClosed
