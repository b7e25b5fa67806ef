SPECIFICATION FairSpec
CONSTANTS
  RegIds = {r1, r2, r3}
  NoReg = NoReg
  Nodes = {n1, n2}
INVARIANTS
  TypeOK
  AcceptsRegistered
  RemembersRegistration
PROPERTY
  CloseStopsNode
