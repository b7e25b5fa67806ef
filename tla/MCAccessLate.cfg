SPECIFICATION Spec
CONSTANTS
  a = a
  b = b
  a2 = a2
  A = A
  B = B
  Sessions = {c1}
  Uuids = {a}
  Ids = {A, B}
  NoId = NoId
  Lists <- AllLists
INVARIANT
  DeletedUsersDisconnected
