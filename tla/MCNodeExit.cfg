SPECIFICATION Spec
CONSTANTS
  RegIds = {r1}
  NoReg = NoReg
  Nodes = {n1}
INVARIANT
  UnregisteredAtExit
