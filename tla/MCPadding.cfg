SPECIFICATION Spec
CONSTANTS
  Header = 2
  Width = 8
  Wrap = 8
  MaxPad = 7
  ZeroBuf = 8
  RawSchemes <- MCRawSchemes
  FrameSizes = {2, 3, 9}
  MaxFrames = 4
INVARIANTS
  TypeOK
  PayloadInOrder
  WasteBetweenFrames
