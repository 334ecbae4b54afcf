CONSTANTS
  E1 = E1
  E2 = E2
  Bad = Bad
  NoWAL = NoWAL
  Exts <- MCExts
  BadExt <- Bad
  MaxSegments = 3
  MaxRenameIds = 4
  MaxIOFaults = 1
SYMMETRY MCSymmetry
SPECIFICATION Spec
PROPERTIES
  LifecycleContract
