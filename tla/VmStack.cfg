\* frames within and beyond the reserve, native functions that call back
SPECIFICATION Spec
CONSTANTS
  StackSize = 120
  Argcs = {0, 2}
  Regcs = {1, 8, 20}
  Dsts = {0, 1}
  Sites = {p, q}
  MaxDepth = 2
INVARIANTS FramesFit OwnFramesOnly
PROPERTIES ImplementsCalls
CHECK_DEADLOCK FALSE
