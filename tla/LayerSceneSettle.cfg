CONSTANTS
  Layers = {l1}
  Starving = {}
  MaxFrames = 2
SPECIFICATION Spec
INVARIANT TeardownLandsTheFlip
CHECK_DEADLOCK FALSE
