CONSTANTS
  Layers = {l1}
  Starving = {}
  MaxFrames = 2
SPECIFICATION Spec
INVARIANT FirstFrameCounts
CHECK_DEADLOCK FALSE
