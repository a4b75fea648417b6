CONSTANTS
  NoSlot = NoSlot
  NoBuffer = NoBuffer
  Slots = {k1, k2, k3}
  Buffers = {b1, b2}
  Regions = {}
  MaxDamage = 0
  HasDeadline = FALSE
  TokenLimit = 4
  MaxPool = 1
  Depth = 2
SPECIFICATION ClientSpec
INVARIANT AcceptedIsShown
CHECK_DEADLOCK FALSE
