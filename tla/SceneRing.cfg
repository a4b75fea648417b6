CONSTANTS
  l1 = l1
  s1 = s1
  s2 = s2
  s3 = s3
  NoSlot = NoSlot
  Layers = {l1}
  RingLayer = l1
  Starving = {}
  MaxFrames = 3
  Slots = {s1, s2, s3}
  Regions = {}
  MaxDamage = 0
  HasDeadline = FALSE
  TokenLimit = 4
SPECIFICATION SceneRingSpec
SYMMETRY SlotSymmetry
INVARIANTS
  ReusedOffScreen
  RingInStep
  NoSlotLost
CHECK_DEADLOCK FALSE
