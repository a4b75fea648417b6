SPECIFICATION PresentSpec
CONSTANTS
  Layers = {"sink", "backend"}
  Starving = {"sink"}
  SinkLayer = "sink"
  BackendLayer = "backend"
  Restores = TRUE
  MaxFrames = 5
  MaxFailures = 2
  Cells = {1, 2}
  MaxSlots = 3
  MaxDamageRects = 2
INVARIANTS
  RepaintCovers
  LeaseOffScreen
  SlotsLostByFailureOnly
  FramesCarryTheirMode
  SkipsOnlyTheShown
CHECK_DEADLOCK FALSE
