SPECIFICATION Spec
CONSTANTS
  Devices <- MCDevices
  Crtcs = {1, 2}
  Slots = {1, 2, 3}
  KeepOf <- MCKeepOf
  Cells = {1, 2}
  Displays <- MCChanges
  Scenes <- MCScenes
  CanvasFormat = "rgb"
  Blendable = {"rgb"}
  Capacities = {2, 3}
  ForeignFrames <- MCForeignFrames
  MaxTests = 3
  MaxEdits = 4
  MaxTurns = 1
  PinWhereZpos = FALSE
  ShowEmptied = FALSE
INVARIANTS
  BaselineTrue
  SweptIsOff
  FastPathSound
  StackOrder
  LeftNothingLit
  Settles
PROPERTY
  ShowsFrames
CHECK_DEADLOCK FALSE
