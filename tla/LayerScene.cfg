CONSTANTS
  Layers = {l1, l2}
  Starving = {l2}
  MaxFrames = 3
SPECIFICATION Spec
INVARIANTS
  TypeOK
  ScanoutHeld
  HeldOnce
  NothingStranded
  SourcesOutliveBuffers
  TripwireTrue
  SkipSound
PROPERTY OldestFirst
CHECK_DEADLOCK FALSE
