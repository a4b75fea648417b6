SPECIFICATION PartsSpec
CONSTANTS
  NoSlot = NoSlot
  Slots = {"s1", "s2"}
  Regions = {"r1", "r2"}
  MaxDamage = 2
  HasDeadline = TRUE
  TokenLimit = 4
  Depth = 3
  Extent = 4
  Cursors <- MCCursors
  Pointers <- MCPointers
  Turns = {"None", "Quarter"}
  Masks = {{"None"}, {"None", "Quarter"}}
  Letters = {"a", "b"}
  CapsLock = "caps"
  Keyboards = {"k1", "k2"}
  Typed = "k1"
  MaxBurst = 1
  MaxTold = 2
  Crtcs = {"crtc1", "crtc2"}
  Contents = {"sdr", "pq"}
  MaxBlob = 5
  MaxScenes = 3
  MaxSetLayers = 3
  MaxCopies = 2
  FreesIndexes = TRUE
  CanvasWidth = 3
  Pictures <- MCPictures
  PlaneFormats = {{"ARGB8888", "RGB565"}, {"XBGR8888"}, {"BGR565", "NV12"}, {"RGB565"}, {"NV12"}, {"ABGR8888", "XRGB8888"}}
  Owners = {"one", "two"}
  Layouts <- MCLayouts
  MaxOpens = 3
  Shares = FALSE
  Retries = FALSE
  Chain = 2
  MaxTokens = 3
  NeedsBind = TRUE
  StickyDevice <- MCStickyDevice
  StickyLayers = {"video", "window"}
  Interpretations <- MCInterpretations
  Opacities <- MCOpacities
  MaxAsks = 1
  MaxClients = 1
  Buttons = {"close", "minimize"}
  Duration = 2
  ShadowCapacity = 2
  MaxRetargets = 3
  DecoPlanes <- MCDecoPlanes
  DecoCrtcs = {"crtc1", "crtc2"}
  Floors = {0, 2}
  Worn = {"decoration"}
  Desk <- MCDesk
  Spots <- MCSpots
  Shapes <- MCShapes
  MaxWindows = 2
  MaxSurfaces = 3
  MaxPaints = 1
  CapPlanes <- MCListedPlanes
  CapFbs <- MCCapFbs
  CapPlacings <- MCCapPlacings
  CapZpos = {0, 1}
  MaxRecommits = 3
  Curves = {"pq"}
  MaxPipeBlob = 5
  StageSets = {{}, {"gamma"}, {"ctm", "gamma"}}
  Connectors <- MCConnectors
  ModeLists <- MCModeLists
  Drives <- MCDrives
  CrtcList <- MCCrtcs
  PlaneList <- MCPlaneList
  Ranks <- MCRanks
  Pins = {0, 11}
  MaxPlugs = 3
  Producers = {"video", "window"}
  Screens <- MCScreens
  RowWidth = 2
  DamageReports <- MCDamages
  DamageLimit = 2
  FixedOne = 4
  MaxDraws = 2
INVARIANTS DamageCovers SlotsReturn PointerOnHotspot KeysFollowFingers BlobsStand MirrorsStand CanvasShowsItsLayers BuffersStand FramesAsAsked DecorationsStand CaptureTrue TargetCurrent
CHECK_DEADLOCK FALSE
