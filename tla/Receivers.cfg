CONSTANTS
  Scripts <- MCScripts
  Modes <- MCModes
  Forced <- MCForced
  NoMode = NoMode
  NBits = 2
  Bit = 2
  LeaderMin = 2
  StartMin = 2
  QuietMax = 4
  Hold = 6
  HoldVis = 3
  Margin = 1
  MaxBlock = 6
  MaxRestarts = 1
  Width = 6
  SyncLen = 1
  Radius = 1
  MaxLines = 3
  None = None
  Preamble = 2
  ShortLen = 2
  LongLen = 4
  MaxRead = 7
  MinBits = 4
  MaxBits = 9
  GapBits = 12
  Crafts = {a}
  World = 48
  EvenZones = 4
  OddZones = 3
  MaxRange = 8
  PairAge = 1
  LocalAge = 2
  Gate = 1
  TrailSecs = 2
  Forget = 3
  Reach = 9
  Horizon = 6
  Restarts = 2
  NoTrack = none
  Passes <- MCPasses
  Airs <- MCAirs
  Wires <- MCWires
  Plans <- MCPlans
SPECIFICATION ReceiversSpec
INVARIANTS CursorHeld WholePicture LinesFollow TwiceOnlyAtCut FramesDelivered FixIsTrue ShownIsCurrent
CHECK_DEADLOCK FALSE
