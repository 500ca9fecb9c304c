SPECIFICATION FairSpec
CONSTANTS
  Strips <- MCStrips
  Scenes <- MCScenes
  Setups <- MCSetups
  ModeChanges <- MCModeChanges
  NoFrame = NoFrame
  Unknown = Unknown
  Blank = Blank
  NoMap = NoMap
INVARIANTS
  TypeOK
  HistoryIsDrawn
  ShownAfterSuccess
  NothingLeftOpen
PROPERTIES
  KeepsContract
  OverlapIsSafe
  FailureIsRedrawn
  FrameEnds
