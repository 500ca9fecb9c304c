SPECIFICATION Spec
CONSTANTS
  Strips <- MCStrips
  Scenes <- MCScenes
  Setups <- PartialPair
  ModeChanges = {}
  NoFrame = NoFrame
  Unknown = Unknown
  Blank = Blank
  NoMap = NoMap
PROPERTIES
  SubmittedPixelsImmutable
