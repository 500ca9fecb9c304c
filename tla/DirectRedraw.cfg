SPECIFICATION Spec
CONSTANTS
  Strips <- MCStrips
  Scenes <- MCScenes
  Setups <- DirectPush
  ModeChanges = {}
  NoFrame = NoFrame
  Unknown = Unknown
  Blank = Blank
  NoMap = NoMap
PROPERTIES
  RedrawAfterFailure
