SPECIFICATION Spec
CONSTANTS
  WordMax = 63
  Steps = 4
  ScaleLimit = 3
  Surfaces <- MCSurfaces
  Sources <- MCSources
  Rects <- MCRects
  Colors <- MCColors
  Alphas = {0, 1, 2, 100, 127, 128, 200, 254, 255}
INVARIANTS
  DrawnAsAsked
  DrivenWhenPossible
