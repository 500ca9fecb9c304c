SPECIFICATION Spec
CONSTANTS
  Width = 7
  Height = 5
  Rects <- MCRects
  MaxRegions = 3
  Setups <- MCSetups
INVARIANTS
  TypeOK
  RegionsSeparate
  MapsCoverDamage
  MapsFit
  RefusedForCause
PROPERTIES
  WorkRunsOut
