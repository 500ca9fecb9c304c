SPECIFICATION Spec
CONSTANTS
  WordMax = 63
  Sizes <- MCSizes
  Counts <- MCCounts
  Offsets <- MCOffsets
  Lengths <- MCLengths
INVARIANTS
  TypeOK
  ReadsInside
  OneVariant
  ReleasedOnce
  AssetsComplete
