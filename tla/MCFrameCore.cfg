SPECIFICATION Spec
CONSTANTS
  w1 = w1
  w2 = w2
  fb1 = fb1
  fb2 = fb2
  Words <- MCWords
  EmptyWords = EmptyWords
  Rasters = {0}
  DrawHash <- MCDrawHash
  EpochMod = 3
  MaxFrameTargets = 2
  MaxRenderTargets = 1
  Addresses <- MCAddresses
  MaxLoads = 1
  NoFrame = NoFrame
  Invalid = Invalid
SYMMETRY Interchangeable
INVARIANTS
  TypeOK
  CachedListIsFresh
  OneSceneOnStrips
  HistoriesAreTrue
PROPERTIES
  TokenIsOneShot
  ImplementsTransactions
