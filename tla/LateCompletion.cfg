SPECIFICATION FairSpec
CONSTANTS
  MaxFlushes = 2
  Drivers = {"late"}
INVARIANTS
  OwnVerdict
