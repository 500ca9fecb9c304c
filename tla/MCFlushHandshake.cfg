SPECIFICATION FairSpec
CONSTANTS
  MaxFlushes = 3
  Drivers = {"punctual", "late"}
INVARIANTS
  HandshakeInv
PROPERTIES
  ImplementsExchange
  OwnerReturns
