SPECIFICATION Spec
CONSTANTS
  Promises = {p1, p2}
  ExtensionCount = 2
  MaxJobs = 2
SYMMETRY Interchangeable
INVARIANTS
  FaultsFailFrame
