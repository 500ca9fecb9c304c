SPECIFICATION Spec
CONSTANTS
  Promises = {p1, p2, p3}
  ExtensionCount = 2
  MaxJobs = 3
SYMMETRY Interchangeable
INVARIANTS
  TypeOK
  NoFalseAlarm
  SuccessLeavesNothing
  BlameStaysClose
