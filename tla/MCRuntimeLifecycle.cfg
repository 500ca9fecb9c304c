SPECIFICATION FairSpec
CONSTANTS
  t1 = t1
  t2 = t2
  d1 = d1
  d2 = d2
  d3 = d3
  Tasks <- MCTasks
  Displays <- MCDisplays
  DisplayOwner <- MCDisplayOwner
  ExtensionCount = 3
  Hooks <- MCHooks
  None = None
INVARIANTS
  TypeOK
  OneRuntime
  ExtensionsNest
  DisplaysHeld
PROPERTIES
  CallsEnd
  CallsAdvance
