CONSTANTS
  A = A
  B = B
  Env = Env
  Absent = Absent
  Null = Null
  Host = Env
  Order <- MCOrder
  LoadOrder <- MCLoadOrder
  Fields <- MCFields
  Types <- MCLoaderTypes
  Environments <- MCLoaderEnvironments
  Contents <- MCContents
  Page = 4
  MaxPages = 3
  Boundary = 2
  AllocatorSize = 2
  StackType = 1
SPECIFICATION LoaderSpec
INVARIANTS LoaderTypeOK BoundAsDenoted SlotsEnough InitFailsForCause ImportsChecked
           ContentsAsDeclared AllocatorIntact
PROPERTY InitEnds
CHECK_DEADLOCK FALSE
