CONSTANTS
  Pools = {p1, p2, p3, p4}
  Cells = {c1, c2, c3}
  AnyOrder = FALSE
  Null = Null
SPECIFICATION FairSpec
INVARIANTS ChildListExact CellsPartition
PROPERTIES ImplementsForest DestroyEnds
