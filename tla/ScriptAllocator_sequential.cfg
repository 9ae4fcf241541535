CONSTANTS
  Threads = {t1}
  Requests = {2, 3, 4, 5}
  MaxIndex = 3
  Base = 1
  InitUnits = 10
  LimitUnits = 14
  UnitsPerPage = 2
  Word = 32
  MaxChain = 2
  None = None
SPECIFICATION Spec
INVARIANTS TypeOK NodesTile LastIsHighest
PROPERTY ImplementsHeap
CHECK_DEADLOCK FALSE
