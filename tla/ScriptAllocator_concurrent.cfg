CONSTANTS
  Threads = {t1, t2}
  Requests = {2, 3, 5}
  MaxIndex = 4
  Base = 1
  InitUnits = 8
  LimitUnits = 8
  UnitsPerPage = 2
  Word = 32
  MaxChain = 1
  None = None
SPECIFICATION Spec
INVARIANT FreeListsExact
PROPERTY NodeFits
SYMMETRY Symmetry
CHECK_DEADLOCK FALSE
