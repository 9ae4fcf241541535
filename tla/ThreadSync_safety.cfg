CONSTANTS
  Threads = {t1, t2, t3}
  Growers = {t1, t2, t3}
  HostGrowers = {}
  EntryTraps = TRUE
  SpuriousWakeups = TRUE
  InitialFlags = {FALSE}
  MaxNest = 2
  Values = {v1}
  InitPages = 1
  MaxPages = 3
  AddressPages = 5
  PageCounter = 8
  Deltas = {1, 3}
  None = None
SPECIFICATION Spec
INVARIANTS TypeOK GuestRunsUnderLock NoDanglingAccess ParkedHaveNotifier
PROPERTY ImplementsMemory
SYMMETRY Symmetry
