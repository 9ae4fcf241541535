CONSTANTS
  Threads = {t1, t2, t3}
  Growers = {t1, t2, t3}
  HostGrowers = {t3}
  EntryTraps = FALSE
  SpuriousWakeups = FALSE
  InitialFlags = {FALSE}
  MaxNest = 1
  Values = {v1}
  InitPages = 1
  MaxPages = 3
  AddressPages = 3
  PageCounter = 8
  Deltas = {1, 3}
  None = None
SPECIFICATION FairSpec
PROPERTIES ParkedWake GrowthCompletes
