CONSTANTS
  Requests = {2, 5}
  Boundary = 4
  Header = 1
  PoolSize = 1
  RecordSize = 1
  Threshold = 3
  Extras = {0, 8}
  MaxUsed = 2
  Space = 48
SPECIFICATION Spec
INVARIANTS TypeOK PiecesDisjoint
PROPERTY NoRoomMissed
