CONSTANTS
  Names = {"b"}
  Loaded <- MCLoaded
  HostGlobals <- MCHostGlobals
  Fields = {"f", "g"}
  ValueTypes = {"i32", "i64"}
  MaxDepth = 16
  Reload = FALSE
  Unnoticed = {}
  Importable <- MCImportable
  Counts <- MCCounts
  Customs <- MCCustoms
  DebugNames = TRUE
  MaxCustoms = 1
  MaxLength = 8
  MaxFailed = 4
SPECIFICATION Spec
INVARIANTS TypeOK AcceptsExactlyValid ReadsAsWritten
PROPERTY ImplementsStore
CHECK_DEADLOCK FALSE
