CONSTANTS
  LocalTypes <- MCLocalTypes
  Results <- MCResults
  BlockTypes <- MCBlockTypes
  ConstTypes <- MCConstTypes
  Operators <- MCOperators
  Globals <- MCGlobals
  StackPointer = 1
  HasMemory = TRUE
  HasTable = TRUE
  BrTables <- MCBrTables
  Offsets = {0, 1}
  AtomicOffsets = {0, 1}
  CleanLoops = TRUE
  Common <- MCCommon
  MaxLength = 7
  ShortLength = 5
  MaxRare = 2
SPECIFICATION Spec
INVARIANTS LabelsInStep OperandsAsChecked AccessAsWritten
PROPERTY ImplementsStructured
CHECK_DEADLOCK FALSE
