CONSTANTS
  main = main
  inc = inc
  note = note
  peek = peek
  Funcs <- MCFuncs
  Hosts = {peek}
  Callees = {main, inc}
  Prepared = {note}
  Params <- MCParams
  Results <- MCResults
  Declared <- MCDeclared
  Values = {0, 1}
  Zero = 0
  ValueSize = 5
  CallSize = 3
  StaleReturn = FALSE
SPECIFICATION Spec
PROPERTY LocalsStartZero
