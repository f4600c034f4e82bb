SPECIFICATION Spec
CONSTANTS
  Codes = {0, 1}
  NoCode = NoCode
  Refuse = Refuse
  NoItem = NoItem
  Timeout = Timeout
  MaxRows = 1
  MaxOdd = 3
  MaxPair = 1
  Documents <- MCDocuments
INVARIANT PrimitivesNeverRun
CHECK_DEADLOCK FALSE
