SPECIFICATION FairSpec
CONSTANTS
  Codes = {0, 1}
  NoCode = NoCode
  Refuse = Refuse
  NoItem = NoItem
  Timeout = Timeout
  MaxRows = 4
  MaxOdd = 3
  MaxPair = 1
  Documents <- MCDocuments
INVARIANTS
  TypeOK
  WholeScenario
  RefusedNeverRun
  NothingCountsAfterRefusal
  CodeNotShared
  GreenIsEarned
  StatedCodeReported
PROPERTY Terminates
CHECK_DEADLOCK FALSE
