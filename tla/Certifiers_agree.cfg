SPECIFICATION BothSpec
CONSTANTS
  Codes = {0, 1}
  NoCode = NoCode
  Refuse = Refuse
  NoItem = NoItem
  Timeout = Timeout
  Strays = {120}
  MaxRows = 3
  MaxOdd = 2
  MaxPair = 1
  SelfProbes <- MCSelfProbes
  Documents <- MCDocuments
INVARIANTS
  TypeOK
  CleanMeansEveryProbeHeld
  ProbesWhatVerifyCounts
  RefusalsAgree
CHECK_DEADLOCK FALSE
