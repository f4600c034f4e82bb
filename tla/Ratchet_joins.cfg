\* Records in every spelling, a share of one file in three over the ceiling.
SPECIFICATION Spec
CONSTANTS
  f = f
  g = g
  h = h
  Files = {f, g, h}
  Records <- MCRecords
  Ceiling = 6
  Budget = 40
INVARIANTS TypeOK VerdictIsAboutFiles
PROPERTIES BaselineIsARatchet
