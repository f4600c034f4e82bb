SPECIFICATION Spec
CONSTANTS
  s1 = s1
  s2 = s2
  a = a
  b = b
  Stories = {s1, s2}
  Names = {a, b}
  NoName = NoName
  Malformed = Malformed
  MaxLines = 4
  Features <- MCFeatures
  Reports <- MCReports
INVARIANTS
  TypeOK
  ConsentIsTheBar
  OneTextOneStory
