SPECIFICATION Spec
CONSTANTS
  Mutants = {"m1", "m2"}
  Required = {"mutation", "argument"}
  Least = 2
  Stages = {"s1", "s2"}
  Paths = {"p1", "p2", "p3"}
  MinStages = 2
  Ids = {"i1", "i2"}
  Bases = {"b1", "b2"}
  Literals = {"lit"}
  Digests = {"dig", "other"}
  Gates <- MCGates
  Alias <- MCAlias
  Flags = {"--in-diff", "--all", "--no-install"}
  DenyScope = {"--all"}
  LocalPin = {"--no-install"}
  Words = {"w1", "w2", "w3"}
  MinLetters = 3
  Values = {"v1", "v2", "v3"}
  Places = {"here", "there", "out"}
  Tasks = {"t1", "t2"}
  Bodies = {"b1", "b2"}
  Hidden = {"o1", "o2"}
  Targets = {"tool", "guide", "hook", "gone", "far"}
  LinesOf <- MCLinesOf
  Drafts <- MCDrafts
  Worlds <- MCWorlds
  MaxEdits <- MCMaxEdits
  LastDay = 5
INVARIANTS
  TypeOK
  VerdictIsTheReaders
  VerdictIsTheDisks
  TwoReadingsNoVerdict
PROPERTIES
  TimeOnlyDecays
CHECK_DEADLOCK FALSE
