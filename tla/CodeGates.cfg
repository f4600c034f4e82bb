SPECIFICATION Spec
CONSTANTS
  Dirs = {"d1", "d2"}
  Files = {"f1", "f2", "f3"}
  Texts = {"t1"}
  Modules = {"x", "y", "z"}
  Components = {"c1", "c2", "c3"}
  Refs = {"r1", "r2"}
  Segments = {"a", "b"}
  Layers = {"out", "mid", "in"}
  Ids = {"i1", "i2", "i3"}
  Lens = {"l1", "l2"}
  Others = {"o"}
  Changes = {"h1", "h2", "h3", "h4", "h5"}
  MaxFiles = 3
  Unit = 4
  MaxFleet = 6
  Bindable <- Names
  Classes = {"K", "L"}
  Definitions = {"d1", "d2"}
  Entries = {"e1", "e2"}
  Prints = {"q1", "q2"}
  Locals = {"m", "n", "k"}
  Body <- Programs
  Chars <- Lengths
  Symbols = {"f", "g", "C", "_x", "_B"}
  Hidden = {"_x", "_B"}
  Bodies = {"b", "c", "n"}
  LinesOf <- MCLinesOf
  Drafts <- MCDrafts
  Worlds <- MCWorlds
  MaxEdits <- MCMaxEdits
INVARIANTS
  TypeOK
  LeaksHaveOwners
  FlowsOneWay
  PassIsEarned
  LooksChangeNothing
PROPERTIES
  BaselineIsPaidFor
  SameFactsSameVerdict
  VerdictsAreMonotone
CHECK_DEADLOCK FALSE
