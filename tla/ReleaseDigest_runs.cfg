SPECIFICATION Spec
CONSTANTS
  Writers = {w1, w2}
  Verifiers = {v1}
  Manifests = {m1, m2}
  Absent = Absent
  Malformed = Malformed
  MaxCommits = 2
INVARIANTS
  TypeOK
  WroteWhatItCaptured
  VerdictIsAboutOneCommit
  NoVerdictFromDamage
PROPERTY DigestIsARegister
CHECK_DEADLOCK FALSE
