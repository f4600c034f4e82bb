SPECIFICATION Spec
CONSTANT Tools <- GuardedTools
INVARIANTS
  TypeOK
  ExitCodeIsTheTools
  VerdictWasDelivered
  ResultsStayInLane
CHECK_DEADLOCK FALSE
