SPECIFICATION Spec
CONSTANT Tools <- UnguardedTools
INVARIANT ExitCodeIsTheTools
CHECK_DEADLOCK FALSE
