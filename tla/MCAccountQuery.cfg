CONSTANT Parts = {"query"}
SPECIFICATION Spec
INVARIANT QueryInStep
CHECK_DEADLOCK FALSE
