SPECIFICATION Spec
CONSTANT NULL = NULL
INVARIANT ConditionsDescendFromRoot
CHECK_DEADLOCK FALSE
