SPECIFICATION Spec
CONSTANT
  Others = {}
INVARIANT
  NoPanic
CHECK_DEADLOCK FALSE
