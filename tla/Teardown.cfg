SPECIFICATION FairSpec
CONSTANT
  Others = {"killer", "other"}
INVARIANTS
  CloseExcludesIO
PROPERTIES
  QuitCloses SilentQuits
CHECK_DEADLOCK FALSE
