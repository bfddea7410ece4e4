SPECIFICATION FairSpec
CONSTANT
  Others = {}
PROPERTY
  KickedAfterTimeout
CHECK_DEADLOCK FALSE
