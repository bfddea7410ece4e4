SPECIFICATION FairSpec
CONSTANTS
  Entry = {1, 2}
  Nil = Nil
  N = 3
  NickOf <- MCNickOf
  Finder = {f1}
  Appender = {a1}
  None = None
  Nickname = {"a"}
  Limit = {1}
PROPERTY
  EachEnds
CHECK_DEADLOCK FALSE
