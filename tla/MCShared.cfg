SPECIFICATION MCSpec
CONSTANTS
  Client = {c1, c2}
  NoClient = NoClient
  Nick <- MCNick
  NoNick = NoNick
  Key = {"a", "b"}
  Fold <- MCFold
  Chan = {o1, o2}
  NoChan = NoChan
  Mask <- MCMask
  UserHost <- MCUserHost
  NoRegexp = NoRegexp
  Entry = {1, 2}
  Nil = Nil
  N = 4
  NickOf <- MCNickOf
  Finder = {f1, f2}
  Appender = {a1}
  None = None
  Nickname = {"a"}
  Limit = {0, 2}
  File <- MCFile
  Unset = Unset
  Undecoded = Undecoded
  Hostnames = {"a.b", "c.d"}
  InitFile <- MCInitFile
SYMMETRY MCSymmetry
INVARIANTS
  EntrySound
  EmptyForgotten DestroyLeavesAll OneFounder
  MatchByCount
  EachIsContents FindIsNewestMatches
  FindAnswers WalkerOnRing FindBlocksOnWriterOnly
  SettledConfig IdentityKept
PROPERTY
  RingIsHistory
CHECK_DEADLOCK FALSE
