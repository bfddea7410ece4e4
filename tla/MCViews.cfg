SPECIFICATION MCSpec
CONSTANTS
  Client = {c1, c2, c3}
  NoClient = NoClient
  NoNick = NoNick
  Nick <- MCNick
  ValidNick <- MCNick
  Key <- MCNick
  Fold <- MCFold
  HasPassword = FALSE
  Settable = {}
  Chan = {o1}
  NoChan = NoChan
  ChanName = {"x"}
  ChanKey = {}
  NoKey = NoKey
  Topic = {}
  NoTopic = NoTopic
  Mask = {}
  MaxLimit = 0
  ModeLines = {}
SYMMETRY MCSymmetry
CONSTRAINT Quiet
VIEW MCView
INVARIANT ViewsAgree
CHECK_DEADLOCK FALSE
