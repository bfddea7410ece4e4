SPECIFICATION MCSpec
CONSTANTS
  c1 = c1  c2 = c2
  Client = {c1, c2}
  NoClient = NoClient
  NoNick = NoNick
  Nick <- MCNick
  ValidNick <- MCNick
  Key <- MCNick
  Fold <- MCFold
  HasPassword = FALSE
  Settable <- MCNoModes
  Chan = {o1, o2}
  NoChan = NoChan
  ChanName = {"x"}
  ChanKey = {"key"}
  NoKey = NoKey
  Topic = {"text"}
  NoTopic = NoTopic
  Mask <- MCMasks
  MaxLimit = 1
  ModeLines <- MCModeLines
SYMMETRY MCSymmetry
INVARIANTS
  ChannelsTypeOK RegisteredIffInhabited MembersPointBack OneCreator
PROPERTY
  OplessFrozen
VIEW MCView
CHECK_DEADLOCK FALSE
