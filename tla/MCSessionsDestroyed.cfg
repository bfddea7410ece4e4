SPECIFICATION Spec
CONSTANTS
  Client = {c1, c2}
  NoClient = NoClient
  NoNick = NoNick
  Nick <- MCNick
  ValidNick <- MCValidNick
  Key <- MCKey
  Fold <- MCFold
  HasPassword = TRUE
  Settable <- MCNoModes
SYMMETRY MCSymmetry
INVARIANT
  DestroyedForgotten
CHECK_DEADLOCK FALSE
