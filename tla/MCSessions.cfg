SPECIFICATION Spec
CONSTANTS
  Client = {c1, c2, c3}
  NoClient = NoClient
  NoNick = NoNick
  Nick <- MCNick
  ValidNick <- MCValidNick
  Key <- MCKey
  Fold <- MCFold
  HasPassword = TRUE
  Settable <- MCAway
SYMMETRY MCSymmetry
VIEW MCSessionView
INVARIANTS
  NickOwner RegistrySound RegistrationGate ConnectionsCount NoCircularWait
CHECK_DEADLOCK FALSE
