SPECIFICATION MCSpec
CONSTANTS
  Client = {c1, c2}
  NoClient = NoClient
  NoNick = NoNick
  Nick <- MCNick
  ValidNick <- MCValidNick
  Key <- MCKey
  Fold <- MCFold
  HasPassword = FALSE
  Settable <- MCModes
  Account = {"joe", "ann"}
  NoAccount = ""
  Password = {"p", "q"}
  passwords <- MCPasswords
  Capability = {"sasl", "multi-prefix", "other"}
  SupportedCapabilities = {"sasl", "multi-prefix"}
  MaxBuffer = 3
  Token <- MCToken
  Letter <- MCLetter
  Upper <- MCUpper
  NFKC <- MCNFKC
  NFC <- MCNFC
  Opening <- MCOpening
  Names <- MCNames
  ArgLength = {2, 9}
  BareLength = 6
  MaxReplyLen = 11
INVARIANTS
  LoginVerified RetryLogsIn CapabilitiesAgreed
  ArgsAreWords EchoParsesBack TargetsSeparate NamesCanonical
  NamesOnceInOrder CutAsMeasured
PROPERTY
  ModesByRight
CHECK_DEADLOCK FALSE
